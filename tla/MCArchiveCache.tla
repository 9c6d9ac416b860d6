--------------------------- MODULE MCArchiveCache ---------------------------
(***************************************************************************)
(* Small instances of ArchiveCache: a source directory and a file in it,   *)
(* both of which clients may ask for.                                      *)
(***************************************************************************)
EXTENDS ArchiveCache, TLC

CONSTANTS t1, t2

Root == <<"d">>
File == <<"d", "f">>

MCPath == {Root, File}
MCRoot == {Root}
MCThread == {t1, t2}
Symmetry == Permutations(MCThread)
=============================================================================
