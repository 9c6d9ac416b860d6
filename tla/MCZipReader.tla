---------------------------- MODULE MCZipReader -----------------------------
(***************************************************************************)
(* Archives around the limits of the format, with a limit of 200 for what  *)
(* 32 bits hold and of 1 or 2 for what 16 bits hold: sizes below and at    *)
(* the limit, offsets below and beyond it, a central directory that is too *)
(* long because of its names, files without content, directories.          *)
(***************************************************************************)
EXTENDS ZipReader

CONSTANTS r1, r2

File(n, s) == [name |-> n, dir |-> FALSE, size |-> s]
Directory(n) == [name |-> n, dir |-> TRUE, size |-> 0]

MCItem == {File(3, 0), File(3, 40), File(60, 199), File(3, 200), Directory(60)}
MCItemShared == {File(3, 40), Directory(3)}

MCRangePoints == {0, 1, 60, 73, 320}
MCRangePointsShared == {0, 33}
=============================================================================
