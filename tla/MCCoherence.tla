----------------------------- MODULE MCCoherence -----------------------------
(***************************************************************************)
(* A single source, which changes as a whole.                              *)
(***************************************************************************)
EXTENDS Coherence

OnePath == {<<"d">>}
=============================================================================
