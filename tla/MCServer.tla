------------------------------ MODULE MCServer ------------------------------
(***************************************************************************)
(* One permit and one thread for three requests, a buffer set too small,   *)
(* and queries around the ends of a short archive and of the numbers that  *)
(* can be read.                                                            *)
(***************************************************************************)
EXTENDS Server

CONSTANTS o1, o2

MCEnv == [name \in Name |-> IF name = "STREAM_READ_BUFFER_SIZE" THEN {0} ELSE {}]
MCDefault == [name \in Name |-> 1]

MCRequest == {Me, o1, o2}

MCTotals == {5}

Ask(range) == [flaw |-> "none", range |-> range, named |-> TRUE]
Form(form, a, b) == [form |-> form, first |-> a, last |-> b]

MCHeader ==
  {Form("no range", 0, 0), Form("garbled", 0, 0)}
  \cup {Form("suffix", 0, n) : n \in {0, 3, 6, 8}}
  \cup {Form("open", n, 0) : n \in {4, 5, 8}}
  \cup {Form("closed", 2, 5), Form("closed", 5, 7), Form("closed", 3, 2), Form("closed", 0, 8)}

MCQueries ==
  {[Ask(NoHeader) EXCEPT !.flaw = flaw] : flaw \in {"none", "missing", "unresolved"}}
  \cup {Ask(range) : range \in MCHeader \cup {BinaryHeader}}
  \cup {[Ask(NoHeader) EXCEPT !.named = FALSE]}
=============================================================================
