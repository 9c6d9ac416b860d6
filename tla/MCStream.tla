------------------------------ MODULE MCStream ------------------------------
(***************************************************************************)
(* A stream body whose buffer size the environment sets too small.         *)
(***************************************************************************)
EXTENDS StreamBody

MCEnv == [name \in Name |-> IF name = "STREAM_READ_BUFFER_SIZE" THEN {0} ELSE {}]
MCDefault == [name \in Name |-> 1]
=============================================================================
