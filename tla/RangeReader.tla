---------------------------- MODULE RangeReader -----------------------------
(***************************************************************************)
(* What Archive::stream_range promises (src/archive/mod.rs): a reader of   *)
(* the half-open range [first, last) of the archive that delivers it in    *)
(* order, some bytes at a time, reports its end (Ok(0)) when and only when *)
(* the whole range has been delivered, and otherwise may only fail.        *)
(***************************************************************************)
EXTENDS Naturals

VARIABLES first, last,  \* the range
          at,           \* how far it has been delivered
          status        \* "closed", "open", "ended" or "failed"

rangeVars == <<first, last, at, status>>

Init == first = 0 /\ last = 0 /\ at = 0 /\ status = "closed"

Open ==
  /\ status = "closed"
  /\ first' \in Nat /\ last' \in Nat /\ first' <= last'
  /\ at' = first'
  /\ status' = "open"

\* read returns Ok(n), n > 0.
Deliver ==
  /\ status = "open"
  /\ at' \in Nat /\ at < at' /\ at' <= last
  /\ UNCHANGED <<first, last, status>>

\* read returns Ok(0).
End ==
  /\ status = "open" /\ at = last
  /\ status' = "ended"
  /\ UNCHANGED <<first, last, at>>

Fail ==
  /\ status = "open"
  /\ status' = "failed"
  /\ UNCHANGED <<first, last, at>>

Next == Open \/ Deliver \/ End \/ Fail

Spec == Init /\ [][Next]_rangeVars
=============================================================================
