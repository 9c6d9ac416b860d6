---------------------------- MODULE RangeHeader -----------------------------
(***************************************************************************)
(* parse_range_header (src/server/handler.rs): the closed range of bytes a *)
(* Range header selects from an archive.  Of several ranges only the first *)
(* counts, so a header stands here for its first range.                    *)
(***************************************************************************)
EXTENDS Integers

CONSTANT U64_MAX

ASSUME U64Assumption == U64_MAX \in Nat

(***************************************************************************)
(* "suffix" is -last, "open" is first-, "closed" is first-last; "no range" *)
(* is another unit or nothing after it, "garbled" no dash, a dash alone or *)
(* something else where a number should be.                                *)
(***************************************************************************)
Header ==
  [form : {"no range", "garbled", "suffix", "open", "closed"}, first : Nat, last : Nat]

Satisfied(a, b) == [kind |-> "ok", first |-> a, last |-> b]
Malformed == [kind |-> "malformed"]
Unsatisfiable == [kind |-> "unsatisfiable"]

\* str::parse::<u64> refuses what 64 bits do not hold.
Fits(n) == n <= U64_MAX

Clip(n, most) == IF n <= most THEN n ELSE most

ParseSuffix(n, total) ==
  IF ~ Fits(n) THEN Malformed
  ELSE IF n = 0 THEN Unsatisfiable
  ELSE Satisfied(total - Clip(n, total), total - 1)

ParseOpen(a, total) ==
  IF ~ Fits(a) THEN Malformed
  ELSE IF a >= total THEN Unsatisfiable
  ELSE Satisfied(a, total - 1)

ParseClosedUnclipped(a, b, total) ==
  IF ~ Fits(a) \/ ~ Fits(b) \/ a > b THEN Malformed
  ELSE IF a >= total THEN Unsatisfiable
  ELSE Satisfied(a, b)

ParseClosed(a, b, total) ==
  IF ~ Fits(a) \/ ~ Fits(b) \/ a > b THEN Malformed
  ELSE IF a >= total THEN Unsatisfiable
  ELSE Satisfied(a, Clip(b, total - 1))

\* The unit is looked at before the size, the range itself after it.
ParseRangeHeader(h, total) ==
  CASE h.form = "no range" -> Malformed
    [] h.form # "no range" /\ total = 0 -> Unsatisfiable
    [] h.form = "garbled" /\ total # 0 -> Malformed
    [] h.form = "suffix" /\ total # 0 -> ParseSuffix(h.last, total)
    [] h.form = "open" /\ total # 0 -> ParseOpen(h.first, total)
    [] h.form = "closed" /\ total # 0 -> ParseClosed(h.first, h.last, total)

-----------------------------------------------------------------------------
(***************************************************************************)
(* What a header means, for reference: whether it is a range with numbers  *)
(* the parser can hold, and the positions such a range asks for.           *)
(***************************************************************************)
Understood(h) ==
  CASE h.form = "suffix" -> Fits(h.last)
    [] h.form = "open" -> Fits(h.first)
    [] h.form = "closed" -> Fits(h.first) /\ Fits(h.last) /\ h.first <= h.last
    [] OTHER -> FALSE

Asked(h, total) ==
  {p \in 0..(total - 1) :
     CASE h.form = "suffix" -> total - h.last <= p
       [] h.form = "open" -> h.first <= p
       [] OTHER -> h.first <= p /\ p <= h.last}
=============================================================================
