---------------------------- MODULE StreamProofs ----------------------------
(***************************************************************************)
(* The stream body for every range, buffer and channel capacity, whichever *)
(* reader it drives: what the client gets is a prefix of the range, whole  *)
(* when the body ends.                                                     *)
(***************************************************************************)
EXTENDS StreamBody, TLAPS

\* Beyond the properties: chunks stay within the range, an error is the last
\* thing a task sends, nothing happens before the body exists, and a body that
\* has ended is whole.
Bounded ==
  /\ hand.to <= length
  /\ \A i \in 1..Len(channel) : channel[i].to <= length
  /\ received <= length

Orderly ==
  /\ \A i \in 1..Len(channel) : channel[i].kind = "error" => task = "done"
  /\ body = "none" => task = "queued" /\ length = 0
  /\ task = "queued" => channel = <<>> /\ at = 0 /\ received = 0
  /\ body # "open" => channel = <<>>
  /\ body = "ended" => received = length

StreamInv == TypeOK /\ Bounded /\ Orderly /\ InFlight /\ GivesUpAloud

\* Whatever the environment says, a buffer has room.
LEMMA BufferRoom == BufferSize \in Nat \ {0}
<1>1. "STREAM_READ_BUFFER_SIZE" \in Name
  BY DEF Name
<1>2. Setting("STREAM_READ_BUFFER_SIZE") \in Nat
  BY <1>1, ConfigAssumption DEF Setting
<1> QED BY <1>2, StreamAssumption DEF BufferSize, Greatest

LEMMA ReachBound ==
  ASSUME TypeOK
  PROVE  /\ Reach \in Nat /\ at <= Reach /\ Reach <= length
         /\ ~ AtEnd => at < Reach
         /\ AtEnd <=> at = length
<1>1. at \in Nat /\ length \in Nat /\ at <= length /\ BufferSize \in Nat /\ BufferSize # 0
  BY BufferRoom DEF TypeOK
<1> HIDE DEF BufferSize
<1> QED BY <1>1 DEF Reach, Least, AtEnd

LEMMA InitInv == Init => StreamInv
BY DEF Init, StreamInv, TypeOK, Bounded, Orderly, InFlight, GivesUpAloud, Item

\* The task takes a chunk or an error in hand.
LEMMA TakeInv ==
  ASSUME StreamInv, ReadChunk \/ ReadError
  PROVE  StreamInv'
<1> USE DEF StreamInv
<1>0. /\ task = "reading" /\ task' = "sending" /\ at \in Nat /\ at <= length /\ length \in Nat
      /\ UNCHANGED <<length, cut, channel, received, body>> /\ channel \in Seq(Item)
  BY DEF ReadChunk, ReadError, TypeOK
<1>1. PICK n \in Nat : n = Len(channel)
  BY <1>0
<1>2. PICK to \in Nat : /\ at' = to /\ at <= to /\ to <= length
                        /\ \/ hand' = [kind |-> "data", from |-> at, to |-> to] /\ at < to
                           \/ hand' = [kind |-> "error", from |-> at, to |-> at] /\ at = to
  <2>1. CASE ReadChunk
    BY <2>1, <1>0, ReachBound DEF ReadChunk
  <2>2. CASE ReadError
    BY <2>2, <1>0 DEF ReadError
  <2> QED BY <2>1, <2>2
<1>3. hand' \in Item /\ hand'.from = at /\ hand'.to = to
  BY <1>0, <1>2 DEF Item
<1>4. TypeOK' /\ Bounded' /\ Orderly' /\ GivesUpAloud'
  BY <1>0, <1>2, <1>3 DEF TypeOK, Bounded, Orderly, GivesUpAloud
<1>5. InFlight'
  <2> SUFFICES ASSUME body = "open" PROVE InFlight'
    BY <1>0 DEF InFlight
  <2>1. Flight = channel /\ Flight' = Append(channel, hand')
    BY <1>0 DEF Flight
  <2>2. /\ Len(Flight') = n + 1 /\ Flight'[n + 1] = hand'
        /\ \A i \in 1..n : Flight'[i] = channel[i]
    BY <1>0, <1>1, <1>3, <2>1
  <2>3. at = IF n = 0 THEN received ELSE channel[n].to
    BY <1>0, <1>1, <2>1 DEF InFlight
  <2>4. \A i \in 1..n : channel[i].kind # "error"
    BY <1>0, <1>1 DEF Orderly
  <2>5. ASSUME NEW i \in 1..n
        PROVE  /\ Flight'[i].from = IF i = 1 THEN received ELSE Flight'[i - 1].to
               /\ Flight'[i].kind # "error" /\ Flight'[i].from < Flight'[i].to
    BY <1>1, <2>1, <2>2, <2>4 DEF InFlight
  <2>6. /\ Flight'[n + 1].from = IF n + 1 = 1 THEN received ELSE Flight'[n].to
        /\ IF Flight'[n + 1].kind = "error" THEN Flight'[n + 1].to = Flight'[n + 1].from
                                            ELSE Flight'[n + 1].from < Flight'[n + 1].to
    BY <1>1, <1>2, <1>3, <2>2, <2>3
  <2>7. \A i \in 1..(n + 1) : i \in 1..n \/ i = n + 1
    BY <1>1
  <2>8. Flight' # <<>> /\ at' = Flight'[n + 1].to /\ received' = received
    BY <1>0, <1>2, <1>3, <2>1, <2>2
  <2> QED BY <1>1, <2>2, <2>5, <2>6, <2>7, <2>8 DEF InFlight
<1> QED BY <1>4, <1>5

LEMMA SendInv ==
  ASSUME StreamInv, Send
  PROVE  StreamInv'
<1> USE DEF StreamInv
<1>0. /\ task = "sending" /\ body = "open" /\ channel' = Append(channel, hand)
      /\ UNCHANGED <<length, cut, at, hand, received, body>> /\ channel \in Seq(Item) /\ hand \in Item
      /\ task' = IF hand.kind = "error" THEN "done" ELSE "reading"
  BY DEF Send, AfterSend, TypeOK
<1>1. PICK n \in Nat : n = Len(channel)
  BY <1>0
<1>2. /\ Len(channel') = n + 1 /\ channel'[n + 1] = hand /\ channel' \in Seq(Item)
      /\ \A i \in 1..n : channel'[i] = channel[i]
      /\ channel' # <<>>
  BY <1>0, <1>1
<1>3. \A i \in 1..(n + 1) : i \in 1..n \/ i = n + 1
  BY <1>1
<1>4. \A i \in 1..n : channel[i].kind # "error"
  BY <1>0, <1>1 DEF Orderly
<1>5. TypeOK'
  BY <1>0, <1>2 DEF TypeOK
<1>6. Bounded'
  BY <1>0, <1>1, <1>2, <1>3 DEF Bounded
<1>7. Orderly'
  BY <1>0, <1>1, <1>2, <1>3, <1>4 DEF Orderly
<1>8. Flight' = channel' /\ Flight = channel'
  BY <1>0 DEF Flight
<1>9. InFlight'
  BY <1>0, <1>8 DEF InFlight
<1>10. GivesUpAloud'
  BY <1>0, <1>2 DEF GivesUpAloud
<1> QED BY <1>5, <1>6, <1>7, <1>9, <1>10

LEMMA ReceiveInv ==
  ASSUME StreamInv, Receive
  PROVE  StreamInv' /\ [Client!Next]_Client!rangeVars
<1> USE DEF StreamInv
<1>0. /\ body = "open" /\ channel # <<>> /\ channel \in Seq(Item)
      /\ UNCHANGED <<length, cut, at, hand, task>>
      /\ length \in Nat /\ at \in Nat /\ received \in Nat /\ hand \in Item
  BY DEF Receive, TypeOK
<1>1. PICK n \in Nat : n + 1 = Len(channel)
  <2>1. Len(channel) \in Nat /\ Len(channel) # 0
    BY <1>0
  <2>2. Len(channel) - 1 \in Nat /\ (Len(channel) - 1) + 1 = Len(channel)
    BY <2>1
  <2> QED BY <2>2
<1>2. PICK item \in Item : item = Head(channel) /\ item = channel[1]
  BY <1>0, <1>1
<1>3. item.from \in Nat /\ item.to \in Nat /\ item.to <= length
  BY <1>0, <1>1, <1>2 DEF Item, Bounded
<1>4. Flight[1] = channel[1] /\ Len(Flight) \in Nat /\ Len(Flight) >= n + 1
  BY <1>0, <1>1 DEF Flight
<1>5. item.from = received
  BY <1>0, <1>1, <1>2, <1>4 DEF InFlight
<1>6. CASE item.kind = "error"
  <2>1. body' = "failed" /\ channel' = <<>> /\ received' = received
    BY <1>2, <1>6 DEF Receive
  <2>2. StreamInv'
    BY <1>0, <2>1 DEF TypeOK, Bounded, Orderly, InFlight, GivesUpAloud
  <2> QED BY <1>0, <2>1, <2>2 DEF Client!Next, Client!Fail, Client!rangeVars
<1>7. CASE item.kind # "error"
  <2>1. body' = body /\ channel' = Tail(channel) /\ received' = item.to /\ item.from < item.to
    <3>1. item.kind = "data"
      BY <1>7 DEF Item
    <3>2. item.from < item.to
      BY <1>0, <1>1, <1>2, <1>4, <1>7 DEF InFlight
    <3>3. received' = received + (item.to - item.from) /\ body' = body /\ channel' = Tail(channel)
      BY <1>2, <3>1 DEF Receive
    <3> QED BY <1>0, <1>3, <1>5, <3>2, <3>3
  <2>2. /\ channel' \in Seq(Item) /\ Len(channel') = n
        /\ \A i \in 1..n : channel'[i] = channel[i + 1]
    BY <1>0, <1>1, <2>1
  <2>3. PICK m \in Nat : /\ m + 1 = Len(Flight) /\ Len(Flight') = m
                         /\ \A i \in 1..m : Flight'[i] = Flight[i + 1]
    <3>1. CASE task = "sending"
      <4>1. Flight = Append(channel, hand) /\ Flight' = Append(channel', hand)
        BY <1>0, <3>1 DEF Flight
      <4>2. Len(Flight) = (n + 1) + 1 /\ Len(Flight') = n + 1
        BY <1>0, <1>1, <2>2, <4>1
      <4>3. ASSUME NEW i \in 1..(n + 1) PROVE Flight'[i] = Flight[i + 1]
        <5>1. CASE i = n + 1
          BY <1>0, <1>1, <2>2, <4>1, <5>1
        <5>2. CASE i \in 1..n
          <6>1. Flight'[i] = channel'[i] /\ Flight[i + 1] = channel[i + 1]
            BY <1>0, <1>1, <2>2, <4>1, <5>2
          <6> QED BY <2>2, <5>2, <6>1
        <5> QED BY <5>1, <5>2
      <4> QED BY <4>2, <4>3
    <3>2. CASE task # "sending"
      <4>1. Flight = channel /\ Flight' = channel'
        BY <1>0, <3>2 DEF Flight
      <4> QED BY <1>1, <2>2, <4>1
    <3> QED BY <3>1, <3>2
  <2>4. TypeOK' /\ Bounded'
    BY <1>0, <1>1, <1>3, <2>1, <2>2 DEF TypeOK, Bounded
  <2>5. Orderly'
    BY <1>0, <1>1, <2>1, <2>2 DEF Orderly
  <2>6. InFlight'
    <3>1. /\ \A j \in 1..(m + 1) :
               /\ Flight[j].from = IF j = 1 THEN received ELSE Flight[j - 1].to
               /\ IF Flight[j].kind = "error"
                  THEN j = m + 1 /\ Flight[j].to = Flight[j].from
                  ELSE Flight[j].from < Flight[j].to
          /\ at = IF Flight = <<>> THEN received ELSE Flight[m + 1].to
      BY <1>0, <2>3 DEF InFlight
    <3>2. ASSUME NEW i \in 1..m
          PROVE  /\ Flight'[i].from = IF i = 1 THEN received' ELSE Flight'[i - 1].to
                 /\ IF Flight'[i].kind = "error"
                    THEN i = m /\ Flight'[i].to = Flight'[i].from
                    ELSE Flight'[i].from < Flight'[i].to
      <4>1. Flight'[i] = Flight[i + 1] /\ i + 1 \in 1..(m + 1) /\ i + 1 # 1 /\ (i + 1) - 1 = i
        BY <2>3
      <4>2. Flight[i + 1].from = Flight[i].to
        BY <3>1, <4>1
      <4>3. IF i = 1 THEN Flight[i].to = received' ELSE Flight'[i - 1] = Flight[i]
        <5>1. CASE i = 1
          BY <1>2, <1>4, <2>1, <5>1
        <5>2. CASE i # 1
          <6>1. i - 1 \in 1..m /\ (i - 1) + 1 = i
            BY <5>2
          <6> QED BY <2>3, <5>2, <6>1
        <5> QED BY <5>1, <5>2
      <4> QED BY <3>1, <4>1, <4>2, <4>3
    <3>3. at' = IF Flight' = <<>> THEN received' ELSE Flight'[m].to
      <4>1. at = Flight[m + 1].to
        BY <1>4, <2>3, <3>1
      <4>2. CASE m = 0
        BY <1>0, <1>2, <1>4, <2>1, <2>3, <4>1, <4>2
      <4>3. CASE m # 0
        BY <1>0, <2>3, <4>1, <4>3
      <4> QED BY <4>2, <4>3
    <3> QED BY <2>3, <3>2, <3>3 DEF InFlight
  <2>7. GivesUpAloud'
    <3> SUFFICES ASSUME task = "done", at < length
                 PROVE  channel' # <<>> /\ channel'[Len(channel')].kind = "error"
      BY <1>0, <2>1 DEF GivesUpAloud
    <3>1. channel[n + 1].kind = "error"
      BY <1>0, <1>1 DEF GivesUpAloud
    <3>2. n # 0
      BY <1>2, <1>7, <3>1
    <3> QED BY <2>2, <3>1, <3>2
  <2>8. Client!Deliver
    BY <1>0, <1>3, <1>5, <2>1 DEF Client!Deliver
  <2> QED BY <2>4, <2>5, <2>6, <2>7, <2>8 DEF Client!Next
<1> QED BY <1>6, <1>7

LEMMA OtherStepInv ==
  ASSUME StreamInv, \/ Create \/ Start \/ ReadEnd \/ SendFails \/ ReceiveEnd
                    \/ Disconnect \/ Cancel \/ Cut \/ UNCHANGED vars
  PROVE  StreamInv' /\ [Client!Next]_Client!rangeVars
<1> USE DEF StreamInv, Client!Next, Client!rangeVars
<1>1. CASE Create
  <2>1. /\ task = "queued" /\ channel = <<>> /\ at = 0 /\ received = 0 /\ body = "none" /\ body' = "open"
        /\ UNCHANGED <<at, hand, task, channel, received>> /\ length' \in 1..MaxLength /\ cut' = length'
    BY <1>1 DEF Create, CreateBody, Orderly
  <2>2. length' \in Nat /\ length' >= length /\ hand.to <= length'
    <3>1. length = 0 /\ hand.to <= length /\ hand.to \in Nat
      BY <2>1 DEF Orderly, TypeOK, Bounded, Item
    <3> QED BY <2>1, <3>1, StreamAssumption
  <2>3. StreamInv'
    BY <2>1, <2>2, StreamAssumption DEF TypeOK, Bounded, Orderly, InFlight, Flight, GivesUpAloud
  <2> QED BY <2>1, <2>2, <2>3 DEF Client!Open
<1>2. CASE Start \/ ReadEnd \/ SendFails \/ Cancel
  <2>1. /\ task # "sending" \/ body # "open"
        /\ task' \in {"reading", "done"} /\ body # "none"
        /\ task' = "done" /\ body = "open" => at = length
        /\ UNCHANGED <<length, cut, at, hand, channel, received, body>>
        /\ task' # "done" => task = "queued"
    BY <1>2, ReachBound DEF Start, ReadEnd, SendFails, Cancel, Orderly
  <2>2. TypeOK' /\ Bounded' /\ Orderly'
    BY <2>1 DEF TypeOK, Bounded, Orderly
  <2>3. InFlight'
    BY <2>1 DEF InFlight, Flight
  <2>4. GivesUpAloud'
    BY <2>1 DEF GivesUpAloud, TypeOK
  <2> QED BY <2>1, <2>2, <2>3, <2>4
<1>3. CASE ReceiveEnd
  <2>1. /\ body = "open" /\ channel = <<>> /\ task = "done" /\ body' = "ended"
        /\ UNCHANGED <<length, cut, at, hand, task, channel, received>>
    BY <1>3 DEF ReceiveEnd
  <2>2. received = at /\ at = length
    BY <2>1 DEF InFlight, Flight, GivesUpAloud, TypeOK
  <2>3. StreamInv'
    BY <2>1, <2>2 DEF TypeOK, Bounded, Orderly, InFlight, GivesUpAloud
  <2> QED BY <2>1, <2>2, <2>3 DEF Client!End
<1>4. CASE Disconnect
  <2>1. /\ body = "open" /\ body' = "dropped" /\ channel' = <<>>
        /\ UNCHANGED <<length, cut, at, hand, task, received>>
    BY <1>4 DEF Disconnect
  <2>2. StreamInv'
    BY <2>1 DEF TypeOK, Bounded, Orderly, InFlight, GivesUpAloud
  <2> QED BY <2>1, <2>2 DEF Client!Fail
<1>5. CASE Cut
  <2>1. /\ UNCHANGED <<length, at, hand, task, channel, received, body>>
        /\ cut' \in Nat /\ cut' <= length
    BY <1>5 DEF Cut, TypeOK
  <2> QED BY <2>1 DEF TypeOK, Bounded, Orderly, InFlight, Flight, GivesUpAloud
<1>6. CASE UNCHANGED vars
  BY <1>6 DEF vars, TypeOK, Bounded, Orderly, InFlight, Flight, GivesUpAloud
<1> QED BY <1>1, <1>2, <1>3, <1>4, <1>5, <1>6

LEMMA StepInv ==
  ASSUME StreamInv, [Next]_vars
  PROVE  StreamInv' /\ [Client!Next]_Client!rangeVars
<1>1. CASE ReadChunk \/ ReadError \/ Send
  <2>1. UNCHANGED <<length, received, body>>
    BY <1>1 DEF ReadChunk, ReadError, Send
  <2> QED BY <1>1, <2>1, TakeInv, SendInv DEF Client!rangeVars
<1>2. CASE Receive
  BY <1>2, ReceiveInv
<1>3. CASE ~ (ReadChunk \/ ReadError \/ Send \/ Receive)
  BY <1>3, OtherStepInv DEF Next, Task, Consume
<1> QED BY <1>1, <1>2, <1>3

\* The invariant needs no fairness, so whatever takes the steps of the stream,
\* and the server does, has it.
LEMMA StepsKeepInv == Init /\ [][Next]_vars => []StreamInv
<1>1. Init => StreamInv
  BY InitInv
<1>2. StreamInv /\ [Next]_vars => StreamInv'
  BY StepInv
<1> QED BY <1>1, <1>2, PTL

LEMMA StepsRefineRange == Init /\ [][Next]_vars => ClientSeesRange
<1>1. Init => Client!Init
  BY DEF Init, Client!Init
<1>2. StreamInv /\ [Next]_vars => [Client!Next]_Client!rangeVars
  BY StepInv
<1> QED BY <1>1, <1>2, StepsKeepInv, PTL DEF ClientSeesRange, Client!Spec

LEMMA StreamInvariant == Spec => []StreamInv
BY StepsKeepInv, PTL DEF Spec

-----------------------------------------------------------------------------
\* The variables of the stream keep their types, the reader within the range.
THEOREM StreamTypeCorrect == Spec => []TypeOK
<1>1. StreamInv => TypeOK
  BY DEF StreamInv
<1> QED BY <1>1, StreamInvariant, PTL

(***************************************************************************)
(* What the client has, what is on its way and what the task holds join    *)
(* up to where the reader is, for every capacity and buffer size.          *)
(***************************************************************************)
THEOREM NothingLostInFlight == Spec => []InFlight
<1>1. StreamInv => InFlight
  BY DEF StreamInv
<1> QED BY <1>1, StreamInvariant, PTL

\* A task that gives up early has sent, or leaves in the channel, an error.
THEOREM EarlyEndIsAnError == Spec => []GivesUpAloud
<1>1. StreamInv => GivesUpAloud
  BY DEF StreamInv
<1> QED BY <1>1, StreamInvariant, PTL

(***************************************************************************)
(* The client's side of the channel is a RangeReader of the announced      *)
(* range, whichever reader the task drives and whatever it runs into.      *)
(***************************************************************************)
THEOREM BodyImplementsRangeReader == Spec => ClientSeesRange
BY StepsRefineRange, PTL DEF Spec

-----------------------------------------------------------------------------
(***************************************************************************)
(* No stretch of what is in flight is longer than its chunks can be, and   *)
(* no more chunks are in the channel than it has room for.  (That every    *)
(* prefix is short enough would not survive the receiving of a chunk that  *)
(* is not full.)                                                           *)
(***************************************************************************)
Stretch(i, j) == Flight[j].to - Flight[i].from

Short ==
  body = "open" =>
    /\ Len(channel) <= STREAM_CHANNEL_CAPACITY
    /\ \A i, j \in 1..Len(Flight) : i <= j => Stretch(i, j) <= (j - i + 1) * BufferSize

LEMMA OneMore ==
  ASSUME NEW k \in Nat, NEW b \in Nat
  PROVE  k * b \in Nat /\ (k + 1) * b = k * b + b
OBVIOUS

LEMMA Monotone ==
  ASSUME NEW k \in Nat, NEW m \in Nat, NEW b \in Nat, k <= m
  PROVE  k * b <= m * b
OBVIOUS

\* Every item in flight is an item.
LEMMA FlightType ==
  ASSUME TypeOK
  PROVE  /\ Flight \in Seq(Item)
         /\ \A i \in 1..Len(Flight) : Flight[i].from \in Nat /\ Flight[i].to \in Nat
<1>1. Flight \in Seq(Item)
  BY DEF TypeOK, Flight
<1>2. \A i \in 1..Len(Flight) : Flight[i] \in Item
  BY <1>1
<1> QED BY <1>1, <1>2 DEF Item

\* The chunk the task takes is no longer than its buffer.
LEMMA TakeShort ==
  ASSUME StreamInv, Short, ReadChunk \/ ReadError, body = "open"
  PROVE  Short'
<1>0. /\ task = "reading" /\ task' = "sending" /\ TypeOK
      /\ UNCHANGED <<channel, body>> /\ channel \in Seq(Item)
  BY DEF ReadChunk, ReadError, StreamInv, TypeOK
<1>1. PICK n \in Nat : n = Len(channel)
  BY <1>0
<1>2. PICK b \in Nat : b = BufferSize
  BY BufferRoom
<1>3. PICK to \in Nat : /\ hand'.from = at /\ hand'.to = to /\ at <= to /\ to <= at + b
                        /\ at \in Nat
  <2>1. CASE ReadChunk
    <3>1. Reach \in Nat /\ at <= Reach /\ Reach <= at + b /\ at \in Nat
      BY <1>0, <1>2, ReachBound DEF Reach, Least, TypeOK
    <3> QED BY <2>1, <3>1 DEF ReadChunk
  <2>2. CASE ReadError
    BY <2>2, <1>0 DEF ReadError, TypeOK
  <2> QED BY <2>1, <2>2
<1>4. Flight = channel /\ Flight' = Append(channel, hand')
  BY <1>0 DEF Flight
<1>5. /\ Len(Flight') = n + 1 /\ Flight'[n + 1] = hand'
      /\ \A i \in 1..n : Flight'[i] = Flight[i]
  BY <1>0, <1>1, <1>4
<1>6. \A i \in 1..n : Flight[i].from \in Nat /\ Flight[i].to \in Nat
  BY <1>0, <1>1, <1>4, FlightType
<1>7. \A i, j \in 1..n : i <= j => Flight[j].to - Flight[i].from <= (j - i + 1) * b
  BY <1>1, <1>2, <1>4 DEF Short, Stretch
<1>8. n # 0 => at = Flight[n].to
  BY <1>0, <1>1, <1>4 DEF StreamInv, InFlight
<1>9. ASSUME NEW i \in 1..(n + 1), NEW j \in 1..(n + 1), i <= j
      PROVE  Flight'[j].to - Flight'[i].from <= (j - i + 1) * b
  <2>1. CASE j # n + 1
    <3>1. i \in 1..n /\ j \in 1..n
      BY <1>9, <2>1
    <3> QED BY <1>5, <1>7, <1>9, <3>1
  <2>2. CASE j = n + 1 /\ i = n + 1
    <3>1. Flight'[j].to - Flight'[i].from <= b
      BY <1>2, <1>3, <1>5, <2>2
    <3>2. j - i + 1 = 1 /\ 1 * b = b
      BY <2>2
    <3> QED BY <3>1, <3>2
  <2>3. CASE j = n + 1 /\ i # n + 1
    <3>1. i \in 1..n /\ n \in 1..n
      BY <1>9, <2>3
    <3>2. PICK k \in Nat : k = n - i + 1 /\ k + 1 = j - i + 1
      BY <2>3, <3>1
    <3>3. Flight[n].to - Flight[i].from <= k * b /\ k * b \in Nat
      BY <1>7, <3>1, <3>2, OneMore
    <3>4. /\ Flight'[j].to = to /\ Flight'[i].from = Flight[i].from /\ Flight[n].to = at
          /\ Flight[i].from \in Nat
      BY <1>3, <1>5, <1>6, <1>8, <2>3, <3>1
    <3>5. to - Flight[i].from <= k * b + b
      BY <1>2, <1>3, <3>3, <3>4
    <3>6. (j - i + 1) * b = k * b + b
      BY <3>2, OneMore
    <3> QED BY <3>4, <3>5, <3>6
  <2> QED BY <2>1, <2>2, <2>3
<1>10. Len(channel') <= STREAM_CHANNEL_CAPACITY
  BY <1>0 DEF Short
<1> QED BY <1>2, <1>5, <1>9, <1>10 DEF Short, Stretch

LEMMA ReceiveShort ==
  ASSUME StreamInv, Short, Receive
  PROVE  Short'
<1>0. /\ body = "open" /\ channel # <<>> /\ channel \in Seq(Item) /\ task' = task /\ hand' = hand
      /\ hand \in Item
  BY DEF Receive, StreamInv, TypeOK
<1>1. CASE body' # "open"
  BY <1>1 DEF Short
<1>2. CASE body' = "open"
  <2>1. channel' = Tail(channel)
    BY <1>2 DEF Receive
  <2>2. PICK n \in Nat : n + 1 = Len(channel)
    <3>1. Len(channel) \in Nat /\ Len(channel) # 0
      BY <1>0
    <3>2. Len(channel) - 1 \in Nat /\ (Len(channel) - 1) + 1 = Len(channel)
      BY <3>1
    <3> QED BY <3>2
  <2>3. Len(channel') = n /\ \A i \in 1..n : channel'[i] = channel[i + 1]
    BY <1>0, <2>1, <2>2
  <2>4. PICK m \in Nat : /\ m + 1 = Len(Flight) /\ Len(Flight') = m
                         /\ \A i \in 1..m : Flight'[i] = Flight[i + 1]
    <3>1. CASE task = "sending"
      <4>1. Flight = Append(channel, hand) /\ Flight' = Append(channel', hand)
        BY <1>0, <3>1 DEF Flight
      <4>2. Len(Flight) = (n + 1) + 1 /\ Len(Flight') = n + 1
        BY <1>0, <2>1, <2>2, <2>3, <4>1
      <4>3. ASSUME NEW i \in 1..(n + 1) PROVE Flight'[i] = Flight[i + 1]
        <5>1. CASE i = n + 1
          BY <1>0, <2>1, <2>2, <2>3, <4>1, <5>1
        <5>2. CASE i \in 1..n
          <6>1. Flight'[i] = channel'[i] /\ Flight[i + 1] = channel[i + 1]
            BY <1>0, <2>1, <2>2, <2>3, <4>1, <5>2
          <6> QED BY <2>3, <5>2, <6>1
        <5> QED BY <5>1, <5>2
      <4> QED BY <4>2, <4>3
    <3>2. CASE task # "sending"
      <4>1. Flight = channel /\ Flight' = channel'
        BY <1>0, <3>2 DEF Flight
      <4> QED BY <2>2, <2>3, <4>1
    <3> QED BY <3>1, <3>2
  <2>5. ASSUME NEW i \in 1..m, NEW j \in 1..m, i <= j
        PROVE  Flight'[j].to - Flight'[i].from <= (j - i + 1) * BufferSize
    <3>1. i + 1 \in 1..(m + 1) /\ j + 1 \in 1..(m + 1) /\ i + 1 <= j + 1
          /\ (j + 1) - (i + 1) + 1 = j - i + 1
      BY <2>5
    <3>2. Flight[j + 1].to - Flight[i + 1].from <= ((j + 1) - (i + 1) + 1) * BufferSize
      BY <1>0, <2>4, <3>1 DEF Short, Stretch
    <3> QED BY <2>4, <3>1, <3>2
  <2>6. Len(channel') <= STREAM_CHANNEL_CAPACITY
    BY <1>0, <2>2, <2>3, StreamAssumption DEF Short
  <2> QED BY <2>4, <2>5, <2>6 DEF Short, Stretch
<1> QED BY <1>1, <1>2

LEMMA StepShort ==
  ASSUME StreamInv, Short, [Next]_vars
  PROVE  Short'
<1>1. CASE ReadChunk \/ ReadError
  <2>1. CASE body = "open"
    BY <1>1, <2>1, TakeShort
  <2>2. CASE body # "open"
    BY <1>1, <2>2 DEF ReadChunk, ReadError, Short
  <2> QED BY <2>1, <2>2
<1>2. CASE Receive
  BY <1>2, ReceiveShort
<1>3. CASE Send
  <2>1. /\ task = "sending" /\ body = "open" /\ channel' = Append(channel, hand)
        /\ UNCHANGED <<hand, body>> /\ task' # "sending" /\ channel \in Seq(Item) /\ hand \in Item
        /\ Len(channel) < STREAM_CHANNEL_CAPACITY
    BY <1>3 DEF Send, AfterSend, StreamInv, TypeOK
  <2>2. Flight' = Flight
    BY <2>1 DEF Flight
  <2>3. Len(channel') <= STREAM_CHANNEL_CAPACITY
    BY <2>1, StreamAssumption
  <2> QED BY <2>1, <2>2, <2>3 DEF Short, Stretch
<1>4. CASE Create
  <2>1. channel' = <<>> /\ task' = "queued"
    BY <1>4 DEF Create, CreateBody, StreamInv, Orderly
  <2>2. Flight' = <<>>
    BY <2>1 DEF Flight
  <2> QED BY <2>1, <2>2, StreamAssumption DEF Short
<1>5. CASE ReceiveEnd \/ Disconnect
  BY <1>5 DEF ReceiveEnd, Disconnect, Short
<1>6. CASE Start \/ ReadEnd \/ SendFails \/ Cancel \/ Cut \/ UNCHANGED vars
  <2>1. UNCHANGED <<channel, hand, body>> /\ (body = "open" => Flight' = Flight)
    BY <1>6 DEF Start, ReadEnd, SendFails, Cancel, Cut, vars, Flight
  <2> QED BY <2>1 DEF Short, Stretch
<1> QED BY <1>1, <1>2, <1>3, <1>4, <1>5, <1>6 DEF Next, Task, Consume

LEMMA ShortBounds ==
  ASSUME StreamInv, Short
  PROVE  MemoryBounded
<1> SUFFICES ASSUME body = "open" PROVE Held <= (STREAM_CHANNEL_CAPACITY + 1) * BufferSize
  BY DEF MemoryBounded
<1>1. PICK b \in Nat, c \in Nat : b = BufferSize /\ c = STREAM_CHANNEL_CAPACITY
  BY BufferRoom, StreamAssumption
<1>2. PICK n \in Nat, m \in Nat : n = Len(channel) /\ m = Len(Flight) /\ channel \in Seq(Item)
                                  /\ n <= c /\ m = IF task = "sending" THEN n + 1 ELSE n
  BY <1>1, FlightType DEF StreamInv, TypeOK, Flight, Short
<1>3. at \in Nat /\ received \in Nat /\ m * b \in Nat
  BY OneMore DEF StreamInv, TypeOK
<1>4. at - received <= m * b
  <2>1. CASE m = 0
    <3>1. Flight = <<>>
      <4>1. Flight \in Seq(Item)
        BY FlightType DEF StreamInv
      <4>2. Len(Flight) = 0
        BY <1>2, <2>1
      <4> QED BY <4>1, <4>2
    <3>2. at = received
      BY <3>1 DEF StreamInv, InFlight
    <3> QED BY <1>3, <3>2
  <2>2. CASE m # 0
    <3>1. 1 \in 1..m /\ m \in 1..m /\ 1 <= m /\ m - 1 + 1 = m
      BY <2>2
    <3>2. Flight # <<>>
      BY <1>2, <2>2
    <3>3. at = Flight[m].to /\ received = Flight[1].from
      BY <1>2, <3>1, <3>2 DEF StreamInv, InFlight
    <3>4. Flight[m].to - Flight[1].from <= (m - 1 + 1) * b
      BY <1>1, <1>2, <3>1 DEF Short, Stretch
    <3> QED BY <3>1, <3>3, <3>4
  <2> QED BY <2>1, <2>2
<1>5. (c + 1) * b = c * b + b /\ c * b \in Nat
  BY OneMore
<1>6. CASE task = "reading"
  <2>1. m * b <= c * b
    BY <1>2, <1>6, Monotone
  <2>2. Held = (at - received) + b
    BY <1>1, <1>6 DEF Held
  <2> QED BY <1>1, <1>3, <1>4, <1>5, <2>1, <2>2
<1>7. CASE task # "reading"
  <2>1. m * b <= (c + 1) * b
    BY <1>2, Monotone
  <2>2. Held = at - received
    BY <1>3, <1>7 DEF Held
  <2> QED BY <1>1, <1>3, <1>4, <1>5, <2>1, <2>2
<1> QED BY <1>6, <1>7

LEMMA StepsBoundMemory == Init /\ [][Next]_vars => []MemoryBounded
<1>1. Init => Short
  BY DEF Init, Short
<1>2. StreamInv /\ Short /\ [Next]_vars => Short'
  BY StepShort
<1>3. StreamInv /\ Short => MemoryBounded
  BY ShortBounds
<1> QED BY <1>1, <1>2, <1>3, StepsKeepInv, PTL

(***************************************************************************)
(* A request's memory is bounded as the comment on STREAM_CHANNEL_CAPACITY *)
(* (handler.rs:255) says, for every capacity, buffer and range.            *)
(***************************************************************************)
THEOREM MemoryIsBounded == Spec => []MemoryBounded
BY StepsBoundMemory, PTL DEF Spec
=============================================================================
