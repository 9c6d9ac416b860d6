--------------------------- MODULE WatcherProofs ----------------------------
(***************************************************************************)
(* The watcher for every set of paths, every bound on its channel and      *)
(* every choice of its three periods: no change that notify reports is     *)
(* forgotten before it has been handed to the cache.                       *)
(***************************************************************************)
EXTENDS Watcher, TLAPS

\* The worker runs only once it has been started.
WatcherInv ==
  /\ TypeOK
  /\ NotForgotten
  /\ owner = "starting" => worker = "none"

LEMMA EventTyped ==
  ASSUME NEW kind \in {"change", "access", "error"}, NEW S \in SUBSET Path
  PROVE  [kind |-> kind, paths |-> S] \in Event
BY DEF Event

-----------------------------------------------------------------------------
(***************************************************************************)
(* The paths of the events in the channel, as events come and go.          *)
(***************************************************************************)
LEMMA QueuedBySending ==
  ASSUME TypeOK, NEW event \in Event, channel' = Append(channel, event)
  PROVE  Queued' = Queued \cup Collected(event) /\ channel' \in Seq(Event)
<1>0. channel \in Seq(Event)
  BY DEF TypeOK
<1>1. PICK n \in Nat : n = Len(channel)
  BY <1>0
<1>2. /\ Len(channel') = n + 1 /\ channel'[n + 1] = event
      /\ \A i \in 1..n : channel'[i] = channel[i]
  BY <1>0, <1>1
<1>3. 1..(n + 1) = (1..n) \cup {n + 1}
  OBVIOUS
<1>4. Queued = UNION {Collected(channel[i]) : i \in 1..n}
  BY <1>1 DEF Queued
<1>5. Queued' = UNION {Collected(channel'[i]) : i \in 1..(n + 1)}
  BY <1>2 DEF Queued
<1>6. ASSUME NEW x
      PROVE  x \in Queued' <=> x \in Queued \/ x \in Collected(event)
  <2>1. x \in Queued <=> \E i \in 1..n : x \in Collected(channel[i])
    BY <1>4
  <2>2. x \in Queued' <=> \E i \in 1..(n + 1) : x \in Collected(channel'[i])
    BY <1>5
  <2>3. n + 1 \in 1..(n + 1)
    BY <1>3
  <2> QED BY <1>2, <1>3, <2>1, <2>2, <2>3
<1>7. Queued' = Queued \cup Collected(event)
  BY <1>6
<1> QED BY <1>0, <1>7

LEMMA QueuedByReceiving ==
  ASSUME TypeOK, channel # <<>>, channel' = Tail(channel)
  PROVE  Queued = Queued' \cup Collected(Head(channel)) /\ channel' \in Seq(Event)
<1>0. channel \in Seq(Event)
  BY DEF TypeOK
<1>1. PICK n \in Nat : n + 1 = Len(channel)
  <2>1. Len(channel) \in Nat /\ Len(channel) # 0
    BY <1>0
  <2>2. Len(channel) - 1 \in Nat
    BY <2>1
  <2> QED BY <2>1, <2>2
<1>2. /\ Len(channel') = n /\ Head(channel) = channel[1] /\ channel' \in Seq(Event)
      /\ \A i \in 1..n : channel'[i] = channel[i + 1]
  BY <1>0, <1>1
<1>3. \A i \in 1..(n + 1) : i = 1 \/ (i - 1 \in 1..n /\ (i - 1) + 1 = i)
  OBVIOUS
<1>4. \A i \in 1..n : i + 1 \in 1..(n + 1)
  OBVIOUS
<1>5. Queued = UNION {Collected(channel[i]) : i \in 1..(n + 1)}
  BY <1>1 DEF Queued
<1>6. Queued' = UNION {Collected(channel'[i]) : i \in 1..n}
  BY <1>2 DEF Queued
<1>7. ASSUME NEW x
      PROVE  x \in Queued <=> x \in Queued' \/ x \in Collected(Head(channel))
  <2>1. x \in Queued <=> \E i \in 1..(n + 1) : x \in Collected(channel[i])
    BY <1>5
  <2>2. x \in Queued' <=> \E i \in 1..n : x \in Collected(channel[i + 1])
    BY <1>2, <1>6
  <2>3. 1 \in 1..(n + 1)
    OBVIOUS
  <2> QED BY <1>2, <1>3, <1>4, <2>1, <2>2, <2>3
<1> QED BY <1>2, <1>7

-----------------------------------------------------------------------------
LEMMA WatcherInit == Init => WatcherInv
<1> SUFFICES ASSUME Init PROVE WatcherInv
  OBVIOUS
<1>1. channel \in Seq(Event)
  BY DEF Init
<1>2. /\ backend = "absent" /\ stop = FALSE /\ owner = "starting" /\ worker = "none"
      /\ pending = {} /\ owed = {} /\ lost = {} /\ waited = 0 /\ merged = 0
  BY DEF Init
<1> QED BY <1>1, <1>2 DEF WatcherInv, TypeOK, NotForgotten

\* An event comes, and perhaps paths that have changed with it.
LEMMA DeliveryInv ==
  ASSUME WatcherInv, NEW event \in Event, NEW S \in SUBSET Path, NEW missed \in SUBSET Path,
         Deliver(event), Reporting, S \subseteq Collected(event) \cup missed,
         missed \subseteq S,
         owed' = owed \cup S, lost' = lost \cup missed,
         UNCHANGED <<backend, stop, owner, worker, pending, timers>>
  PROVE  WatcherInv'
<1> USE DEF WatcherInv, timers
<1>1. CASE worker = "ended"
  <2>1. channel' = channel
    BY <1>1 DEF Deliver
  <2> QED BY <1>1, <2>1 DEF TypeOK, NotForgotten
<1>2. CASE worker # "ended"
  <2>1. Queued' = Queued \cup Collected(event) /\ channel' \in Seq(Event)
    BY <1>2, QueuedBySending DEF Deliver
  <2>2. TypeOK'
    BY <2>1 DEF TypeOK
  <2>3. owed \subseteq Queued \cup pending \cup lost
    BY <1>2 DEF NotForgotten
  <2>4. owed' \subseteq Queued' \cup pending' \cup lost'
    BY <2>1, <2>3
  <2> QED BY <1>2, <2>2, <2>4 DEF NotForgotten
<1> QED BY <1>1, <1>2

LEMMA EnvironmentInv ==
  ASSUME WatcherInv, Environment
  PROVE  WatcherInv'
<1>1. ASSUME NEW S \in SUBSET Path, Change(S) PROVE WatcherInv'
  <2> DEFINE event == [kind |-> "change", paths |-> S]
  <2>1. event \in Event
    BY EventTyped
  <2>2. Collected(event) = S
    BY DEF Collected
  <2>3. /\ Deliver(event) /\ Reporting /\ owed' = owed \cup S /\ lost' = lost \cup {}
        /\ UNCHANGED <<backend, stop, owner, worker, pending, timers>>
    BY <1>1 DEF Change
  <2>4. S \subseteq Collected(event) \cup {} /\ {} \subseteq S /\ {} \in SUBSET Path
    BY <2>2
  <2> HIDE DEF event
  <2> QED BY <2>1, <2>3, <2>4, DeliveryInv
<1>2. ASSUME NEW p \in Path, Access(p) PROVE WatcherInv'
  <2> DEFINE event == [kind |-> "access", paths |-> {p}]
  <2>1. event \in Event
    BY EventTyped
  <2>2. /\ Deliver(event) /\ Reporting /\ owed' = owed \cup {} /\ lost' = lost \cup {}
        /\ UNCHANGED <<backend, stop, owner, worker, pending, timers>>
    BY <1>2 DEF Access, history
  <2>3. {} \subseteq Collected(event) \cup {} /\ {} \in SUBSET Path
    OBVIOUS
  <2> HIDE DEF event
  <2> QED BY <2>1, <2>2, <2>3, DeliveryInv
<1>3. ASSUME NEW p \in Path, Overflow(p) PROVE WatcherInv'
  <2>1. PICK kind \in {"change", "error"} : Deliver([kind |-> kind, paths |-> {}])
    BY <1>3 DEF Overflow
  <2> DEFINE event == [kind |-> kind, paths |-> {}]
  <2>2. event \in Event
    BY EventTyped
  <2>3. /\ Deliver(event) /\ Reporting /\ owed' = owed \cup {p} /\ lost' = lost \cup {p}
        /\ UNCHANGED <<backend, stop, owner, worker, pending, timers>>
    BY <1>3, <2>1 DEF Overflow
  <2>4. {p} \subseteq Collected(event) \cup {p} /\ {p} \subseteq {p} /\ {p} \in SUBSET Path
    OBVIOUS
  <2> HIDE DEF event
  <2> QED BY <2>2, <2>3, <2>4, DeliveryInv
<1>4. ASSUME NEW p \in Path, Unwatched(p) PROVE WatcherInv'
  BY <1>4 DEF Unwatched, WatcherInv, TypeOK, NotForgotten, Queued, timers
<1> QED BY <1>1, <1>2, <1>3, <1>4 DEF Environment

LEMMA WorkerInv ==
  ASSUME WatcherInv, Worker
  PROVE  WatcherInv'
<1> USE DEF WatcherInv, timers, history
<1>1. CASE Receive
  <2>1. /\ worker \in {"polling", "merging"} /\ channel # <<>>
        /\ worker' \in {"merging", "flushing"} /\ merged' \in {0, merged} /\ waited' = 0
        /\ pending' = pending \cup Collected(Head(channel)) /\ channel' = Tail(channel)
        /\ UNCHANGED <<backend, stop, owner, owed, lost>>
    BY <1>1 DEF Receive, Receiving
  <2>2. Queued = Queued' \cup Collected(Head(channel)) /\ channel' \in Seq(Event)
    BY <2>1, QueuedByReceiving
  <2>3. Collected(Head(channel)) \subseteq Path
    <3>1. channel \in Seq(Event)
      BY DEF TypeOK
    <3>2. Head(channel) \in Event
      BY <2>1, <3>1
    <3> QED BY <3>2 DEF Event, Collected
  <2>4. TypeOK'
    BY <2>1, <2>2, <2>3 DEF TypeOK
  <2>5. owed \subseteq Queued \cup pending \cup lost
    BY <2>1 DEF NotForgotten
  <2>6. owed' \subseteq Queued' \cup pending' \cup lost'
    BY <2>1, <2>2, <2>5
  <2> QED BY <2>1, <2>4, <2>6 DEF NotForgotten
<1>2. CASE WindowCloses \/ PollTimesOut \/ CheckStop \/ Disconnected
  <2>1. /\ worker \notin {"none", "ended"}
        /\ worker' \in {"flushing", "checking", "leaving", "polling"}
        /\ waited' \in {0, waited}
        /\ UNCHANGED <<channel, backend, stop, owner, pending, merged, owed, lost>>
    BY <1>2 DEF WindowCloses, PollTimesOut, CheckStop, Disconnected, Receiving
  <2> QED BY <2>1 DEF TypeOK, NotForgotten, Queued
<1>3. ASSUME NEW p \in Path, Flush(p) PROVE WatcherInv'
  BY <1>3 DEF Flush, TypeOK, NotForgotten, Queued
<1>4. CASE Flushed
  <2>1. /\ pending = {} /\ worker \in {"flushing", "leaving"}
        /\ \/ worker' = "polling" /\ channel' = channel
           \/ worker' = "ended" /\ channel' = <<>>
        /\ waited' = 0
        /\ UNCHANGED <<backend, stop, owner, pending, merged, owed, lost>>
    BY <1>4 DEF Flushed
  <2>2. channel' \in Seq(Event)
    <3>1. channel \in Seq(Event) /\ <<>> \in Seq(Event)
      BY DEF TypeOK
    <3> QED BY <2>1, <3>1
  <2> QED BY <2>1, <2>2 DEF TypeOK, NotForgotten, Queued
<1> QED BY <1>1, <1>2, <1>3, <1>4 DEF Worker

LEMMA WatcherNext ==
  ASSUME WatcherInv, [Next]_vars
  PROVE  WatcherInv'
<1>1. CASE Environment
  BY <1>1, EnvironmentInv
<1>2. CASE Worker
  BY <1>2, WorkerInv
<1>3. CASE Tick
  <2>1. waited' \in Nat /\ merged' \in Nat
    BY <1>3, WatcherAssumption DEF Tick, Advance, WatcherInv, TypeOK
  <2> QED BY <1>3, <2>1 DEF Tick, history, WatcherInv, TypeOK, NotForgotten, Queued
<1>4. CASE Start \/ StartFails
  BY <1>4 DEF Start, StartFails, timers, history, WatcherInv, TypeOK, NotForgotten, Queued
<1>5. CASE SendStop \/ StopBackend \/ BackendEnds \/ Join
  BY <1>5 DEF SendStop, StopBackend, BackendEnds, Join, timers, history, WatcherInv, TypeOK,
              NotForgotten, Queued
<1>6. CASE UNCHANGED vars
  BY <1>6 DEF vars, timers, history, WatcherInv, TypeOK, NotForgotten, Queued
<1> QED BY <1>1, <1>2, <1>3, <1>4, <1>5, <1>6 DEF Next

LEMMA WatcherInvariant == Spec => []WatcherInv
<1>1. Init => WatcherInv
  BY WatcherInit
<1>2. WatcherInv /\ [Next]_vars => WatcherInv'
  BY WatcherNext
<1> QED BY <1>1, <1>2, PTL DEF Spec

\* The variables of the callback, of run_worker and of Drop keep their types.
THEOREM WatcherTypeCorrect == Spec => []TypeOK
<1>1. WatcherInv => TypeOK
  BY DEF WatcherInv
<1> QED BY <1>1, WatcherInvariant, PTL

(***************************************************************************)
(* Through every merging, flush, disconnection and stop, a change notify   *)
(* has reported is in the channel or collected until its invalidation, and *)
(* a worker that ends leaves nothing collected behind (run_worker, flush). *)
(***************************************************************************)
THEOREM NothingForgotten == Spec => []NotForgotten
<1>1. WatcherInv => NotForgotten
  BY DEF WatcherInv
<1> QED BY <1>1, WatcherInvariant, PTL
=============================================================================
