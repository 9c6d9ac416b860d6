--------------------------- MODULE CoherenceProofs ---------------------------
(***************************************************************************)
(* The watcher and the cache together, for every set of threads and paths, *)
(* every capacity and every choice of the watcher's periods.               *)
(***************************************************************************)
EXTENDS Coherence, ArchiveCacheProofs

WP == INSTANCE WatcherProofs

\* While the program serves, nobody drops the watcher; between two batches there is
\* nothing collected, and invalidate runs only in a flush.
Phases ==
  /\ backend \in {"absent", "watching"} /\ stop = FALSE
  /\ owner \in {"starting", "running", "without"}
  /\ owner = "starting" => worker = "none"
  /\ worker \in {"none", "polling", "checking", "merging", "flushing"}
  /\ worker \notin {"merging", "flushing"} => pending = {}
  /\ changed # None => worker = "flushing"

CoherenceInv ==
  /\ TypeOK /\ W!TypeOK
  /\ ScansInTree /\ ScanAccounted /\ StaleAccounted
  /\ Phases /\ EventsQueued

-----------------------------------------------------------------------------
(***************************************************************************)
(* The lemmas of the watcher, here.                                        *)
(***************************************************************************)
LEMMA QueuedSent ==
  ASSUME W!TypeOK, NEW event \in W!Event, channel' = Append(channel, event)
  PROVE  W!Queued' = W!Queued \cup W!Collected(event) /\ channel' \in Seq(W!Event)
BY WP!QueuedBySending, CoherenceAssumption
DEF W!WatcherAssumption, WP!TypeOK, W!TypeOK, WP!Event, W!Event, WP!Queued, W!Queued, WP!Collected, W!Collected

LEMMA QueuedReceived ==
  ASSUME W!TypeOK, channel # <<>>, channel' = Tail(channel)
  PROVE  /\ W!Queued = W!Queued' \cup W!Collected(Head(channel))
         /\ channel' \in Seq(W!Event) /\ W!Collected(Head(channel)) \subseteq Path
<1>1. channel \in Seq(W!Event)
  BY DEF W!TypeOK
<1>2. Head(channel) \in W!Event
  BY <1>1
<1>3. W!Collected(Head(channel)) \subseteq Path
  BY <1>2 DEF W!Event, W!Collected
<1>4. WP!Event = W!Event /\ WP!Collected(Head(channel)) = W!Collected(Head(channel))
  BY DEF WP!Event, W!Event, WP!Collected, W!Collected
<1>5. WP!Queued = W!Queued /\ WP!Queued' = W!Queued'
  BY DEF WP!Queued, W!Queued, WP!Collected, W!Collected
<1>6. WP!TypeOK
  BY <1>4 DEF WP!TypeOK, W!TypeOK
<1>7. /\ WP!Queued = WP!Queued' \cup WP!Collected(Head(channel))
      /\ channel' \in Seq(WP!Event)
  BY <1>6, WP!QueuedByReceiving, CoherenceAssumption DEF W!WatcherAssumption
<1> QED BY <1>3, <1>4, <1>5, <1>7

-----------------------------------------------------------------------------
\* What the callback is told, by an event of these paths or by none.
LEMMA Delivered ==
  ASSUME W!TypeOK, Phases, NEW kind \in {"change", "access", "error"}, NEW S \in SUBSET Path,
         W!Deliver([kind |-> kind, paths |-> S])
  PROVE  /\ W!Queued' = W!Queued \cup (IF kind = "change" THEN S ELSE {})
         /\ channel' \in Seq(W!Event)
<1> DEFINE event == [kind |-> kind, paths |-> S]
<1>1. event \in W!Event
  BY DEF W!Event
<1>2. channel' = Append(channel, event)
  BY DEF W!Deliver, Phases
<1>3. W!Collected(event) = IF kind = "change" THEN S ELSE {}
  BY DEF W!Collected
<1> HIDE DEF event
<1> QED BY <1>1, <1>2, <1>3, QueuedSent

\* The watcher's side of a step.
LEMMA WatcherSide ==
  ASSUME CoherenceInv, [CoherenceNext]_coherenceVars
  PROVE  [W!Next]_(W!vars)
<1> USE DEF watching, W!vars, W!timers, W!history
<1>1. ASSUME NEW n \in Path, Report(n) PROVE W!Next
  <2>1. {n} \in (SUBSET Path) \ {{}}
    <3>1. n \in {n} /\ {n} \in SUBSET Path
      OBVIOUS
    <3>2. {n} # {}
      BY <3>1
    <3> QED BY <3>1, <3>2
  <2> QED BY <1>1, <2>1 DEF Report, W!Next, W!Environment
<1>2. ASSUME NEW n \in Path, Lose(n) \/ W!Access(n) PROVE W!Next
  BY <1>2 DEF Lose, W!Next, W!Environment
<1>3. ASSUME Work PROVE W!Next
  BY <1>3 DEF Work, Collect, Flush, Flushed, W!Next, W!Worker
<1>4. CASE StartWatcher \/ PassTime
  BY <1>4 DEF StartWatcher, PassTime, W!Next
<1>5. CASE UNCHANGED watching
  BY <1>5
<1> QED
  BY <1>1, <1>2, <1>3, <1>4, <1>5
  DEF CoherenceNext, InvalidateFurther, Requested, Served, Evicted, coherenceVars

\* The cache's side: what is left on the queue when invalidate begins is what
\* ArchiveCache allows.
LEMMA CacheSide ==
  ASSUME CoherenceInv, [CoherenceNext]_coherenceVars
  PROVE  [Next]_vars
<1>1. ASSUME NEW n \in Path, Report(n) PROVE [Next]_vars
  BY <1>1 DEF Report, Next
<1>2. ASSUME NEW n \in Path, Lose(n) PROVE Next
  BY <1>2 DEF Lose, Next
<1>3. ASSUME NEW n \in Path, Flush(n) PROVE Next
  <2> DEFINE left == W!Queued \cup (pending \ {n})
  <2>1. n \in pending /\ Snapshot(n, left)
    BY <1>3 DEF Flush, W!Flush
  <2>2. events = W!Queued \cup pending
    BY DEF CoherenceInv, EventsQueued
  <2>3. left = events \/ left = events \ {n}
    BY <2>1, <2>2
  <2>4. left \in Left(n)
    BY <2>3, CoherenceAssumption DEF Left
  <2> HIDE DEF left
  <2> QED BY <2>1, <2>4 DEF Next, Invalidate, Handle
<1>4. ASSUME NEW t \in Thread, Requested(t) \/ Served(t) PROVE Next
  BY <1>4 DEF Requested, Served, Next
<1>5. ASSUME NEW k \in Key, Evicted(k) PROVE Next
  BY <1>5 DEF Evicted, Next
<1>6. CASE InvalidateFurther
  BY <1>6 DEF InvalidateFurther, Next, Invalidate
<1>7. CASE UNCHANGED vars
  BY <1>7
<1> QED
  BY <1>1, <1>2, <1>3, <1>4, <1>5, <1>6, <1>7
  DEF CoherenceNext, StartWatcher, PassTime, Work, Collect, Flushed, coherenceVars

-----------------------------------------------------------------------------
LEMMA TogetherStep ==
  ASSUME CoherenceInv, [CoherenceNext]_coherenceVars
  PROVE  W!TypeOK' /\ Phases' /\ EventsQueued'
<1> USE DEF CoherenceInv
<1>1. ASSUME NEW n \in Path, Report(n) PROVE W!TypeOK' /\ Phases' /\ EventsQueued'
  <2>1. /\ W!Deliver([kind |-> "change", paths |-> {n}]) /\ owed' = owed \cup {n}
        /\ UNCHANGED <<backend, stop, owner, worker, pending, waited, merged, lost>>
    BY <1>1 DEF Report, W!Change, W!timers
  <2>2. W!Queued' = W!Queued \cup {n} /\ channel' \in Seq(W!Event)
    BY <2>1, Delivered
  <2>3. events' = events \cup {n} /\ changed' = changed
    BY <1>1 DEF Report, Change, watcher
  <2> QED BY <2>1, <2>2, <2>3 DEF W!TypeOK, Phases, EventsQueued
<1>2. ASSUME NEW n \in Path, Lose(n) PROVE W!TypeOK' /\ Phases' /\ EventsQueued'
  <2>1. /\ owed' = owed \cup {n} /\ lost' = lost \cup {n}
        /\ UNCHANGED <<backend, stop, owner, worker, pending, waited, merged>>
    BY <1>2 DEF Lose, W!Overflow, W!Unwatched, W!timers
  <2>2. W!Queued' = W!Queued /\ channel' \in Seq(W!Event)
    <3>1. CASE W!Overflow(n)
      <4>1. PICK kind \in {"change", "error"} : W!Deliver([kind |-> kind, paths |-> {}])
        BY <3>1 DEF W!Overflow
      <4>2. {} \in SUBSET Path
        OBVIOUS
      <4>3. /\ W!Queued' = W!Queued \cup (IF kind = "change" THEN {} ELSE {})
            /\ channel' \in Seq(W!Event)
        BY <4>1, <4>2, Delivered
      <4> QED BY <4>3
    <3>2. CASE W!Unwatched(n)
      BY <3>2 DEF W!Unwatched, W!Queued, W!TypeOK
    <3> QED BY <1>2, <3>1, <3>2 DEF Lose
  <2>3. events' = events /\ changed' = changed
    BY <1>2 DEF Lose, Miss, watcher
  <2> QED BY <2>1, <2>2, <2>3 DEF W!TypeOK, Phases, EventsQueued
<1>3. ASSUME NEW n \in Path, W!Access(n), UNCHANGED vars
      PROVE  W!TypeOK' /\ Phases' /\ EventsQueued'
  <2>1. /\ W!Deliver([kind |-> "access", paths |-> {n}])
        /\ UNCHANGED <<backend, stop, owner, worker, pending, waited, merged, owed, lost>>
    BY <1>3 DEF W!Access, W!timers, W!history
  <2>2. W!Queued' = W!Queued /\ channel' \in Seq(W!Event)
    BY <2>1, Delivered
  <2> QED BY <1>3, <2>1, <2>2 DEF W!TypeOK, Phases, EventsQueued, vars, watcher
<1>4. CASE W!Receive /\ UNCHANGED vars
  <2>1. /\ channel # <<>> /\ channel' = Tail(channel)
        /\ pending' = pending \cup W!Collected(Head(channel))
        /\ worker \in {"polling", "merging"} /\ worker' \in {"merging", "flushing"}
        /\ waited' = 0 /\ merged' \in {0, merged}
        /\ UNCHANGED <<backend, stop, owner, owed, lost, events, changed>>
    BY <1>4 DEF W!Receive, W!Receiving, W!history, vars, watcher
  <2>2. /\ W!Queued = W!Queued' \cup W!Collected(Head(channel))
        /\ channel' \in Seq(W!Event) /\ W!Collected(Head(channel)) \subseteq Path
    BY <2>1, QueuedReceived
  <2>3. EventsQueued'
    BY <2>1, <2>2 DEF EventsQueued
  <2> QED BY <2>1, <2>2, <2>3 DEF W!TypeOK, Phases
<1>5. CASE (W!WindowCloses \/ W!PollTimesOut \/ W!CheckStop) /\ UNCHANGED vars
  <2>1. /\ \/ worker = "merging" /\ worker' = "flushing"
           \/ worker = "polling" /\ worker' = "checking"
           \/ worker = "checking" /\ worker' = "polling"
        /\ waited' \in {0, waited}
        /\ UNCHANGED <<channel, backend, stop, owner, pending, merged, owed, lost, events, changed>>
    BY <1>5 DEF W!WindowCloses, W!PollTimesOut, W!CheckStop, W!timers, W!history, vars, watcher, Phases
  <2> QED BY <2>1 DEF W!TypeOK, Phases, EventsQueued, W!Queued
<1>6. ASSUME NEW n \in Path, Flush(n) PROVE W!TypeOK' /\ Phases' /\ EventsQueued'
  <2>1. /\ worker = "flushing" /\ n \in pending /\ pending' = pending \ {n}
        /\ owed' = owed \ {n} /\ lost' = lost \ {n}
        /\ UNCHANGED <<channel, backend, stop, owner, worker, waited, merged>>
    BY <1>6 DEF Flush, W!Flush, W!timers, Phases
  <2>2. events' = W!Queued \cup (pending \ {n})
    BY <1>6 DEF Flush, Snapshot
  <2> QED BY <2>1, <2>2 DEF W!TypeOK, Phases, EventsQueued, W!Queued
<1>7. CASE Flushed
  <2>1. /\ worker = "flushing" /\ worker' = "polling" /\ pending = {} /\ changed = None
        /\ waited' = 0
        /\ UNCHANGED <<channel, backend, stop, owner, pending, merged, owed, lost, events, changed>>
    BY <1>7 DEF Flushed, W!Flushed, W!history, vars, watcher, Phases
  <2> QED BY <2>1 DEF W!TypeOK, Phases, EventsQueued, W!Queued
<1>8. CASE StartWatcher
  <2>1. /\ owner' \in {"running", "without"} /\ backend' \in {backend, "watching"}
        /\ worker' \in {worker, "polling"} /\ changed = None /\ pending = {}
        /\ UNCHANGED <<channel, stop, pending, waited, merged, owed, lost, events, changed>>
    BY <1>8 DEF StartWatcher, W!Start, W!StartFails, W!timers, W!history, vars, watcher, Phases
  <2> QED BY <2>1 DEF W!TypeOK, Phases, EventsQueued, W!Queued
<1>9. CASE PassTime
  <2>1. /\ waited' \in Nat /\ merged' \in Nat
        /\ UNCHANGED <<channel, backend, stop, owner, worker, pending, owed, lost, events, changed>>
    BY <1>9, CoherenceAssumption
    DEF PassTime, W!Tick, W!Advance, W!WatcherAssumption, W!TypeOK, W!history, vars, watcher
  <2> QED BY <2>1 DEF W!TypeOK, Phases, EventsQueued, W!Queued
<1>10. ASSUME UNCHANGED watching, events' = events, changed' # None => changed # None
       PROVE  W!TypeOK' /\ Phases' /\ EventsQueued'
  BY <1>10 DEF watching, W!TypeOK, Phases, EventsQueued, W!Queued
<1>11. ASSUME NEW t \in Thread, Requested(t) \/ Served(t)
       PROVE  W!TypeOK' /\ Phases' /\ EventsQueued'
  BY <1>10, <1>11
  DEF Requested, Served, Request, Serve, Hit, Join, StartBuild, Read, FinishBuild, Register, watcher
<1>12. ASSUME NEW k \in Key, Evicted(k) PROVE W!TypeOK' /\ Phases' /\ EventsQueued'
  BY <1>10, <1>12 DEF Evicted, Evict, watcher
<1>13. CASE InvalidateFurther
  BY <1>10, <1>13 DEF InvalidateFurther, GoOn, Drop, Unregister
<1>14. CASE UNCHANGED coherenceVars
  BY <1>10, <1>14 DEF coherenceVars, vars, watcher
<1> QED
  BY <1>1, <1>2, <1>3, <1>4, <1>5, <1>6, <1>7, <1>8, <1>9, <1>11, <1>12, <1>13, <1>14
  DEF CoherenceNext, Work, Collect

LEMMA CoherenceInvariant == CoherenceSpec => []CoherenceInv
<1>1. CoherenceInit => CoherenceInv
  <2> SUFFICES ASSUME CoherenceInit PROVE CoherenceInv
    OBVIOUS
  <2>1. TypeOK /\ ScansInTree /\ ScanAccounted /\ StaleAccounted
    BY CacheAssumption
    DEF CoherenceInit, Init, TypeOK, ScansInTree, ScansOf, ScanAccounted, StaleAccounted, Outdated
  <2>2. channel = <<>> /\ channel \in Seq(W!Event)
    BY DEF CoherenceInit, W!Init
  <2>3. W!Queued = {}
    BY <2>2 DEF W!Queued
  <2> QED BY <2>1, <2>2, <2>3 DEF CoherenceInv, CoherenceInit, Init, W!Init, W!TypeOK, Phases, EventsQueued
<1>2. CoherenceInv /\ [CoherenceNext]_coherenceVars => CoherenceInv'
  BY TogetherStep, CacheSide, TypeStep, ScansInTreeStep, ScanAccountedStep, StaleAccountedStep
  DEF CoherenceInv
<1> QED BY <1>1, <1>2, PTL DEF CoherenceSpec

\* What ArchiveCache calls its events is what the watcher has in its channel and its
\* collection, whatever is merged, flushed and reported again meanwhile.
THEOREM EventsAreQueued == CoherenceSpec => []EventsQueued
<1>1. CoherenceInv => EventsQueued
  BY DEF CoherenceInv
<1> QED BY <1>1, CoherenceInvariant, PTL

\* Together with the watcher the cache takes no step it does not take on its own...
THEOREM CacheStepsKept == CoherenceSpec => CacheSteps
<1>1. CoherenceInit => Init
  BY DEF CoherenceInit
<1>2. CoherenceInv /\ [CoherenceNext]_coherenceVars => [Next]_vars
  BY CacheSide
<1> QED BY <1>1, <1>2, CoherenceInvariant, PTL DEF CoherenceSpec, CacheSteps

\* ... nor does the watcher, when it calls the cache.
THEOREM WatcherStepsKept == CoherenceSpec => W!Init /\ [][W!Next]_(W!vars)
<1>1. CoherenceInit => W!Init
  BY DEF CoherenceInit
<1>2. CoherenceInv /\ [CoherenceNext]_coherenceVars => [W!Next]_(W!vars)
  BY WatcherSide
<1> QED BY <1>1, <1>2, CoherenceInvariant, PTL DEF CoherenceSpec

\* When the worker polls an empty channel, every stale entry is lost to it for good:
\* its path was not registered, its build was overtaken or its change not reported.
THEOREM BatchesLeaveNothing == CoherenceSpec => []NothingLeftBehind
<1>1. CoherenceInv => NothingLeftBehind
  <2> SUFFICES ASSUME CoherenceInv, worker \in {"polling", "checking"}, channel = <<>>,
                      NEW k \in Key, Stale(k)
               PROVE  k \in escaped
    BY DEF NothingLeftBehind
  <2>1. W!Queued = {}
    BY DEF W!Queued
  <2>2. events = {} /\ changed = None
    BY <2>1 DEF CoherenceInv, EventsQueued, Phases
  <2>3. PICK r \in Outdated(cache[k].seen) : TRUE
    BY DEF Stale
  <2>4. Accounted(k, r[1])
    BY <2>3 DEF CoherenceInv, StaleAccounted, Stale
  <2> QED BY <2>2, <2>4 DEF Accounted
<1> QED BY <1>1, CoherenceInvariant, PTL
=============================================================================
