------------------------------ MODULE Coherence ------------------------------
(***************************************************************************)
(* A serving program: the watcher of src/watcher.rs and the archive cache  *)
(* of src/cache/archive.rs together.  What ArchiveCache calls its events   *)
(* are the paths in the watcher's channel and those it has collected, and  *)
(* the worker thread goes on only when the invalidate it called returns.   *)
(*                                                                         *)
(* AppState::new starts the watcher before the first request is served;    *)
(* the end of the program, when the watcher is dropped, is left out.       *)
(***************************************************************************)
EXTENDS ArchiveCache

CONSTANTS POLL_INTERVAL, MAX_DEBOUNCE_WINDOW, debounce, MaxQueued

VARIABLES channel, backend, stop, owner, worker, pending, waited, merged, owed, lost

W == INSTANCE Watcher

watching == <<channel, backend, stop, owner, worker, pending, waited, merged, owed, lost>>
coherenceVars == <<vars, watching>>

\* Events may repeat themselves, and changes go unreported.
ASSUME CoherenceAssumption == Repeats /\ Misses /\ W!WatcherAssumption

-----------------------------------------------------------------------------
CoherenceInit == Init /\ W!Init

StartWatcher == (W!Start \/ W!StartFails) /\ UNCHANGED vars

\* A change of n, or an event that says nothing new, reaches the callback.
Report(n) == W!Change({n}) /\ Change(n)

\* A change whose event the system loses, or that nobody watches for.
Lose(n) == (W!Overflow(n) \/ W!Unwatched(n)) /\ Miss(n)

PassTime == W!Tick /\ UNCHANGED vars

\* The worker collects paths...
Collect == /\ W!Receive \/ W!WindowCloses \/ W!PollTimesOut \/ W!CheckStop
           /\ UNCHANGED vars

\* ... and calls invalidate for one after the other.
FlushSkipping(n) ==
  /\ W!Flush(n) /\ changed = None
  /\ events' = W!Queued \cup (pending \ {n})
  /\ UNCHANGED <<fs, cache, cached_keys, request, watcher, history>>

Flush(n) == W!Flush(n) /\ Snapshot(n, W!Queued \cup (pending \ {n}))

Flushed == W!Flushed /\ changed = None /\ UNCHANGED vars

Work == Collect \/ (\E n \in Path : Flush(n)) \/ Flushed

InvalidateFurther == GoOn /\ UNCHANGED watching

\* Requests, and what moka does by itself.
Requested(t) == owner # "starting" /\ Request(t) /\ UNCHANGED watching
Served(t) == Serve(t) /\ UNCHANGED watching
Evicted(k) == Evict(k) /\ UNCHANGED watching

CoherenceNext ==
  \/ StartWatcher
  \/ \E n \in Path : Report(n) \/ Lose(n) \/ (W!Access(n) /\ UNCHANGED vars)
  \/ PassTime \/ Work \/ InvalidateFurther
  \/ \E t \in Thread : Requested(t) \/ Served(t)
  \/ \E k \in Key : Evicted(k)

\* Time passes, the worker thread runs, in invalidate and out of it, and so do the
\* threads of the requests.
CoherenceFairness == /\ WF_coherenceVars(PassTime)
                     /\ WF_coherenceVars(Work)
                     /\ WF_coherenceVars(InvalidateFurther)
                     /\ \A t \in Thread : WF_coherenceVars(Served(t))

CoherenceSpec == /\ CoherenceInit /\ [][CoherenceNext]_coherenceVars
                 /\ CoherenceFairness

-----------------------------------------------------------------------------
\* The events of ArchiveCache are what the watcher has of them.
EventsQueued == events = W!Queued \cup pending

(***************************************************************************)
(* Between two batches nothing is left undone: when the worker polls and   *)
(* its channel is empty, no entry is stale that is not lost to the watcher *)
(* for good.  It takes the merging, the loop of flush, the snapshot, both  *)
(* formats and the order of invalidate's steps to make it so.              *)
(***************************************************************************)
NothingLeftBehind ==
  worker \in {"polling", "checking"} /\ channel = <<>> =>
    \A k \in Key : Stale(k) => k \in escaped

\* The two keep to what each says of itself alone: the cache takes its own steps,
\* told of what it says it is told of, and nothing keeps the worker thread.
CacheSteps == Init /\ [][Next]_vars

WatcherSpec == W!Spec
=============================================================================
