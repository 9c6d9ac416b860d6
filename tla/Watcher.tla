------------------------------ MODULE Watcher -------------------------------
(***************************************************************************)
(* FileSystemWatcher (src/watcher.rs): notify's callback queues events,    *)
(* the worker thread merges them for a while and has the cache invalidate  *)
(* each path they name, and Drop ends both.  Time passes in ticks; a       *)
(* thread may always take longer than it has to.                           *)
(***************************************************************************)
EXTENDS Naturals, Sequences

CONSTANTS Path,                \* the paths that may change
          POLL_INTERVAL, MAX_DEBOUNCE_WINDOW, debounce, \* in ticks
          MaxQueued            \* bound on the events in the channel

ASSUME WatcherAssumption ==
  /\ POLL_INTERVAL \in Nat /\ debounce \in Nat
  /\ MAX_DEBOUNCE_WINDOW \in Nat \ {0} /\ MaxQueued \in Nat

VARIABLES
  channel,  \* the events sent by the callback and not received
  backend,  \* notify's thread: "absent", "watching", "ending" (its watcher has been
            \* dropped) or "gone", its sender with it
  stop,     \* whether a stop signal is in its channel
  owner,    \* what holds the watcher: "starting", "running", "without",
            \* then Drop's "stopping", "joining", "joined"
  worker,   \* run_worker: "none", "polling", "checking", "merging", "flushing",
            \* "leaving" (the last flush) or "ended"
  pending,  \* the paths collected
  waited,   \* ticks since recv_timeout was called
  merged,   \* ticks since the first event of the batch
  owed,     \* history: paths changed since their last invalidation began
  lost      \* history: of these, the ones whose event never came

timers == <<waited, merged>>
history == <<owed, lost>>
vars == <<channel, backend, stop, owner, worker, pending, timers, history>>

\* What recv_timeout yields: an event about some paths, or an error.
Event == [kind : {"change", "access", "error"}, paths : SUBSET Path]

\* The paths collect_event takes from an event.
Collected(event) == IF event.kind = "change" THEN event.paths ELSE {}

Receiving == worker \in {"polling", "merging"}
Reporting == backend \in {"watching", "ending"}
Connected == backend # "gone"

WindowOverIgnored == FALSE
WindowOver == merged >= MAX_DEBOUNCE_WINDOW

-----------------------------------------------------------------------------
Init ==
  /\ channel = <<>> /\ pending = {}
  /\ backend = "absent" /\ stop = FALSE
  /\ owner = "starting" /\ worker = "none"
  /\ waited = 0 /\ merged = 0
  /\ owed = {} /\ lost = {}

\* FileSystemWatcher::start, before any request is served.
Start ==
  /\ owner = "starting"
  /\ owner' = "running" /\ backend' = "watching" /\ worker' = "polling"
  /\ UNCHANGED <<channel, stop, pending, timers, history>>

\* Watching is switched off, or could not be started: the server goes on without.
StartFails ==
  /\ owner = "starting"
  /\ owner' = "without"
  /\ UNCHANGED <<channel, backend, stop, worker, pending, timers, history>>

-----------------------------------------------------------------------------
\* The callback sends an event; that the receiver is gone is ignored.
Deliver(event) ==
  /\ Len(channel) < MaxQueued
  /\ channel' = IF worker = "ended" THEN channel ELSE Append(channel, event)

\* Paths change together (a rename names two) and one event reports them.
Change(S) ==
  /\ Reporting
  /\ Deliver([kind |-> "change", paths |-> S])
  /\ owed' = owed \cup S
  /\ UNCHANGED <<backend, stop, owner, worker, pending, timers, lost>>

\* A file is read, which notify reports too.
Access(p) ==
  /\ Reporting
  /\ Deliver([kind |-> "access", paths |-> {p}])
  /\ UNCHANGED <<backend, stop, owner, worker, pending, timers, history>>

\* A change notify cannot report (the queue of the system has overflowed, say):
\* an error, or an event that names no path, comes in its place.
Overflow(p) ==
  /\ Reporting
  /\ \E kind \in {"change", "error"} : Deliver([kind |-> kind, paths |-> {}])
  /\ owed' = owed \cup {p} /\ lost' = lost \cup {p}
  /\ UNCHANGED <<backend, stop, owner, worker, pending, timers>>

\* Nobody watches.
Unwatched(p) ==
  /\ backend # "watching" /\ owner # "starting"
  /\ owed' = owed \cup {p} /\ lost' = lost \cup {p}
  /\ UNCHANGED <<channel, backend, stop, owner, worker, pending, timers>>

\* Time passes while the worker is in recv_timeout.
Advance(t, limit) == IF t < limit THEN t + 1 ELSE t

Tick ==
  /\ Receiving
  /\ waited' = Advance(waited, IF worker = "polling" THEN POLL_INTERVAL ELSE debounce)
  /\ merged' = IF worker = "merging" THEN Advance(merged, MAX_DEBOUNCE_WINDOW) ELSE merged
  /\ timers' # timers
  /\ UNCHANGED <<channel, backend, stop, owner, worker, pending, history>>

-----------------------------------------------------------------------------
\* recv_timeout returns an event: the first opens a window, a later one stays in
\* it, or closes it when it is over.
Receive ==
  /\ Receiving /\ channel # <<>>
  /\ pending' = pending \cup Collected(Head(channel))
  /\ channel' = Tail(channel)
  /\ waited' = 0
  /\ \/ /\ worker = "polling"
        /\ worker' = "merging" /\ merged' = 0
     \/ /\ worker = "merging"
        /\ worker' = IF WindowOver THEN "flushing" ELSE "merging"
        /\ UNCHANGED merged
  /\ UNCHANGED <<backend, stop, owner, history>>

\* No event for as long as a window stays open for one, or to its deadline.
WindowCloses ==
  /\ worker = "merging" /\ channel = <<>> /\ Connected
  /\ waited >= debounce \/ WindowOver
  /\ worker' = "flushing"
  /\ UNCHANGED <<channel, backend, stop, owner, pending, timers, history>>

\* No event for POLL_INTERVAL.
PollTimesOut ==
  /\ worker = "polling" /\ channel = <<>> /\ Connected
  /\ waited >= POLL_INTERVAL
  /\ worker' = "checking"
  /\ UNCHANGED <<channel, backend, stop, owner, pending, timers, history>>

\* stop_rx.try_recv
CheckStop ==
  /\ worker = "checking"
  /\ worker' = IF stop THEN "leaving" ELSE "polling"
  /\ waited' = 0
  /\ UNCHANGED <<channel, backend, stop, owner, pending, merged, history>>

\* The channel is empty and its sender gone.
DisconnectedUnflushed ==
  /\ Receiving /\ channel = <<>> /\ ~ Connected
  /\ worker' = "ended"
  /\ UNCHANGED <<channel, backend, stop, owner, pending, timers, history>>

Disconnected ==
  /\ Receiving /\ channel = <<>> /\ ~ Connected
  /\ worker' = "leaving"
  /\ UNCHANGED <<channel, backend, stop, owner, pending, timers, history>>

\* flush calls cache.invalidate for one path after the other.
Flush(p) ==
  /\ worker \in {"flushing", "leaving"} /\ p \in pending
  /\ pending' = pending \ {p}
  /\ owed' = owed \ {p} /\ lost' = lost \ {p}
  /\ UNCHANGED <<channel, backend, stop, owner, worker, timers>>

\* The batch is done; a thread that ends drops its receiver.
Flushed ==
  /\ worker \in {"flushing", "leaving"} /\ pending = {}
  /\ worker' = IF worker = "flushing" THEN "polling" ELSE "ended"
  /\ channel' = IF worker = "flushing" THEN channel ELSE <<>>
  /\ waited' = 0
  /\ UNCHANGED <<backend, stop, owner, pending, merged, history>>

-----------------------------------------------------------------------------
\* Drop: the stop signal, the end of notify's watcher, the join.
SendStop ==
  /\ owner = "running"
  /\ owner' = "stopping" /\ stop' = TRUE
  /\ UNCHANGED <<channel, backend, worker, pending, timers, history>>

JoinFirst ==
  /\ owner = "stopping" /\ worker = "ended"
  /\ owner' = "joining" /\ backend' = "ending"
  /\ UNCHANGED <<channel, stop, worker, pending, timers, history>>

\* watcher.take: notify's thread is told to end, and may report events until it does.
StopBackend ==
  /\ owner = "stopping"
  /\ owner' = "joining" /\ backend' = "ending"
  /\ UNCHANGED <<channel, stop, worker, pending, timers, history>>

BackendEnds ==
  /\ backend = "ending"
  /\ backend' = "gone"
  /\ UNCHANGED <<channel, stop, owner, worker, pending, timers, history>>

Join ==
  /\ owner = "joining" /\ worker = "ended"
  /\ owner' = "joined"
  /\ UNCHANGED <<channel, backend, stop, worker, pending, timers, history>>

Worker == \/ Receive \/ WindowCloses \/ PollTimesOut \/ CheckStop \/ Disconnected
          \/ (\E p \in Path : Flush(p)) \/ Flushed

Environment == \/ \E S \in (SUBSET Path) \ {{}} : Change(S)
               \/ \E p \in Path : Access(p) \/ Overflow(p) \/ Unwatched(p)

Next == \/ Start \/ StartFails
        \/ Environment \/ Tick
        \/ Worker
        \/ SendStop \/ StopBackend \/ BackendEnds \/ Join

\* Time passes, the worker thread runs, whoever has begun to drop the watcher goes
\* on and notify's thread ends when told to; nobody has to drop the watcher, and
\* events may never cease.
Fairness == /\ WF_vars(Tick) /\ WF_vars(Worker)
            /\ WF_vars(StopBackend) /\ WF_vars(BackendEnds) /\ WF_vars(Join)

Spec == Init /\ [][Next]_vars /\ Fairness

-----------------------------------------------------------------------------
TypeOK ==
  /\ channel \in Seq(Event)
  /\ backend \in {"absent", "watching", "ending", "gone"} /\ stop \in BOOLEAN
  /\ owner \in {"starting", "running", "without", "stopping", "joining", "joined"}
  /\ worker \in {"none", "polling", "checking", "merging", "flushing", "leaving", "ended"}
  /\ pending \subseteq Path /\ owed \subseteq Path /\ lost \subseteq owed
  /\ waited \in Nat /\ merged \in Nat

(***************************************************************************)
(* Until the thread ends, no change is forgotten: a path that has changed  *)
(* since its last invalidation is in an event in the channel or among the  *)
(* paths collected, unless notify lost the event itself.  That is what     *)
(* ArchiveCache's queue of events stands for.  However the thread comes to *)
(* its end, the paths it has collected have been invalidated.              *)
(***************************************************************************)
Queued == UNION {Collected(channel[i]) : i \in 1..Len(channel)}

NotForgotten ==
  IF worker = "ended" THEN pending = {} ELSE owed \subseteq Queued \cup pending \cup lost

(***************************************************************************)
(* The deadline of the window, stop and disconnection together: a change   *)
(* reaches the cache even if events never cease ("so that a steady stream  *)
(* of events does not put the flush off for ever", watcher.rs:112-113),   *)
(* as long as nobody drops the watcher and notify loses nothing.           *)
(***************************************************************************)
ChangesReachCache ==
  \A p \in Path : p \in owed ~> p \notin owed \/ p \in lost \/ owner # "running"

(***************************************************************************)
(* Drop returns, whatever events still come: the worker never waits for a  *)
(* sender that will not go away, and join finds it ended.                  *)
(***************************************************************************)
DropReturns == owner = "stopping" ~> owner = "joined"
=============================================================================
