---------------------------- MODULE ArchiveCache ----------------------------
(***************************************************************************)
(* The archive cache of src/cache/archive.rs under concurrent requests,    *)
(* file-system changes and the invalidation the watcher thread runs.       *)
(*                                                                         *)
(* A path is the sequence of its components.  The version of a path stands *)
(* for everything a scan reads there (presence, kind, size, mtime, and the *)
(* listing of a directory), so a directory's version moves when a child    *)
(* appears or goes.  Blocking-pool threads run get_or_create; one watcher  *)
(* thread runs invalidate for one changed path after the other.            *)
(***************************************************************************)
EXTENDS Naturals, Sequences, FiniteSets

CONSTANTS Thread,       \* threads of the blocking pool
          Path,         \* the paths under DATA_ROOT
          Source,       \* the paths clients ask for
          None,         \* no archive, no key, no path
          MaxVersion,   \* bound on the changes of one path
          Repeats,      \* whether events may come that say nothing new
          Misses,       \* whether changes may go unreported
          MaxCapacity,  \* max_capacity
          PruneFactor,  \* 4 in register_key
          PruneFloor    \* 8 in register_key

Format == {"tar", "zip"}
Key == Source \X Format

\* What a scan has read, be its result an archive or a failure: moka keeps either.
Archive == [seen : SUBSET (Path \X Nat)]

ASSUME CacheAssumption ==
  /\ Path \subseteq Seq(STRING)
  /\ Source \subseteq Path
  /\ None \notin Archive /\ None \notin Key /\ None \notin Path
  /\ MaxVersion \in Nat
  /\ Repeats \in BOOLEAN /\ Misses \in BOOLEAN
  /\ MaxCapacity \in Nat /\ PruneFactor \in Nat /\ PruneFloor \in Nat

VARIABLES
  fs,           \* the current version of each path
  events,       \* changed paths the watcher thread has not handled yet
  cache,        \* moka: the archive, or the failure, under each key
  cached_keys,  \* the registry of source paths
  pc,           \* where each thread is in get_or_create
  want,         \* the key each thread asks for
  scan,         \* the versions the thread's scan has read so far
  changed,      \* invalidate: the path being handled, None between calls
  victims,      \* invalidate: the registered paths it affects
  todo,         \* invalidate: the keys still to drop from the cache
  overtaken,    \* history: threads whose build an invalidation overtook
  escaped       \* history: stale keys whose invalidation is over, or never comes

watcher == <<changed, victims, todo>>
request == <<pc, want, scan>>
history == <<overtaken, escaped>>
vars == <<fs, events, cache, cached_keys, request, watcher, history>>

(***************************************************************************)
(* Paths                                                                   *)
(***************************************************************************)
\* changed.starts_with(key): component-wise prefix
Covers(p, n) == /\ Len(p) <= Len(n)
                /\ \A i \in 1..Len(p) : p[i] = n[i]

Tree(p) == {n \in Path : Covers(p, n)}

IsParent(m, n) == Len(n) = Len(m) + 1 /\ Covers(m, n)

\* The paths whose version a change reported at n may move: n itself, and
\* the listing of its parent.
Touchable(n) == {m \in Path : m = n \/ IsParent(m, n)}

(***************************************************************************)
(* What threads and entries have read                                      *)
(***************************************************************************)
HasRead(t, n) == \E r \in scan[t] : r[1] = n

Building(t, k) == pc[t] = "building" /\ want[t] = k

IsCached(p) == \E f \in Format : cache[<<p, f>>] # None

CachedKeys == {k \in Key : cache[k] # None}

\* The parts of what was read that the file system has moved past.
Outdated(seen) == {r \in seen : fs[r[1]] # r[2]}

\* An event at n may be about something these reads missed.
Concerns(n, seen) == \E r \in Outdated(seen) : r[1] \in Touchable(n)

Stale(k) == cache[k] # None /\ Outdated(cache[k].seen) # {}

PruneThreshold == IF PruneFactor * MaxCapacity > PruneFloor
                  THEN PruneFactor * MaxCapacity ELSE PruneFloor

\* What register_key keeps of the registry before it inserts: once it has
\* outgrown the cache, only the paths with an entry in either format.
RetainedTarOnly ==
  IF Cardinality(cached_keys) > PruneThreshold
  THEN {p \in cached_keys : cache[<<p, "tar">>] # None} ELSE cached_keys

Retained == IF Cardinality(cached_keys) > PruneThreshold
            THEN {p \in cached_keys : IsCached(p)} ELSE cached_keys

\* The registered paths a change at n affects: n itself and its ancestors.
VictimsExact(n) == {p \in cached_keys : p = n}
Victims(n) == {p \in cached_keys : Covers(p, n)}

\* The entries of these paths, in both formats.
EntriesTarOnly(S) == S \X {"tar"}
Entries(S) == S \X Format

\* The requests the result of t's build answers: its own and the waiters'.
AnsweredAlone(t) == {t}
Answered(t) == {t} \cup {u \in Thread : pc[u] = "waiting" /\ want[u] = want[t]}

-----------------------------------------------------------------------------
Init ==
  /\ fs = [n \in Path |-> 0]
  /\ events = {}
  /\ cache = [k \in Key |-> None]
  /\ cached_keys = {}
  /\ pc = [t \in Thread |-> "idle"]
  /\ want = [t \in Thread |-> None]
  /\ scan = [t \in Thread |-> {}]
  /\ changed = None /\ victims = {} /\ todo = {}
  /\ overtaken = {} /\ escaped = {}

(***************************************************************************)
(* The file system changes at n.  A structural change also moves the       *)
(* listing of the parent; the event names n alone.  An event may also say  *)
(* nothing new, where one change is reported several times, or one no scan *)
(* looks at.                                                               *)
(***************************************************************************)
Move(S) == /\ \A m \in S : fs[m] < MaxVersion
           /\ fs' = [m \in Path |-> IF m \in S THEN fs[m] + 1 ELSE fs[m]]

Moved(n) == {{n}, Touchable(n)} \cup (IF Repeats THEN {{}} ELSE {})

Change(n) ==
  /\ \E S \in Moved(n) : Move(S)
  /\ events' = events \cup {n}
  /\ UNCHANGED <<cache, cached_keys, request, watcher, history>>

\* A change nobody reports: notify has lost the event, or nobody watches.  Who has
\* read what it moved is never told.
Miss(n) ==
  /\ Misses
  /\ \E S \in {{n}, Touchable(n)} :
       /\ Move(S)
       /\ overtaken' = overtaken \cup {t \in Thread : \E m \in S : HasRead(t, m)}
       /\ escaped' = escaped \cup {k \in CachedKeys : \E r \in cache[k].seen : r[1] \in S}
  /\ UNCHANGED <<events, cache, cached_keys, request, watcher>>

(***************************************************************************)
(* get_or_create.  moka's get_with runs one initialiser per key: a thread  *)
(* finds the entry, waits for the thread that builds it, or builds it.     *)
(***************************************************************************)
Hit(t, k) ==
  /\ pc[t] = "idle"
  /\ cache[k] # None
  /\ want' = [want EXCEPT ![t] = k]
  /\ pc' = [pc EXCEPT ![t] = "registering"]
  /\ UNCHANGED <<fs, events, cache, cached_keys, scan, watcher, history>>

Join(t, k) ==
  /\ pc[t] = "idle"
  /\ cache[k] = None
  /\ \E u \in Thread : Building(u, k)
  /\ want' = [want EXCEPT ![t] = k]
  /\ pc' = [pc EXCEPT ![t] = "waiting"]
  /\ UNCHANGED <<fs, events, cache, cached_keys, scan, watcher, history>>

\* Looked up and inserted without get_with: who misses builds.
StartBuildTwice(t, k) ==
  /\ pc[t] = "idle"
  /\ cache[k] = None
  /\ want' = [want EXCEPT ![t] = k]
  /\ pc' = [pc EXCEPT ![t] = "building"]
  /\ UNCHANGED <<fs, events, cache, cached_keys, scan, watcher, history>>

StartBuild(t, k) ==
  /\ pc[t] = "idle"
  /\ cache[k] = None
  /\ ~ \E u \in Thread : Building(u, k)
  /\ want' = [want EXCEPT ![t] = k]
  /\ pc' = [pc EXCEPT ![t] = "building"]
  /\ UNCHANGED <<fs, events, cache, cached_keys, scan, watcher, history>>

(***************************************************************************)
(* The scan reads one path at a time, a directory before what is in it.    *)
(* The first error ends it: the path read last cannot be read, or is gone  *)
(* since its parent was listed, or the reason lies elsewhere (no more      *)
(* descriptors, say).  So may any read be the last.                        *)
(***************************************************************************)
Read(t, n) ==
  /\ pc[t] = "building"
  /\ n \in Tree(want[t][1]) /\ ~ HasRead(t, n)
  /\ \A m \in Tree(want[t][1]) : m # n /\ Covers(m, n) => HasRead(t, m)
  /\ scan' = [scan EXCEPT ![t] = @ \cup {<<n, fs[n]>>}]
  /\ UNCHANGED <<fs, events, cache, cached_keys, pc, want, watcher, history>>

\* The scan is over: it has read its tree, or its last read has failed.  The result,
\* a failure included, is cached and handed to every waiter.
FinishBuild(t) ==
  LET k == want[t] IN
  /\ pc[t] = "building" /\ scan[t] # {}
  /\ cache' = [cache EXCEPT ![k] = [seen |-> scan[t]]]
  /\ pc' = [u \in Thread |-> IF u \in Answered(t) THEN "registering" ELSE pc[u]]
  /\ scan' = [scan EXCEPT ![t] = {}]
  /\ escaped' = IF t \in overtaken THEN escaped \cup {k} ELSE escaped \ {k}
  /\ overtaken' = overtaken \ {t}
  /\ UNCHANGED <<fs, events, cached_keys, want, watcher>>

\* register_key: prune the registry when it has outgrown the cache, then insert.
Register(t) ==
  /\ pc[t] = "registering"
  /\ cached_keys' = Retained \cup {want[t][1]}
  /\ pc' = [pc EXCEPT ![t] = "idle"]
  /\ want' = [want EXCEPT ![t] = None]
  /\ UNCHANGED <<fs, events, cache, scan, watcher, history>>

\* moka evicts some entry when the cache is over its capacity.
Evict(k) ==
  /\ cache[k] # None
  /\ Cardinality(CachedKeys) > MaxCapacity
  /\ cache' = [cache EXCEPT ![k] = None]
  /\ escaped' = escaped \ {k}
  /\ UNCHANGED <<fs, events, cached_keys, request, watcher, overtaken>>

(***************************************************************************)
(* invalidate(n): a snapshot of the affected registered paths under the    *)
(* read lock, the entries dropped one by one without a lock, the victims   *)
(* removed from the registry under the write lock.  From its snapshot on,  *)
(* n is off the queue, unless another event of it has come (left): a build *)
(* that missed the change is overtaken, a cached entry that missed it and  *)
(* whose path is not registered escapes.                                   *)
(***************************************************************************)
Snapshot(n, left) ==
  /\ changed = None
  /\ n \in events
  /\ events' = left
  /\ changed' = IF Victims(n) = {} THEN None ELSE n
  /\ victims' = Victims(n)
  /\ todo' = Entries(Victims(n))
  /\ overtaken' = overtaken \cup {t \in Thread : Concerns(n, scan[t])}
  /\ escaped' = escaped \cup {k \in CachedKeys : k[1] \notin cached_keys /\ Concerns(n, cache[k].seen)}
  /\ UNCHANGED <<fs, cache, cached_keys, request>>

Drop(p) ==
  LET k == <<p, IF <<p, "tar">> \in todo THEN "tar" ELSE "zip">> IN
  /\ k \in todo
  /\ \A q \in victims : <<q, "zip">> \in todo /\ <<q, "tar">> \notin todo => q = p
  /\ cache' = [cache EXCEPT ![k] = None]
  /\ todo' = todo \ {k}
  /\ escaped' = escaped \ {k}
  /\ UNCHANGED <<fs, events, cached_keys, request, changed, victims, overtaken>>

UnregisterUnderRead ==
  /\ changed # None /\ todo = {} /\ victims = {}
  /\ cached_keys' = cached_keys \ victims
  /\ changed' = None /\ victims' = {}
  /\ UNCHANGED <<fs, events, cache, request, todo, history>>

Unregister ==
  /\ changed # None /\ todo = {}
  /\ cached_keys' = cached_keys \ victims
  /\ changed' = None /\ victims' = {}
  /\ UNCHANGED <<fs, events, cache, request, todo, history>>

-----------------------------------------------------------------------------
Request(t) == \E k \in Key : Hit(t, k) \/ Join(t, k) \/ StartBuild(t, k)

Serve(t) == (\E n \in Path : Read(t, n)) \/ FinishBuild(t) \/ Register(t)

Left(n) == {events \ {n}} \cup (IF Repeats THEN {events} ELSE {})

Handle(n) == \E left \in Left(n) : Snapshot(n, left)

GoOn == (\E p \in Source : Drop(p)) \/ Unregister

Invalidate == (\E n \in Path : Handle(n)) \/ GoOn

Next == \/ \E n \in Path : Change(n) \/ Miss(n)
        \/ \E t \in Thread : Request(t) \/ Serve(t)
        \/ \E k \in Key : Evict(k)
        \/ Invalidate

\* Every thread that can take a step of a request in hand eventually does; nobody
\* has to change files or send requests, and what the watcher's thread does for the
\* cache is up to the watcher.
Fairness == \A t \in Thread : WF_vars(Serve(t))

Spec == Init /\ [][Next]_vars /\ Fairness

-----------------------------------------------------------------------------
TypeOK ==
  /\ fs \in [Path -> Nat]
  /\ events \subseteq Path
  /\ cache \in [Key -> Archive \cup {None}]
  /\ cached_keys \subseteq Source
  /\ pc \in [Thread -> {"idle", "building", "waiting", "registering"}]
  /\ want \in [Thread -> Key \cup {None}]
  /\ \A t \in Thread : pc[t] # "idle" => want[t] \in Key
  /\ scan \in [Thread -> SUBSET (Path \X Nat)]
  /\ changed \in Path \cup {None} /\ victims \subseteq Source
  /\ todo \subseteq victims \X Format /\ (changed = None => victims = {})
  /\ overtaken \subseteq Thread /\ escaped \subseteq Key

(***************************************************************************)
(* Whatever an entry has read and the file system has since moved past is  *)
(* accounted for: a change that covers it is still to be handled, or its   *)
(* invalidation is under way and will drop this very key, or the entry     *)
(* escaped (its build was overtaken by an invalidation, its path was not   *)
(* registered when one took its snapshot, or nobody reported the change).  *)
(***************************************************************************)
Accounted(k, m) ==
  \/ \E n \in events : m \in Touchable(n)
  \/ changed # None /\ k \in todo /\ m \in Touchable(changed)
  \/ k \in escaped

StaleAccounted ==
  \A k \in Key : cache[k] # None =>
    \A r \in Outdated(cache[k].seen) : Accounted(k, r[1])

(***************************************************************************)
(* Except for the last step of invalidate, no step loses track of a cached *)
(* path: it stays registered, or a thread is about to register it.         *)
(* Pruning, evictions and the gap between insert and register_key included.*)
(***************************************************************************)
Tracked(p) == \/ ~ IsCached(p)
              \/ p \in cached_keys
              \/ \E t \in Thread : pc[t] = "registering" /\ want[t][1] = p

OnlyUnregisterLosesTrack ==
  [][\A p \in Source : Tracked(p) => Tracked(p)' \/ (todo = {} /\ p \in victims)]_vars

(***************************************************************************)
(* Nobody waits in vain: while a thread waits for a key, one other thread  *)
(* builds that very key, whatever is invalidated, evicted or fails, and    *)
(* never do two threads build the same.                                    *)
(***************************************************************************)
WaitersServed ==
  /\ \A t \in Thread : pc[t] = "waiting" => \E u \in Thread : Building(u, want[t])
  /\ \A t, u \in Thread : \A k \in Key : Building(t, k) /\ Building(u, k) => t = u

\* Every request is answered, the waiters of a failed or invalidated build too.
RequestsReturn ==
  \A t \in Thread : pc[t] # "idle" ~> pc[t] = "idle"

\* Eventual coherence, as far as the code gives it: an entry the watcher
\* thread can see does not stay stale.
StaleVisibleGoes ==
  \A k \in Key : (Stale(k) /\ k \notin escaped) ~> (~ Stale(k) \/ k \in escaped)

(***************************************************************************)
(* What the README promises: automatic invalidation keeps the cache        *)
(* consistent with the source directories (README.md:41), and requests     *)
(* after an invalidation rescan (README.md:226).  Once every change has    *)
(* been handled, no entry is stale.                                        *)
(***************************************************************************)
Quiet == events = {} /\ changed = None /\ \A t \in Thread : pc[t] = "idle"

CoherentWhenQuiet == Quiet => \A k \in Key : ~ Stale(k)

\* The registry records every cached source path (cache/archive.rs:11-12,16).
RegistryCompleteWhenQuiet == Quiet => \A k \in CachedKeys : k[1] \in cached_keys
=============================================================================
