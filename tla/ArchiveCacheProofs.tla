------------------------- MODULE ArchiveCacheProofs -------------------------
(***************************************************************************)
(* What ArchiveCache guarantees for every set of threads and paths, every  *)
(* bound on the changes and every capacity of the cache.                   *)
(***************************************************************************)
EXTENDS ArchiveCache, TLAPS

-----------------------------------------------------------------------------
\* A path affects everything the paths below it affect.
LEMMA CoversTransitive ==
  ASSUME NEW p \in Path, NEW m \in Path, NEW n \in Path, Covers(p, m), Covers(m, n)
  PROVE  Covers(p, n)
<1>1. Len(p) \in Nat /\ Len(m) \in Nat /\ Len(n) \in Nat
  BY CacheAssumption
<1>2. Len(p) <= Len(n)
  BY <1>1 DEF Covers
<1>3. ASSUME NEW i \in 1..Len(p) PROVE p[i] = n[i]
  <2>1. i \in 1..Len(m)
    BY <1>1 DEF Covers
  <2>2. p[i] = m[i] /\ m[i] = n[i]
    BY <2>1 DEF Covers
  <2> QED BY <2>2
<1> QED BY <1>2, <1>3 DEF Covers

\* Whoever has read a path that a change at n may touch is affected by n.
LEMMA TouchableCovered ==
  ASSUME NEW p \in Path, NEW n \in Path, NEW m \in Touchable(n), Covers(p, m)
  PROVE  Covers(p, n)
<1>1. CASE m = n
  BY <1>1
<1>2. CASE m \in Path /\ Covers(m, n)
  BY <1>2, CoversTransitive
<1> QED BY <1>1, <1>2 DEF Touchable, IsParent

-----------------------------------------------------------------------------
LEMMA TypeStep ==
  ASSUME TypeOK, [Next]_vars
  PROVE  TypeOK'
<1> USE DEF TypeOK
<1>1. ASSUME NEW n \in Path, Change(n) PROVE TypeOK'
  <2>1. fs' \in [Path -> Nat]
    BY <1>1 DEF Change, Move
  <2> QED BY <1>1, <2>1 DEF Change, request, watcher, history
<1>2. ASSUME NEW t \in Thread, NEW k \in Key, Hit(t, k) PROVE TypeOK'
  BY <1>2 DEF Hit, watcher, history
<1>3. ASSUME NEW t \in Thread, NEW k \in Key, Join(t, k) PROVE TypeOK'
  BY <1>3 DEF Join, watcher, history
<1>4. ASSUME NEW t \in Thread, NEW k \in Key, StartBuild(t, k) PROVE TypeOK'
  BY <1>4 DEF StartBuild, watcher, history
<1>5. ASSUME NEW t \in Thread, NEW n \in Path, Read(t, n) PROVE TypeOK'
  <2>1. <<n, fs[n]>> \in Path \X Nat
    OBVIOUS
  <2>2. scan' \in [Thread -> SUBSET (Path \X Nat)]
    BY <1>5, <2>1 DEF Read
  <2> QED BY <1>5, <2>2 DEF Read, watcher, history
<1>6. ASSUME NEW t \in Thread, FinishBuild(t) PROVE TypeOK'
  <2>1. want[t] \in Key
    BY <1>6 DEF FinishBuild
  <2>2. [seen |-> scan[t]] \in Archive
    BY DEF Archive
  <2>3. cache' \in [Key -> Archive \cup {None}]
    BY <1>6, <2>2 DEF FinishBuild
  <2>4. /\ pc' \in [Thread -> {"idle", "building", "waiting", "registering"}]
        /\ \A u \in Thread : pc'[u] # "idle" => want[u] \in Key
    BY <1>6 DEF FinishBuild, Answered
  <2>5. overtaken' \subseteq Thread /\ escaped' \subseteq Key
    BY <1>6, <2>1 DEF FinishBuild
  <2> QED BY <1>6, <2>3, <2>4, <2>5 DEF FinishBuild, watcher
<1>7. ASSUME NEW t \in Thread, Register(t) PROVE TypeOK'
  <2>1. want[t] \in Source \X Format
    BY <1>7 DEF Register, Key
  <2>2. cached_keys' \subseteq Source
    BY <1>7, <2>1 DEF Register, Retained
  <2> QED BY <1>7, <2>2 DEF Register, watcher, history
<1>8. ASSUME NEW k \in Key, Evict(k) PROVE TypeOK'
  BY <1>8 DEF Evict, request, watcher
<1>9. ASSUME NEW n \in Path, NEW left \in Left(n), Snapshot(n, left) PROVE TypeOK'
  <2>1. escaped' \subseteq Key /\ overtaken' \subseteq Thread
    BY <1>9 DEF Snapshot, CachedKeys
  <2>2. victims' \subseteq Source /\ todo' \subseteq victims' \X Format
    BY <1>9 DEF Snapshot, Victims, Entries
  <2>3. changed' \in Path \cup {None} /\ (changed' = None => victims' = {})
    BY <1>9, CacheAssumption DEF Snapshot
  <2>4. events' \subseteq Path
    BY <1>9 DEF Snapshot, Left
  <2> QED BY <1>9, <2>1, <2>2, <2>3, <2>4 DEF Snapshot, request
<1>10. ASSUME NEW p \in Source, Drop(p) PROVE TypeOK'
  BY <1>10 DEF Drop, request, Key
<1>11. CASE Unregister
  BY <1>11 DEF Unregister, request, history
<1>12. CASE UNCHANGED vars
  BY <1>12 DEF vars, request, watcher, history
<1>14. ASSUME NEW n \in Path, Miss(n) PROVE TypeOK'
  <2>1. fs' \in [Path -> Nat] /\ overtaken' \subseteq Thread /\ escaped' \subseteq Key
    BY <1>14 DEF Miss, Move, CachedKeys
  <2> QED BY <1>14, <2>1 DEF Miss, request, watcher
<1> QED
  BY <1>1, <1>2, <1>3, <1>4, <1>5, <1>6, <1>7, <1>8, <1>9, <1>10, <1>11, <1>12, <1>14
  DEF Next, Request, Serve, Invalidate, Handle, GoOn

\* Type correctness, and the phases of invalidate: what is left to drop are
\* entries of the victims, and there are victims only during a call.
THEOREM TypeCorrect == Spec => []TypeOK
<1>1. Init => TypeOK
  BY CacheAssumption DEF Init, TypeOK
<1>2. TypeOK /\ [Next]_vars => TypeOK'
  BY TypeStep
<1> QED BY <1>1, <1>2, PTL DEF Spec

-----------------------------------------------------------------------------
(***************************************************************************)
(* The inductive invariant behind StaleAccounted.  A scan stays inside the *)
(* tree of its source, so that whatever a change can make stale belongs to *)
(* a path the change affects; and what a running scan has read is          *)
(* accounted for already, by a pending event or by its being overtaken,    *)
(* before the entry it ends in exists.                                     *)
(***************************************************************************)
ScansOf(t) ==
  /\ scan[t] # {} => pc[t] = "building"
  /\ \A r \in scan[t] : r[1] \in Tree(want[t][1])

ScansInTree ==
  /\ \A t \in Thread : ScansOf(t)
  /\ \A k \in Key : cache[k] # None => \A r \in cache[k].seen : r[1] \in Tree(k[1])

LEMMA ScansInTreeStep ==
  ASSUME TypeOK, ScansInTree, [Next]_vars
  PROVE  ScansInTree'
<1> USE DEF TypeOK, ScansInTree, ScansOf
<1>1. ASSUME NEW n \in Path, Change(n) \/ Miss(n) PROVE ScansInTree'
  BY <1>1 DEF Change, Miss, request
<1>2. ASSUME NEW t \in Thread, NEW k \in Key, Hit(t, k) PROVE ScansInTree'
  BY <1>2 DEF Hit
<1>3. ASSUME NEW t \in Thread, NEW k \in Key, Join(t, k) PROVE ScansInTree'
  BY <1>3 DEF Join
<1>4. ASSUME NEW t \in Thread, NEW k \in Key, StartBuild(t, k) PROVE ScansInTree'
  BY <1>4 DEF StartBuild
<1>5. ASSUME NEW t \in Thread, NEW n \in Path, Read(t, n) PROVE ScansInTree'
  <2>1. \A r \in scan'[t] : r \in scan[t] \/ r = <<n, fs[n]>>
    BY <1>5 DEF Read
  <2>2. \A r \in scan'[t] : r[1] \in Tree(want[t][1])
    BY <1>5, <2>1 DEF Read
  <2>3. \A u \in Thread : u # t => scan'[u] = scan[u]
    BY <1>5 DEF Read
  <2> QED BY <1>5, <2>2, <2>3 DEF Read
<1>6. ASSUME NEW t \in Thread, FinishBuild(t) PROVE ScansInTree'
  <2>1. \A u \in Thread : ScansOf(u)'
    BY <1>6 DEF FinishBuild, Answered
  <2>2. \A k \in Key : k # want[t] => cache'[k] = cache[k]
    BY <1>6 DEF FinishBuild
  <2>3. want[t] \in Key /\ cache'[want[t]].seen = scan[t]
    BY <1>6 DEF FinishBuild
  <2> QED BY <2>1, <2>2, <2>3
<1>7. ASSUME NEW t \in Thread, Register(t) PROVE ScansInTree'
  BY <1>7 DEF Register
<1>8. ASSUME NEW k \in Key, Evict(k) PROVE ScansInTree'
  BY <1>8 DEF Evict, request
<1>9. ASSUME NEW n \in Path, NEW left \in Left(n), Snapshot(n, left) PROVE ScansInTree'
  BY <1>9 DEF Snapshot, request
<1>10. ASSUME NEW p \in Source, Drop(p) PROVE ScansInTree'
  BY <1>10 DEF Drop, request
<1>11. CASE Unregister
  BY <1>11 DEF Unregister, request
<1>12. CASE UNCHANGED vars
  BY <1>12 DEF vars, request
<1> QED
  BY <1>1, <1>2, <1>3, <1>4, <1>5, <1>6, <1>7, <1>8, <1>9, <1>10, <1>11, <1>12
  DEF Next, Request, Serve, Invalidate, Handle, GoOn

LEMMA ScansInTreeInvariant == Spec => []ScansInTree
<1>1. Init => ScansInTree
  BY DEF Init, ScansInTree, ScansOf
<1>2. TypeOK /\ ScansInTree /\ [Next]_vars => ScansInTree'
  BY ScansInTreeStep
<1> QED BY <1>1, <1>2, TypeCorrect, PTL DEF Spec

\* What a running scan has read and missed is known to somebody.
ScanAccounted ==
  \A t \in Thread : \A r \in Outdated(scan[t]) :
    t \in overtaken \/ \E n \in events : r[1] \in Touchable(n)

\* A change only makes reads outdated that its own event will be about.
LEMMA ChangeAccounted ==
  ASSUME TypeOK, NEW n \in Path, Change(n), NEW seen \in SUBSET (Path \X Nat),
         NEW r \in Outdated(seen)'
  PROVE  r \in Outdated(seen) \/ r[1] \in Touchable(n)
<1>1. PICK S \in Moved(n) :
        fs' = [m \in Path |-> IF m \in S THEN fs[m] + 1 ELSE fs[m]]
  BY DEF Change, Move
<1>2. S \subseteq Touchable(n)
  BY DEF Moved, Touchable
<1>3. r \in seen /\ r[1] \in Path /\ fs'[r[1]] # r[2]
  BY DEF Outdated
<1>4. CASE r[1] \in S
  BY <1>2, <1>4
<1>5. CASE r[1] \notin S
  BY <1>1, <1>3, <1>5 DEF Outdated
<1> QED BY <1>4, <1>5

\* What a change moves was read by those who miss it, or they have not missed it.
LEMMA MoveMissed ==
  ASSUME TypeOK, NEW S \in SUBSET Path, Move(S), NEW seen \in SUBSET (Path \X Nat),
         NEW r \in Outdated(seen)'
  PROVE  r \in Outdated(seen) \/ (r \in seen /\ r[1] \in S)
<1>1. r \in seen /\ r[1] \in Path /\ fs'[r[1]] # r[2]
  BY DEF Outdated
<1>2. CASE r[1] \in S
  BY <1>1, <1>2
<1>3. CASE r[1] \notin S
  BY <1>1, <1>3 DEF Move, Outdated
<1> QED BY <1>2, <1>3

LEMMA ScanAccountedStep ==
  ASSUME TypeOK, ScansInTree, ScanAccounted, [Next]_vars
  PROVE  ScanAccounted'
<1> USE DEF TypeOK, ScanAccounted
<1>1. ASSUME NEW n \in Path, Change(n) PROVE ScanAccounted'
  <2> SUFFICES ASSUME NEW t \in Thread, NEW r \in Outdated(scan[t])'
               PROVE  (t \in overtaken' \/ \E m \in events' : r[1] \in Touchable(m))
    BY DEF Touchable
  <2>1. scan' = scan /\ overtaken' = overtaken /\ events' = events \cup {n}
    BY <1>1 DEF Change, request, history
  <2>2. r \in Outdated(scan[t]) \/ r[1] \in Touchable(n)
    BY <1>1, <2>1, ChangeAccounted DEF Outdated
  <2> QED BY <2>1, <2>2
<1>2. ASSUME NEW t \in Thread, NEW n \in Path, Read(t, n) PROVE ScanAccounted'
  <2>1. \A u \in Thread : \A r \in scan'[u] : r \in scan[u] \/ r = <<n, fs[n]>>
    BY <1>2 DEF Read
  <2>2. \A u \in Thread : Outdated(scan[u])' \subseteq Outdated(scan[u])
    BY <1>2, <2>1 DEF Read, Outdated
  <2> QED BY <1>2, <2>2 DEF Read, history, Touchable
<1>3. ASSUME NEW t \in Thread, FinishBuild(t) PROVE ScanAccounted'
  <2>1. scan'[t] = {} /\ \A u \in Thread : u # t => scan'[u] = scan[u]
    BY <1>3 DEF FinishBuild
  <2> QED BY <1>3, <2>1 DEF FinishBuild, Outdated, Touchable
<1>4. ASSUME NEW n \in Path, NEW left \in Left(n), Snapshot(n, left) PROVE ScanAccounted'
  <2>1. \A u \in Thread : Outdated(scan[u])' = Outdated(scan[u])
    BY <1>4 DEF Snapshot, request, Outdated
  <2> SUFFICES ASSUME NEW t \in Thread, NEW r \in Outdated(scan[t])
               PROVE  (t \in overtaken' \/ \E m \in events' : r[1] \in Touchable(m))
    BY <2>1 DEF Touchable
  <2>2. CASE r[1] \in Touchable(n)
    BY <1>4, <2>2 DEF Snapshot, Concerns
  <2>3. CASE r[1] \notin Touchable(n)
    BY <1>4, <2>3 DEF Snapshot, Left
  <2> QED BY <2>2, <2>3
<1>5. ASSUME UNCHANGED <<fs, scan, events, overtaken>> PROVE ScanAccounted'
  BY <1>5 DEF Outdated, Touchable
<1>7. ASSUME NEW n \in Path, Miss(n) PROVE ScanAccounted'
  <2> SUFFICES ASSUME NEW t \in Thread, NEW r \in Outdated(scan[t])'
               PROVE  (t \in overtaken' \/ \E m \in events' : r[1] \in Touchable(m))
    BY DEF Touchable
  <2>1. scan' = scan /\ events' = events
    BY <1>7 DEF Miss, request
  <2>2. PICK S \in {{n}, Touchable(n)} :
          /\ Move(S)
          /\ overtaken' = overtaken \cup {u \in Thread : \E m \in S : HasRead(u, m)}
    BY <1>7 DEF Miss
  <2>3. S \in SUBSET Path
    BY <2>2 DEF Touchable
  <2>4. r \in Outdated(scan[t])'
    OBVIOUS
  <2>5. r \in Outdated(scan[t]) \/ (r \in scan[t] /\ r[1] \in S)
    BY <2>1, <2>2, <2>3, <2>4, MoveMissed DEF Outdated
  <2>6. CASE r \in Outdated(scan[t])
    BY <2>1, <2>2, <2>6
  <2>7. CASE r \in scan[t] /\ r[1] \in S
    BY <2>2, <2>7 DEF HasRead
  <2> QED BY <2>5, <2>6, <2>7
<1> QED
  BY <1>1, <1>2, <1>3, <1>4, <1>5, <1>7
  DEF Next, Request, Serve, Invalidate, Handle, GoOn, Hit, Join, StartBuild, Register, Evict,
      Drop, Unregister, vars, request, history

LEMMA StaleAccountedStep ==
  ASSUME TypeOK, ScansInTree, ScanAccounted, StaleAccounted, [Next]_vars
  PROVE  StaleAccounted'
<1> USE DEF TypeOK, StaleAccounted
<1>1. ASSUME NEW n \in Path, Change(n) PROVE StaleAccounted'
  <2> SUFFICES ASSUME NEW k \in Key, cache'[k] # None,
                      NEW r \in Outdated(cache[k].seen)'
               PROVE  Accounted(k, r[1])'
    OBVIOUS
  <2>1. /\ cache' = cache /\ events' = events \cup {n}
        /\ UNCHANGED <<changed, todo, escaped>>
    BY <1>1 DEF Change, watcher, history
  <2>2. cache[k].seen \in SUBSET (Path \X Nat)
    BY <2>1 DEF Archive
  <2>3. r \in Outdated(cache[k].seen) \/ r[1] \in Touchable(n)
    BY <1>1, <2>1, <2>2, ChangeAccounted DEF Outdated
  <2> QED BY <2>1, <2>3 DEF Accounted, Touchable
<1>2. ASSUME NEW t \in Thread, FinishBuild(t) PROVE StaleAccounted'
  <2> SUFFICES ASSUME NEW k \in Key, cache'[k] # None,
                      NEW r \in Outdated(cache[k].seen)'
               PROVE  Accounted(k, r[1])'
    OBVIOUS
  <2>1. UNCHANGED <<fs, events, changed, todo>>
    BY <1>2 DEF FinishBuild, watcher
  <2>2. CASE k = want[t]
    <3>1. r \in Outdated(scan[t])
      BY <1>2, <2>1, <2>2 DEF FinishBuild, Outdated
    <3>2. t \in overtaken => k \in escaped'
      BY <1>2, <2>2 DEF FinishBuild
    <3> QED BY <2>1, <3>1, <3>2 DEF ScanAccounted, Accounted, Touchable
  <2>3. CASE k # want[t]
    <3>1. cache'[k] = cache[k] /\ (k \in escaped => k \in escaped')
      BY <1>2, <2>3 DEF FinishBuild
    <3>2. r \in Outdated(cache[k].seen)
      BY <2>1, <3>1 DEF Outdated
    <3> QED BY <2>1, <3>1, <3>2 DEF Accounted, Touchable
  <2> QED BY <2>2, <2>3
<1>3. ASSUME NEW n \in Path, NEW left \in Left(n), Snapshot(n, left) PROVE StaleAccounted'
  <2> SUFFICES ASSUME NEW k \in Key, cache'[k] # None,
                      NEW r \in Outdated(cache[k].seen)'
               PROVE  Accounted(k, r[1])'
    OBVIOUS
  <2>1. cache' = cache /\ r \in Outdated(cache[k].seen)
    BY <1>3 DEF Snapshot, Outdated
  <2>2. k \notin todo
    BY <1>3 DEF Snapshot
  <2>3. CASE k \in escaped \/ \E m \in events \ {n} : r[1] \in Touchable(m)
    BY <1>3, <2>3 DEF Snapshot, Left, Accounted, Touchable
  <2>4. CASE r[1] \in Touchable(n) /\ k[1] \notin cached_keys
    BY <1>3, <2>1, <2>4 DEF Snapshot, Concerns, CachedKeys, Accounted
  <2>5. CASE r[1] \in Touchable(n) /\ k[1] \in cached_keys
    <3>1. k[1] \in Path /\ k[1] \in Source /\ k[2] \in Format /\ k = <<k[1], k[2]>>
      BY CacheAssumption DEF Key
    <3>2. Covers(k[1], r[1])
      BY <2>1 DEF ScansInTree, Tree, Outdated
    <3>3. k[1] \in Victims(n)
      BY <2>5, <3>1, <3>2, TouchableCovered DEF Victims
    <3>4. k \in todo' /\ changed' = n
      BY <1>3, <3>1, <3>3 DEF Snapshot, Entries
    <3> QED BY <2>5, <3>4, CacheAssumption DEF Accounted, Touchable
  <2> QED BY <2>1, <2>2, <2>3, <2>4, <2>5 DEF Accounted
<1>4. ASSUME NEW k \in Key, cache' = [cache EXCEPT ![k] = None],
             escaped' = escaped \ {k}, todo' \in {todo, todo \ {k}},
             UNCHANGED <<fs, events, changed>>
      PROVE  StaleAccounted'
  <2> SUFFICES ASSUME NEW l \in Key, cache'[l] # None,
                      NEW r \in Outdated(cache[l].seen)'
               PROVE  Accounted(l, r[1])'
    OBVIOUS
  <2>1. l # k /\ cache'[l] = cache[l]
    BY <1>4
  <2>2. r \in Outdated(cache[l].seen)
    BY <1>4, <2>1 DEF Outdated
  <2> QED BY <1>4, <2>1, <2>2 DEF Accounted, Touchable
<1>5. ASSUME NEW k \in Key, Evict(k) PROVE StaleAccounted'
  BY <1>4, <1>5 DEF Evict, watcher
<1>6. ASSUME NEW p \in Source, Drop(p) PROVE StaleAccounted'
  <2> DEFINE k == <<p, IF <<p, "tar">> \in todo THEN "tar" ELSE "zip">>
  <2>1. k \in Key
    BY DEF Key, Format
  <2> QED BY <1>4, <1>6, <2>1 DEF Drop
<1>7. CASE Unregister
  BY <1>7 DEF Unregister, Accounted, Outdated, Touchable, history
<1>8. ASSUME UNCHANGED <<fs, events, cache, changed, todo, escaped>> PROVE StaleAccounted'
  BY <1>8 DEF Accounted, Outdated, Touchable
<1>10. ASSUME NEW n \in Path, Miss(n) PROVE StaleAccounted'
  <2> SUFFICES ASSUME NEW k \in Key, cache'[k] # None,
                      NEW r \in Outdated(cache[k].seen)'
               PROVE  Accounted(k, r[1])'
    OBVIOUS
  <2>1. UNCHANGED <<cache, events, changed, todo>> /\ escaped \subseteq escaped'
    BY <1>10 DEF Miss, watcher
  <2>2. PICK S \in {{n}, Touchable(n)} :
          /\ Move(S)
          /\ escaped' = escaped \cup {l \in CachedKeys : \E q \in cache[l].seen : q[1] \in S}
    BY <1>10 DEF Miss
  <2>3. S \in SUBSET Path /\ cache[k].seen \in SUBSET (Path \X Nat)
    BY <2>1, <2>2 DEF Touchable, Archive
  <2>4. r \in Outdated(cache[k].seen) \/ (r \in cache[k].seen /\ r[1] \in S)
    BY <2>1, <2>2, <2>3, MoveMissed DEF Outdated
  <2>5. CASE r \in Outdated(cache[k].seen)
    BY <2>1, <2>5 DEF Accounted, Touchable
  <2>6. CASE r \in cache[k].seen /\ r[1] \in S
    BY <2>1, <2>2, <2>6 DEF Accounted, CachedKeys
  <2> QED BY <2>4, <2>5, <2>6
<1> QED
  BY <1>1, <1>2, <1>3, <1>5, <1>6, <1>7, <1>8, <1>10
  DEF Next, Request, Serve, Invalidate, Handle, GoOn, Hit, Join, StartBuild, Read, Register,
      vars, watcher, history

\* Every stale entry is accounted for: its change is pending, or the running
\* invalidation will drop it, or it is one of the two losses that escape.
THEOREM StaleEntriesAccounted == Spec => []StaleAccounted
<1>1. Init => ScanAccounted /\ StaleAccounted
  BY DEF Init, ScanAccounted, StaleAccounted, Outdated
<1>2. TypeOK /\ ScansInTree /\ (ScanAccounted /\ StaleAccounted) /\ [Next]_vars
        => (ScanAccounted /\ StaleAccounted)'
  BY ScanAccountedStep, StaleAccountedStep
<1> QED BY <1>1, <1>2, TypeCorrect, ScansInTreeInvariant, PTL DEF Spec

-----------------------------------------------------------------------------
LEMMA TrackStep ==
  ASSUME TypeOK, [Next]_vars, NEW p \in Source, Tracked(p)
  PROVE  Tracked(p)' \/ (todo = {} /\ p \in victims)
<1> USE DEF TypeOK, Tracked, IsCached
<1>1. ASSUME NEW t \in Thread, FinishBuild(t) PROVE Tracked(p)'
  <2>1. want[t] \in Key /\ pc'[t] = "registering" /\ want' = want
    BY <1>1 DEF FinishBuild, Answered
  <2>2. CASE want[t][1] = p
    BY <2>1, <2>2
  <2>3. CASE want[t][1] # p
    <3>1. \A f \in Format : cache'[<<p, f>>] = cache[<<p, f>>]
      BY <1>1, <2>3 DEF FinishBuild, Key
    <3>2. \A u \in Thread : pc[u] = "registering" => pc'[u] = "registering"
      BY <1>1 DEF FinishBuild, Answered
    <3> QED BY <1>1, <2>1, <3>1, <3>2 DEF FinishBuild
  <2> QED BY <2>2, <2>3
<1>2. ASSUME NEW t \in Thread, Register(t) PROVE Tracked(p)'
  <2>1. want[t][1] \in cached_keys'
    BY <1>2 DEF Register
  <2>2. CASE p \in cached_keys /\ IsCached(p)
    BY <1>2, <2>2 DEF Register, Retained
  <2>3. CASE p # want[t][1] /\ \E u \in Thread : pc[u] = "registering" /\ want[u][1] = p
    BY <1>2, <2>3 DEF Register
  <2>4. CASE ~ IsCached(p)
    BY <1>2, <2>4 DEF Register
  <2> QED BY <2>1, <2>2, <2>3, <2>4
<1>3. ASSUME NEW k \in Key, cache' = [cache EXCEPT ![k] = None],
             UNCHANGED <<cached_keys, pc, want>>
      PROVE  Tracked(p)'
  <2>1. \A f \in Format : <<p, f>> \in Key
    BY DEF Key
  <2>2. IsCached(p)' => IsCached(p)
    BY <1>3, <2>1
  <2> QED BY <1>3, <2>2
<1>4. ASSUME NEW k \in Key, Evict(k) PROVE Tracked(p)'
  BY <1>3, <1>4 DEF Evict, request
<1>5. ASSUME NEW q \in Source, Drop(q) PROVE Tracked(p)'
  <2> DEFINE k == <<q, IF <<q, "tar">> \in todo THEN "tar" ELSE "zip">>
  <2>1. k \in Key
    BY DEF Key, Format
  <2> QED BY <1>3, <1>5, <2>1 DEF Drop, request
<1>6. CASE Unregister
  BY <1>6 DEF Unregister, request
<1>7. ASSUME NEW t \in Thread, NEW k \in Key, Hit(t, k) \/ Join(t, k) \/ StartBuild(t, k)
      PROVE  Tracked(p)'
  BY <1>7 DEF Hit, Join, StartBuild
<1>8. ASSUME UNCHANGED <<cache, cached_keys, pc, want>> PROVE Tracked(p)'
  BY <1>8
<1> QED
  BY <1>1, <1>2, <1>4, <1>5, <1>6, <1>7, <1>8
  DEF Next, Request, Serve, Invalidate, Handle, GoOn, Change, Miss, Read, Snapshot, vars, request

\* Eviction, pruning and the gap between the insertion and register_key never
\* make the cache forget a cached path; only the end of invalidate may.
THEOREM TrackKept == Spec => OnlyUnregisterLosesTrack
<1>1. TypeOK /\ [Next]_vars =>
        [\A p \in Source : Tracked(p) => Tracked(p)' \/ (todo = {} /\ p \in victims)]_vars
  BY TrackStep
<1> QED BY <1>1, TypeCorrect, PTL DEF Spec, OnlyUnregisterLosesTrack

-----------------------------------------------------------------------------
(***************************************************************************)
(* Single flight.  A key has at most one builder, and no entry while it    *)
(* has one; who waits for a key waits for its builder.                     *)
(***************************************************************************)
OneBuilder == \A t \in Thread : \A k \in Key : Building(t, k) => cache[k] = None

LEMMA WaitersServedStep ==
  ASSUME TypeOK, WaitersServed, OneBuilder, [Next]_vars
  PROVE  WaitersServed' /\ OneBuilder'
<1> USE DEF TypeOK, WaitersServed, OneBuilder, Building
<1>1. ASSUME NEW t \in Thread, NEW k \in Key, Hit(t, k) PROVE WaitersServed' /\ OneBuilder'
  BY <1>1 DEF Hit
<1>2. ASSUME NEW t \in Thread, NEW k \in Key, Join(t, k) PROVE WaitersServed' /\ OneBuilder'
  BY <1>2 DEF Join
<1>3. ASSUME NEW t \in Thread, NEW k \in Key, StartBuild(t, k)
      PROVE  WaitersServed' /\ OneBuilder'
  BY <1>3 DEF StartBuild
<1>4. ASSUME NEW t \in Thread, FinishBuild(t) PROVE WaitersServed' /\ OneBuilder'
  <2>1. /\ want' = want /\ pc[t] = "building" /\ want[t] \in Key
        /\ \A l \in Key : l # want[t] => cache'[l] = cache[l]
    BY <1>4 DEF FinishBuild
  <2>2. \A u \in Thread : /\ pc'[u] = "waiting" => pc[u] = "waiting" /\ want[u] # want[t]
                          /\ pc'[u] = "building" => pc[u] = "building" /\ u # t
                          /\ pc[u] = "building" /\ u # t => pc'[u] = "building"
    BY <1>4 DEF FinishBuild, Answered
  <2>3. \A u \in Thread : pc[u] = "building" /\ u # t => want[u] # want[t]
    BY <2>1
  <2>4. OneBuilder'
    BY <2>1, <2>2, <2>3
  <2>5. WaitersServed'
    BY <2>1, <2>2
  <2> QED BY <2>4, <2>5
<1>5. ASSUME NEW t \in Thread, Register(t) PROVE WaitersServed' /\ OneBuilder'
  BY <1>5 DEF Register
<1>6. ASSUME NEW k \in Key, cache' = [cache EXCEPT ![k] = None], UNCHANGED <<pc, want>>
      PROVE  WaitersServed' /\ OneBuilder'
  BY <1>6
<1>7. ASSUME NEW k \in Key, Evict(k) PROVE WaitersServed' /\ OneBuilder'
  BY <1>6, <1>7 DEF Evict, request
<1>8. ASSUME NEW p \in Source, Drop(p) PROVE WaitersServed' /\ OneBuilder'
  <2> DEFINE k == <<p, IF <<p, "tar">> \in todo THEN "tar" ELSE "zip">>
  <2>1. k \in Key
    BY DEF Key, Format
  <2> QED BY <1>6, <1>8, <2>1 DEF Drop, request
<1>9. ASSUME UNCHANGED <<pc, want, cache>> PROVE WaitersServed' /\ OneBuilder'
  BY <1>9
<1> QED
  BY <1>1, <1>2, <1>3, <1>4, <1>5, <1>7, <1>8, <1>9
  DEF Next, Request, Serve, Invalidate, Handle, GoOn, Change, Miss, Read, Snapshot,
      Unregister, vars, request

LEMMA OneBuilderInvariant == Spec => [](WaitersServed /\ OneBuilder)
<1>1. Init => WaitersServed /\ OneBuilder
  BY DEF Init, WaitersServed, OneBuilder, Building
<1>2. TypeOK /\ (WaitersServed /\ OneBuilder) /\ [Next]_vars => (WaitersServed /\ OneBuilder)'
  BY WaitersServedStep
<1> QED BY <1>1, <1>2, TypeCorrect, PTL DEF Spec

\* No invalidation, eviction or failure leaves a thread waiting for a build that
\* nobody does, and no key is built twice at a time.
THEOREM WaitersAreServed == Spec => []WaitersServed
BY OneBuilderInvariant, PTL
=============================================================================
