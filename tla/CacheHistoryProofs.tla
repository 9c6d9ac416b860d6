------------------------- MODULE CacheHistoryProofs -------------------------
(***************************************************************************)
(* What the clients of the archive cache are shown over time, for every    *)
(* set of threads and paths, every bound on the changes and every capacity *)
(* of the cache.                                                           *)
(***************************************************************************)
EXTENDS CacheHistory, ArchiveCacheProofs

(***************************************************************************)
(* The inductive invariant.  Nothing that was shown is ahead of the file   *)
(* system, so that what is read now is no older; and since a key has one   *)
(* builder and no entry meanwhile, nothing is published between the reads  *)
(* of a scan and its own publication.                                      *)
(***************************************************************************)
ReadOnce(seen) == \A r, q \in seen : q[1] = r[1] => q = r

NotAhead(seen) == \A r \in seen : r[2] <= fs[r[1]]

NotAheadOfFs == \A k \in Key : \A q \in shown[k] : q[2] <= fs[q[1]]

ScansNoOlder == \A t \in Thread : /\ ReadOnce(scan[t]) /\ NotAhead(scan[t])
                                  /\ \A k \in Key : Building(t, k) => NoOlder(scan[t], shown[k])

EntriesShown == \A k \in CachedKeys : cache[k].seen \subseteq shown[k]

ShownInv == /\ shown \in [Key -> SUBSET (Path \X Nat)]
            /\ \A k \in Key : ReadOnce(shown[k])
            /\ NotAheadOfFs
            /\ ScansNoOlder
            /\ EntriesShown
            /\ NeverOlder

\* What the proof uses of the cache itself.
CacheInv == TypeOK /\ ScansInTree /\ WaitersServed /\ OneBuilder

-----------------------------------------------------------------------------
\* Nothing in a set that has one version of each path is outdone.
LEMMA AllNewest ==
  ASSUME NEW S \in SUBSET (Path \X Nat), ReadOnce(S)
  PROVE  Newest(S) = S
BY DEF Newest, ReadOnce

\* What is no older than what was shown replaces it.
LEMMA NewestShown ==
  ASSUME NEW S \in SUBSET (Path \X Nat), NEW T \in SUBSET (Path \X Nat), ReadOnce(T), NoOlder(T, S)
  PROVE  /\ Newest(S \cup T) \subseteq S \cup T
         /\ T \subseteq Newest(S \cup T)
         /\ ReadOnce(Newest(S \cup T))
<1>1. \A r \in S \cup T : r[1] \in Path /\ r[2] \in Nat /\ r = <<r[1], r[2]>>
  OBVIOUS
<1>2. Newest(S \cup T) \subseteq S \cup T
  BY DEF Newest
<1>3. T \subseteq Newest(S \cup T)
  <2> SUFFICES ASSUME NEW r \in T, NEW q \in S \cup T, q[1] = r[1] PROVE q[2] <= r[2]
    BY DEF Newest
  <2>1. CASE q \in S
    BY <2>1 DEF NoOlder
  <2>2. CASE q \in T
    BY <1>1, <2>2 DEF ReadOnce
  <2> QED BY <2>1, <2>2
<1>4. ASSUME NEW r \in Newest(S \cup T), NEW q \in Newest(S \cup T), q[1] = r[1] PROVE q = r
  <2>1. r \in S \cup T /\ q \in S \cup T /\ q[2] <= r[2] /\ r[2] <= q[2]
    BY <1>4 DEF Newest
  <2>2. q[2] = r[2]
    BY <1>1, <2>1
  <2> QED BY <1>1, <1>4, <2>1, <2>2
<1> QED BY <1>2, <1>3, <1>4 DEF ReadOnce

\* A step that publishes nothing shows nothing.
LEMMA NothingShown ==
  ASSUME CacheInv, ShownInv, Record,
         \A k \in Key : cache'[k] # None => cache'[k] = cache[k]
  PROVE  shown' = shown
<1>1. ASSUME NEW k \in Key, cache'[k] # None PROVE Newest(shown[k] \cup cache'[k].seen) = shown[k]
  <2>1. shown[k] \cup cache'[k].seen = shown[k]
    BY <1>1 DEF ShownInv, EntriesShown, CachedKeys
  <2>2. Newest(shown[k]) = shown[k]
    BY AllNewest DEF ShownInv
  <2> QED BY <2>1, <2>2
<1> QED BY <1>1 DEF Record, ShownInv

\* Nor does it make anything older, if no scan reads and versions do not go back.
LEMMA NothingOlder ==
  ASSUME CacheInv, ShownInv, shown' = shown,
         \A k \in Key : cache'[k] # None => cache'[k] = cache[k],
         \A n \in Path : fs'[n] \in Nat /\ fs[n] <= fs'[n],
         \A t \in Thread : scan'[t] = scan[t],
         \A t \in Thread : \A k \in Key : Building(t, k)' => Building(t, k) \/ scan[t] = {}
  PROVE  ShownInv'
<1>1. NotAheadOfFs'
  <2> SUFFICES ASSUME NEW k \in Key, NEW q \in shown[k] PROVE q[2] <= fs'[q[1]]
    BY DEF NotAheadOfFs
  <2>1. q[1] \in Path /\ q[2] \in Nat /\ q[2] <= fs[q[1]] /\ fs[q[1]] \in Nat
    BY DEF ShownInv, NotAheadOfFs, CacheInv, TypeOK
  <2> QED BY <2>1
<1>2. ScansNoOlder'
  <2>1. ASSUME NEW t \in Thread PROVE NotAhead(scan[t])'
    <3>1. \A r \in scan[t] : r[1] \in Path /\ r[2] \in Nat /\ r[2] <= fs[r[1]] /\ fs[r[1]] \in Nat
      BY DEF ShownInv, ScansNoOlder, NotAhead, CacheInv, TypeOK
    <3> QED BY <3>1 DEF NotAhead
  <2> QED BY <2>1 DEF ShownInv, ScansNoOlder, ReadOnce, NoOlder
<1>3. EntriesShown' /\ NeverOlder'
  <2>1. \A k \in CachedKeys' : k \in CachedKeys /\ cache'[k] = cache[k]
    BY DEF CachedKeys
  <2> QED BY <2>1 DEF ShownInv, EntriesShown, NeverOlder, NoOlder
<1> QED BY <1>1, <1>2, <1>3 DEF ShownInv

LEMMA ReadShown ==
  ASSUME CacheInv, ShownInv, Record, NEW t \in Thread, NEW n \in Path, Read(t, n)
  PROVE  ShownInv'
<1> USE DEF CacheInv, TypeOK
<1>1. UNCHANGED <<fs, cache, pc, want>> /\ scan' = [scan EXCEPT ![t] = @ \cup {<<n, fs[n]>>}]
  BY DEF Read
<1>2. shown' = shown
  BY <1>1, NothingShown
<1>3. ScansNoOlder'
  <2> SUFFICES ASSUME NEW u \in Thread
               PROVE  /\ ReadOnce(scan'[u]) /\ NotAhead(scan[u])'
                      /\ \A k \in Key : Building(u, k)' => NoOlder(scan'[u], shown[k])
    BY <1>2 DEF ScansNoOlder, ReadOnce, NoOlder
  <2>1. CASE u # t
    <3>1. scan'[u] = scan[u] /\ \A k \in Key : Building(u, k)' <=> Building(u, k)
      BY <1>1, <2>1 DEF Building
    <3> QED BY <1>1, <3>1 DEF ShownInv, ScansNoOlder, NotAhead
  <2>2. CASE u = t
    <3>1. \A r \in scan'[t] : r \in scan[t] \/ r = <<n, fs[n]>>
      BY <1>1
    <3>2. \A r \in scan[t] : r[1] # n
      BY DEF Read, HasRead
    <3>3. ReadOnce(scan'[t])
      BY <3>1, <3>2 DEF ShownInv, ScansNoOlder, ReadOnce
    <3>4. ASSUME NEW k \in Key, Building(t, k)' PROVE NoOlder(scan'[t], shown[k])
      <4>1. NoOlder(scan[t], shown[k])
        BY <1>1, <3>4 DEF ShownInv, ScansNoOlder, Building
      <4>2. \A q \in shown[k] : q[2] <= fs[q[1]]
        BY DEF ShownInv, NotAheadOfFs
      <4> QED BY <3>1, <4>1, <4>2 DEF NoOlder
    <3>5. NotAhead(scan[t])'
      BY <1>1, <3>1 DEF ShownInv, ScansNoOlder, NotAhead
    <3> QED BY <2>2, <3>3, <3>4, <3>5
  <2> QED BY <2>1, <2>2
<1> QED BY <1>1, <1>2, <1>3 DEF ShownInv, NotAheadOfFs, EntriesShown, NeverOlder, NoOlder, CachedKeys

LEMMA PublishShown ==
  ASSUME CacheInv, ShownInv, Record, NEW t \in Thread, FinishBuild(t)
  PROVE  ShownInv'
<1> USE DEF CacheInv, TypeOK
<1>1. PICK k \in Key : k = want[t] /\ Building(t, k)
  BY DEF FinishBuild, Building
<1>2. /\ fs' = fs /\ want' = want
      /\ cache'[k] # None /\ cache'[k].seen = scan[t]
      /\ \A l \in Key : l # k => cache'[l] = cache[l]
      /\ \A u \in Thread : scan'[u] = IF u = t THEN {} ELSE scan[u]
      /\ \A u \in Thread : pc'[u] = "building" => pc[u] = "building" /\ u # t
  <2>1. [seen |-> scan[t]] \in Archive
    BY DEF Archive
  <2> QED BY <1>1, <2>1, CacheAssumption DEF FinishBuild, Answered
<1>3. \A l \in Key : l # k => shown'[l] = shown[l]
  <2> SUFFICES ASSUME NEW l \in Key, l # k, cache[l] # None
               PROVE  Newest(shown[l] \cup cache[l].seen) = shown[l]
    BY <1>2 DEF Record
  <2>1. shown[l] \cup cache[l].seen = shown[l]
    BY DEF ShownInv, EntriesShown, CachedKeys
  <2> QED BY <2>1, AllNewest DEF ShownInv
<1>4. scan[t] \in SUBSET (Path \X Nat) /\ \A r \in scan[t] : r[2] <= fs[r[1]]
  <2>1. \A r \in scan[t] : r[2] <= fs[r[1]]
    BY DEF ShownInv, ScansNoOlder, NotAhead
  <2> QED BY <2>1
<1>10. /\ shown'[k] \subseteq shown[k] \cup scan[t] /\ scan[t] \subseteq shown'[k]
       /\ ReadOnce(shown'[k])
  <2>1. shown'[k] = Newest(shown[k] \cup scan[t])
    BY <1>2 DEF Record
  <2>2. ReadOnce(scan[t]) /\ NoOlder(scan[t], shown[k])
    BY <1>1 DEF ShownInv, ScansNoOlder
  <2>3. shown[k] \in SUBSET (Path \X Nat)
    BY DEF ShownInv
  <2>4. PICK S \in SUBSET (Path \X Nat) : S = shown[k]
    BY <2>3
  <2>5. PICK T \in SUBSET (Path \X Nat) : T = scan[t]
    BY <1>4
  <2>6. ReadOnce(T) /\ NoOlder(T, S)
    BY <2>2, <2>4, <2>5
  <2>7. Newest(S \cup T) \subseteq S \cup T /\ T \subseteq Newest(S \cup T)
        /\ ReadOnce(Newest(S \cup T))
    BY <2>6, NewestShown
  <2> QED BY <2>1, <2>4, <2>5, <2>7
<1>5. shown' \in [Key -> SUBSET (Path \X Nat)]
  <2>1. shown' = [l \in Key |-> shown'[l]]
    BY DEF Record
  <2>2. \A l \in Key : shown'[l] \in SUBSET (Path \X Nat)
    BY <1>3, <1>4, <1>10 DEF ShownInv
  <2> QED BY <2>1, <2>2
<1>11. \A l \in Key : ReadOnce(shown'[l])
  BY <1>3, <1>10 DEF ShownInv
<1>6. NotAheadOfFs'
  BY <1>2, <1>3, <1>4, <1>10 DEF ShownInv, NotAheadOfFs
<1>7. ScansNoOlder'
  <2> SUFFICES ASSUME NEW u \in Thread
               PROVE  /\ ReadOnce(scan'[u]) /\ NotAhead(scan[u])'
                      /\ \A l \in Key : Building(u, l)' => NoOlder(scan'[u], shown'[l])
    BY DEF ScansNoOlder, ReadOnce, NoOlder
  <2>1. CASE u = t
    BY <1>2, <2>1 DEF ReadOnce, NoOlder, NotAhead
  <2>2. CASE u # t
    <3>1. \A l \in Key : Building(u, l)' => Building(u, l) /\ l # k
      BY <1>1, <1>2, <2>2 DEF Building, WaitersServed
    <3> QED BY <1>2, <1>3, <2>2, <3>1 DEF ShownInv, ScansNoOlder, NotAhead
  <2> QED BY <2>1, <2>2
<1>8. EntriesShown'
  BY <1>2, <1>3, <1>10 DEF ShownInv, EntriesShown, CachedKeys
<1>9. NeverOlder'
  <2> SUFFICES ASSUME NEW l \in CachedKeys' PROVE NoOlder(cache'[l].seen, shown'[l])
    BY DEF NeverOlder, NoOlder
  <2>1. CASE l = k
    <3>1. NoOlder(scan[t], shown[k]) /\ ReadOnce(scan[t])
      BY <1>1 DEF ShownInv, ScansNoOlder
    <3>2. \A r \in scan[t] : r[2] \in Nat
      BY <1>4
    <3> QED BY <1>2, <1>4, <1>10, <2>1, <3>1, <3>2 DEF NoOlder, ReadOnce
  <2>2. CASE l # k
    BY <1>2, <1>3, <2>2 DEF ShownInv, NeverOlder, CachedKeys
  <2> QED BY <2>1, <2>2
<1> QED BY <1>5, <1>6, <1>7, <1>8, <1>9, <1>11 DEF ShownInv, ReadOnce

\* Every step keeps the invariant.
LEMMA ShownStep ==
  ASSUME CacheInv, ShownInv, [Next /\ Record]_historyVars
  PROVE  ShownInv'
<1> USE DEF CacheInv, TypeOK
<1>1. ASSUME NEW S \in SUBSET Path, Move(S), Record, UNCHANGED <<cache, request>> PROVE ShownInv'
  <2>1. \A n \in Path : fs'[n] \in Nat /\ fs[n] <= fs'[n]
    BY <1>1 DEF Move
  <2>2. shown' = shown
    BY <1>1, NothingShown
  <2> QED BY <1>1, <2>1, <2>2, NothingOlder DEF request, Building
<1>2. ASSUME NEW n \in Path, Change(n) \/ Miss(n), Record PROVE ShownInv'
  <2>1. PICK S \in SUBSET Path : Move(S)
    BY <1>2 DEF Change, Miss, Moved, Touchable
  <2> QED BY <1>1, <1>2, <2>1 DEF Change, Miss
<1>3. ASSUME Record, UNCHANGED <<fs, scan>>,
             \A k \in Key : cache'[k] # None => cache'[k] = cache[k],
             \A t \in Thread : \A k \in Key : Building(t, k)' => Building(t, k) \/ scan[t] = {}
      PROVE  ShownInv'
  <2>1. shown' = shown
    BY <1>3, NothingShown
  <2>2. \A n \in Path : fs'[n] \in Nat /\ fs[n] <= fs'[n]
    BY <1>3
  <2> QED BY <1>3, <2>1, <2>2, NothingOlder
<1>4. ASSUME NEW t \in Thread, NEW k \in Key, Hit(t, k) \/ Join(t, k) \/ StartBuild(t, k), Record
      PROVE  ShownInv'
  <2>1. UNCHANGED <<fs, scan, cache>> /\ pc[t] = "idle"
    BY <1>4 DEF Hit, Join, StartBuild
  <2>2. scan[t] = {}
    BY <2>1 DEF ScansInTree, ScansOf
  <2>3. \A u \in Thread : u # t => pc'[u] = pc[u] /\ want'[u] = want[u]
    BY <1>4 DEF Hit, Join, StartBuild
  <2> QED BY <1>3, <1>4, <2>1, <2>2, <2>3 DEF Building
<1>5. ASSUME NEW t \in Thread, Register(t), Record PROVE ShownInv'
  BY <1>3, <1>5 DEF Register, Building
<1>6. ASSUME NEW k \in Key, cache' = [cache EXCEPT ![k] = None], UNCHANGED <<fs, request>>, Record
      PROVE  ShownInv'
  BY <1>3, <1>6 DEF request, Building
<1>7. ASSUME NEW k \in Key, Evict(k), Record PROVE ShownInv'
  BY <1>6, <1>7 DEF Evict
<1>8. ASSUME NEW p \in Source, Drop(p), Record PROVE ShownInv'
  <2> DEFINE k == <<p, IF <<p, "tar">> \in todo THEN "tar" ELSE "zip">>
  <2>1. k \in Key
    BY DEF Key, Format
  <2> QED BY <1>6, <1>8, <2>1 DEF Drop
<1>9. ASSUME Record, UNCHANGED <<fs, cache, request>> PROVE ShownInv'
  BY <1>3, <1>9 DEF request, Building
<1>10. CASE UNCHANGED historyVars
  BY <1>10 DEF historyVars, vars, request, ShownInv, NotAheadOfFs, ScansNoOlder, ReadOnce, NotAhead,
               Building, NoOlder, EntriesShown, NeverOlder, CachedKeys
<1> QED
  BY <1>2, <1>4, <1>5, <1>7, <1>8, <1>9, <1>10, ReadShown, PublishShown
  DEF Next, Request, Serve, Invalidate, Handle, GoOn, Snapshot, Unregister

\* What clients are sent of a source never goes back in time, neither within
\* nor across the entries its archives are cached in.
THEOREM ArchivesNeverOlder == HistorySpec => []NeverOlder
<1>1. Init /\ shown = [k \in Key |-> {}] => CacheInv /\ ShownInv
  <2>1. Init => CacheInv
    BY CacheAssumption
    DEF Init, CacheInv, TypeOK, ScansInTree, ScansOf, WaitersServed, OneBuilder, Building
  <2>2. Init /\ shown = [k \in Key |-> {}] => ShownInv
    BY DEF Init, ShownInv, NotAheadOfFs, ScansNoOlder, ReadOnce, NotAhead, NoOlder, Building,
           EntriesShown, NeverOlder, CachedKeys
  <2> QED BY <2>1, <2>2
<1>2. CacheInv /\ ShownInv /\ [Next /\ Record]_historyVars => CacheInv' /\ ShownInv'
  <2> SUFFICES ASSUME CacheInv, ShownInv, [Next /\ Record]_historyVars
               PROVE  CacheInv' /\ ShownInv'
    OBVIOUS
  <2>1. [Next]_vars
    BY DEF historyVars
  <2> QED BY <2>1, TypeStep, ScansInTreeStep, WaitersServedStep, ShownStep DEF CacheInv
<1>3. ShownInv => NeverOlder
  BY DEF ShownInv
<1> QED BY <1>1, <1>2, <1>3, PTL DEF HistorySpec
=============================================================================
