---------------------------- MODULE CacheHistory ----------------------------
(***************************************************************************)
(* ArchiveCache with a record of what clients have been shown: for every   *)
(* path the newest version that was read for a result ever published under *)
(* a key, whether it is still cached or not.                               *)
(***************************************************************************)
EXTENDS ArchiveCache

VARIABLE shown

historyVars == <<vars, shown>>

Newest(reads) == {r \in reads : \A q \in reads : q[1] = r[1] => q[2] <= r[2]}

\* What an entry of the cache holds is what its requests are answered with.
Record == shown' = [k \in Key |-> IF cache'[k] = None THEN shown[k]
                                  ELSE Newest(shown[k] \cup cache'[k].seen)]

HistorySpec == /\ Init /\ shown = [k \in Key |-> {}]
               /\ [][Next /\ Record]_historyVars /\ Fairness

(***************************************************************************)
(* Time does not run backwards for the clients of a source: at no path is  *)
(* an archive older than one that was published before it under the same   *)
(* key, though scans take their time, are overtaken by invalidations, and  *)
(* entries are dropped and built again while others still read.            *)
(***************************************************************************)
NoOlder(reads, before) == \A r \in reads, q \in before : q[1] = r[1] => q[2] <= r[2]

NeverOlder == \A k \in CachedKeys : NoOlder(cache[k].seen, shown[k])
=============================================================================
