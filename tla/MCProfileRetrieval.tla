------------------------- MODULE MCProfileRetrieval -------------------------
(***************************************************************************)
(* The run of ProfileRetrieval.  One of two workloads is chosen at the     *)
(* start: profiles and batches of two users through the LRU cache          *)
(* ("lookups"), or preferences, metadata and a search for one user through *)
(* the TTL caches ("queries").                                             *)
(***************************************************************************)
EXTENDS ProfileRetrieval, TLC

CONSTANTS t1, t2, c1, c2, u1, u2, v1

TwoThreads == {t1, t2}
TwoConns == {c1, c2}
AllKinds == {"profile", "prefs", "meta", "search"}
SizeOne == [s \in Stores |-> 1]
Interchangeable == Permutations(TwoThreads) \cup Permutations(TwoConns)

VARIABLE workload

MCInit == Init /\ workload \in {"lookups", "queries"}

\* The calls of the workload.  Reads past the cache are made of one user in
\* lookups only, and close is called in queries only.
Uncached(c) == c.user = None /\ c.step \in {"acquire", "select"} /\ ~c.keep

Allowed(c) ==
  LET keys == c.look \cup c.miss IN
  IF workload = "lookups"
  THEN /\ \A k \in keys : k[1] = "profile"
       /\ Uncached(c) => keys = {<<"profile", u2>>}
  ELSE /\ \A k \in keys : k[1] # "profile" /\ k[2] # u2
       /\ ~Uncached(c)
       /\ c.user # u2

MCNext == /\ UNCHANGED workload
          /\ \/ \E t \in Threads : Step(t) /\ Allowed(call'[t])
             \/ \E k \in Keys : Expire(k)
             \/ \E s \in TTLStores : GetPerformanceMetrics(s)
             \/ workload = "queries" /\ Close

MCSpec == MCInit /\ [][MCNext]_<<vars, workload>>
=============================================================================
