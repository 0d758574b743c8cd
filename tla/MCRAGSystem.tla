----------------------------- MODULE MCRAGSystem -----------------------------
(***************************************************************************)
(* The run of day_53.  One of four workloads is chosen at the start: two   *)
(* facts are indexed while another process may delete the collection       *)
(* ("index"); queries over two documents of the caller's ("query"); two    *)
(* processes embed texts with one cache directory ("shared"); one process  *)
(* embeds up to three texts in batches of two ("batches").  The state      *)
(* space is the disjoint union of the four.                                *)
(***************************************************************************)
EXTENDS RAGSystem, EmbeddingCache, TLC

CONSTANTS own, other, f1, f2, d1, d2, t1, t2, p1, p2, c1, c2, c3

VARIABLE workload

TwoStores == {own, other}
FourDocs == {f1, f2, d1, d2}
TwoFacts == {f1, f2}
TwoTexts == {t1, t2}
TwoProcesses == {p1, p2}
ThreeInputs == {c1, c2, c3}

MCInit == /\ Init /\ CacheInit
          /\ workload \in {"index", "query", "shared", "batches"}

\* The documents and the texts of the workload.
Indexed == \A d \in {d1, d2} : docs'[d] = None
Queried == /\ \A f \in TwoFacts : docs'[f] = None /\ table'[f] = None
           /\ \A d \in {d1, d2} : docs'[d] # t2

\* Two texts in all; or one process that makes calls, while the other may clear
\* the cache.
Embedded == IF workload = "shared"
            THEN \A p \in {p1, p2} : /\ Len(call'[p].texts) <= 2
                                     /\ \A i \in 1..Len(call'[p].texts) : call'[p].texts[i] # c3
            ELSE call'[p2] = call[p2]

MCNext ==
  /\ UNCHANGED workload
  /\ \/ /\ workload = "index" /\ Next /\ Indexed /\ stats'.total = 0
        /\ UNCHANGED caches
     \/ workload = "query" /\ Next /\ Queried /\ UNCHANGED caches
     \/ /\ workload \in {"shared", "batches"} /\ CacheNext /\ Embedded
        /\ UNCHANGED vars

MCSpec == MCInit /\ [][MCNext]_<<vars, caches, workload>>

Interchangeable == Permutations({c1, c2}) \cup Permutations(TwoTexts)
=============================================================================
