-------------------------- MODULE MCRAGIntegration --------------------------
(***************************************************************************)
(* The run of day_50's fact store and of the retrieval over it.  A         *)
(* workload is chosen at the start: the fact store alone on three facts    *)
(* ("facts"); two facts, a document id of the caller's, batches and a      *)
(* reopened collection ("mirror"); three facts of one subject, indexed,    *)
(* with any relationships ("retrieve").  The state space is the disjoint   *)
(* union of the three.                                                     *)
(***************************************************************************)
EXTENDS RAGIntegration, TLC

CONSTANTS f1, f2, f3, s1, s2, p1, o1, o2, t1, d1

ThreeFacts == {f1, f2, f3}
TwoSubjects == {s1, s2}

Interchangeable == Permutations(ThreeFacts)

Workloads ==
  {[kind |-> "facts", ids |-> ThreeFacts, subjects |-> TwoSubjects, objects |-> {o1, o2}],
   [kind |-> "retrieve", ids |-> ThreeFacts, subjects |-> {s1}, objects |-> {o1}]}
  \cup {[kind |-> "mirror", ids |-> ids, subjects |-> {s1}, objects |-> {o1}] :
           ids \in {{f1, f2}, {f1, f3}, {f2, f3}}}

VARIABLE workload

MCInit == RAGInit /\ workload \in Workloads

\* The ids and the fields of the workload.
Within == \A f \in FactIds : facts'[f] # None =>
             /\ f \in workload.ids
             /\ facts'[f].subject \in workload.subjects
             /\ facts'[f].object \in workload.objects

MCNext ==
  /\ UNCHANGED workload
  /\ \/ FactStep /\ Within
     \/ /\ workload.kind = "retrieve"
        /\ \E f \in FactIds : IndexFact(f) /\ docs'[d1] = None
     \/ /\ workload.kind = "mirror"
        /\ \/ Reopen
           \/ AddBatch /\ \A f \in FactIds \ workload.ids : docs'[f] = None
           \/ \E f \in FactIds : IndexFact(f)
           \/ \E d \in Docs : DeleteDocument(d)
           \/ \E d \in Names : IndexText(d)

MCSpec == MCInit /\ [][MCNext]_<<vars, mirror, workload>>
=============================================================================
