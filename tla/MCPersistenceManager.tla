------------------------ MODULE MCPersistenceManager ------------------------
(***************************************************************************)
(* Model values for the runs of day_48.  PersistenceSolo runs one manager. *)
(* PersistenceShared runs two managers on one row or, chosen at the start, *)
(* the two backends of MemoryStorage under the same calls: its state space *)
(* is the disjoint union of the two.                                       *)
(***************************************************************************)
EXTENDS PersistenceManager, MemoryStorage, TLC

CONSTANTS m1, m2, a, u1, u2, c1, c2, t1, t2, Workloads,
          seven, numeral,      \* the contents 7 and "7"
          plain, handle,       \* metadata that JSON keeps, and that it refuses
          x, y

OneManager == {m1}
TwoManagers == {m1, m2}
TwoTags == {t1, t2}

TwoMemories == {x, y}

\* str(7) is "7"; json.dumps raises TypeError for a handle.
MCStr == [t \in Texts |-> numeral]
MCJson == [k \in Keys |-> IF k = handle THEN NoMemory ELSE plain]

\* The managers are interchangeable, and so are the metadata keys, and the ids
\* of the backends' memories.
Interchangeable == Permutations(TwoManagers) \cup Permutations(TwoTags) \cup Permutations(TwoMemories)

VARIABLE workload

MCInit == Init /\ StoresInit /\ workload \in Workloads

MCNext ==
  /\ UNCHANGED workload
  /\ \/ workload = "managers" /\ Next /\ UNCHANGED backends
     \/ workload = "backends" /\ StoresNext /\ UNCHANGED vars

SharedSpec == MCInit /\ [][MCNext]_<<vars, backends, workload>>

\* With the fairness of Spec.
SoloSpec == SharedSpec /\ \A m \in Managers : WF_vars(Step(m))
=============================================================================
