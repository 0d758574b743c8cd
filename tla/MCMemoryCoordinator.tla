------------------------ MODULE MCMemoryCoordinator -------------------------
(***************************************************************************)
(* The run of two objects that the threads of a process share and call     *)
(* several steps long: day_52's MemoryCoordinator - of two layers, the     *)
(* episodic one changes and is read in two parts - and day_54's            *)
(* SecureProfileStorage, with an owner, a stranger and an administrator,   *)
(* and the profile of the owner or the one that has no user_id.  Which of  *)
(* the two, and which profile, is chosen at the start: the state space is  *)
(* the disjoint union of the three.                                        *)
(***************************************************************************)
EXTENDS MemoryCoordinator, ProfileStorage, TLC

CONSTANTS t1, t2, e1, e2, admin, alice, bob, nobody

TwoThreads == {t1, t2}
Interchangeable == Permutations(TwoThreads)

\* "coordinator", or the user_id of the one profile in use.
VARIABLE workload

MCInit == /\ Init /\ StorageInit
          /\ workload \in {"coordinator"} \cup Owners
          /\ \A c \in Clients : of[c] = IF workload \in Owners THEN workload ELSE alice

OneProfile ==
  \A c \in Clients : /\ of'[c] = workload
                     /\ request'[c] # Missing => request'[c].user = workload

\* Bound: one client at a time uses the profile that has no user_id.
Using == {c \in Clients : token[c] # Missing \/ copy[c] # Missing \/ request[c] # Missing}
AloneWithNobody == workload = NoId => Cardinality(Using') <= 1

\* Bound: an update is refused only while no other refused attributes are left
\* in an object or in the row.
Invalid == {t \in Threads : copy[t] # Missing /\ ~copy[t].valid}
InvalidRow == \E u \in Owners : rows[u] # Missing /\ ~rows[u].valid
RefusedOnce == Invalid' \subseteq Invalid \/ (Invalid = {} /\ ~InvalidRow)

MCNext == /\ UNCHANGED workload
          /\ \/ workload = "coordinator" /\ Next /\ UNCHANGED storage
             \/ /\ workload \in Owners /\ StorageNext
                /\ OneProfile /\ AloneWithNobody /\ RefusedOnce
                /\ UNCHANGED vars

MCSpec == MCInit /\ [][MCNext]_<<vars, storage, workload>>
=============================================================================
