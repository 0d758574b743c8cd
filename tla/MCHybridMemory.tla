--------------------------- MODULE MCHybridMemory ---------------------------
(***************************************************************************)
(* The runs of day_49 and day_51's HybridMemory.  One of three workloads   *)
(* is chosen at the start: the event store alone, three events over three  *)
(* timestamps ("events"); the hybrid memory, two ids that are free to name *)
(* an item of every source ("hybrid"); the experience tracker              *)
(* ("experiences").  The state space is the disjoint union of the three.   *)
(***************************************************************************)
EXTENDS HybridMemory, ExperienceTracker, TLC

CONSTANTS v1, v2, v3,
          Workloads

MCEventIds == {v1, v2, v3}
TwoIds == {v1, v2}
MCOtherIds == [s \in {"experience", "fact", "node"} |-> TwoIds]
Interchangeable == Permutations(TwoIds)

\* Tenths; a score of 11 is out of range.
SomeScores == {2, 9, 11}

VARIABLE workload

MCInit == HybridInit /\ TrackerInit /\ workload \in Workloads

MCNext ==
  /\ UNCHANGED workload
  /\ \/ workload = "events" /\ Next /\ UNCHANGED <<held, links, trackerVars>>
     \/ /\ workload = "hybrid" /\ HybridNext /\ UNCHANGED trackerVars
        /\ events'[v3] = None /\ \A v \in TwoIds : events'[v] # MaxTime
     \/ workload = "experiences" /\ TrackerNext /\ UNCHANGED hybridVars

MCSpec == MCInit /\ [][MCNext]_<<hybridVars, trackerVars, workload>>
=============================================================================
