-------------------------- MODULE MCKnowledgeGraph --------------------------
(* Three nodes and three edges, two edge types: enough for a two-edge path *)
(* beside a one-edge one, self-loops, parallel and opposite edges.         *)
EXTENDS GraphSearch, TLC

CONSTANTS n1, n2, n3, e1, e2, e3, l1, l2, nt1, et1, et2

MCNodeIds == {n1, n2, n3}
MCEdgeIds == {e1, e2, e3}
MCLabels == {l1, l2}
MCNodeTypes == {nt1}
MCEdgeTypes == {et1, et2}
Interchangeable == Permutations(MCNodeIds) \cup Permutations(MCEdgeIds)
=============================================================================
