----------------------------- MODULE GraphSearch -----------------------------
(***************************************************************************)
(* The traversals of day_50/knowledge_graph.py on the graphs its other     *)
(* methods build: neighbors, bfs and find_path, each with its edge_type    *)
(* filter and its max_depth.                                               *)
(***************************************************************************)
EXTENDS KnowledgeGraph, Sequences, FiniteSets, Functions

ASSUME FiniteAssumption == IsFiniteSet(NodeIds)

Directions == {"out", "in", "both"}

Neighbors(n, direction, type) ==
  LET matching(E) == {e \in E : type \in {None, edges[e].edge_type}}
      out == {edges[e].target_id : e \in matching(outgoing[n])}
      in == {edges[e].source_id : e \in matching(incoming[n])}
  IN  (IF direction \in {"out", "both"} THEN out ELSE {}) \cup
      (IF direction \in {"in", "both"} THEN in ELSE {})

\* bfs: the nodes listed at each depth up to max_depth.
Bfs(start, maxDepth, type, direction) ==
  LET search[d \in 0..maxDepth] ==
        IF d = 0 THEN [level |-> {start}, visited |-> {start}]
        ELSE LET prev == search[d - 1]
                 next == (UNION {Neighbors(n, direction, type) : n \in prev.level})
                           \ prev.visited
             IN  [level |-> next, visited |-> prev.visited \cup next]
  IN  [d \in 1..maxDepth |-> search[d].level]

\* created_at: the order in which the nodes were created.
Orders == {created \in [NodeIds -> 1..Cardinality(NodeIds)] : IsInjective(created)}
InOrder(ids, created) == CHOOSE s \in [1..Cardinality(ids) -> ids] :
                           \A k, l \in DOMAIN s : k < l => created[s[k]] < created[s[l]]

\* find_path: a queue of paths.  A round takes the first path; unless it is
\* max_depth edges long it is extended by the neighbours of its last node: by
\* the end, and that is the answer, or by each that is seen for the first time,
\* in the order they were created.
Taken(state) == [state EXCEPT !.queue = Tail(@)]
Found(state, end) == [state EXCEPT !.found = Append(Head(state.queue), end)]
Extended(state, ids, created) ==
  LET new == InOrder(ids \ state.visited, created) IN
  [state EXCEPT !.queue = Tail(@) \o [k \in DOMAIN new |-> Append(Head(@), new[k])],
                !.visited = @ \cup ids]

Reached(state, type) == LET path == Head(state.queue) IN Neighbors(path[Len(path)], "out", type)

\* Seeded fault: a path is extended beyond max_depth.
RoundTooDeep(state, end, type, maxDepth, created) ==
  IF Len(Head(state.queue)) - 1 > maxDepth THEN Taken(state)
  ELSE IF end \in Reached(state, type) THEN Found(state, end)
  ELSE Extended(state, Reached(state, type), created)

Round(state, end, type, maxDepth, created) ==
  IF Len(Head(state.queue)) - 1 >= maxDepth THEN Taken(state)
  ELSE IF end \in Reached(state, type) THEN Found(state, end)
  ELSE Extended(state, Reached(state, type), created)

\* A node is queued at most once: as many rounds as there are ids suffice.
FindPath(start, end, type, maxDepth, created) ==
  LET run[k \in 0..Cardinality(NodeIds)] ==
        IF k = 0 THEN [queue |-> <<<<start>>>>, visited |-> {start}, found |-> <<>>]
        ELSE LET state == run[k - 1] IN
             IF state.queue = <<>> \/ state.found # <<>> THEN state
             ELSE Round(state, end, type, maxDepth, created)
  IN  IF start = end THEN <<start>> ELSE run[Cardinality(NodeIds)].found

-----------------------------------------------------------------------------
(* Properties.                                                             *)

Steps(direction, type) ==
  {<<edges[e].source_id, edges[e].target_id>> :
     e \in {e \in EdgesIn : direction # "in" /\ type \in {None, edges[e].edge_type}}}
  \cup
  {<<edges[e].target_id, edges[e].source_id>> :
     e \in {e \in EdgesIn : direction # "out" /\ type \in {None, edges[e].edge_type}}}

\* The nodes at the end of some walk of at most k steps.
Within(start, k, steps) ==
  LET reach[j \in 0..k] == IF j = 0 THEN {start}
                           ELSE reach[j - 1] \cup
                                {p[2] : p \in {p \in steps : p[1] \in reach[j - 1]}}
  IN  reach[k]

\* bfs lists each reachable node once, at its distance from the start.
BfsByDistance(depth) ==
  \A start \in NodesIn, type \in EdgeTypes \cup {None}, dir \in Directions :
    LET steps == Steps(dir, type)  found == Bfs(start, depth, type, dir) IN
    \A d \in 1..depth : found[d] = Within(start, d, steps) \ Within(start, d - 1, steps)

\* find_path returns a path of the graph from start to end that no walk is
\* shorter than, and returns none only when no walk has max_depth edges or less,
\* in whatever order the nodes were created.
PathIsShortest(depth) ==
  \A start, end \in NodesIn, type \in EdgeTypes \cup {None}, created \in Orders :
    LET path == FindPath(start, end, type, depth, created)
        steps == Steps("out", type)
    IN  IF path = <<>>
        THEN end \notin Within(start, depth, steps)
        ELSE /\ path[1] = start /\ path[Len(path)] = end
             /\ \A i \in 1..Len(path) - 1 : <<path[i], path[i + 1]>> \in steps
             /\ Len(path) - 1 <= depth
             /\ Len(path) > 1 => end \notin Within(start, Len(path) - 2, steps)

\* bfs and find_path both find what the walks of the graph reach, at the same
\* distances.
SearchSound == BfsByDistance(3) /\ \A depth \in 0..3 : PathIsShortest(depth)
=============================================================================
