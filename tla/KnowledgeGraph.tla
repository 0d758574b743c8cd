--------------------------- MODULE KnowledgeGraph ---------------------------
(***************************************************************************)
(* day_50/knowledge_graph.py: typed nodes and typed, directed edges, three *)
(* indexes and two adjacency tables.  As in FactStore a missing dictionary *)
(* key is an empty set; weights, edge labels, properties and time stamps,  *)
(* which neither an index nor a traversal reads, are left out, and with    *)
(* them update_edge, which changes nothing else.                           *)
(***************************************************************************)
EXTENDS Naturals

CONSTANTS NodeIds, EdgeIds, Labels, NodeTypes, EdgeTypes,
          None  \* an argument that is not given, an id that is not in use

Nodes == [label : Labels, node_type : NodeTypes]
Edges == [source_id : NodeIds, target_id : NodeIds, edge_type : EdgeTypes]

ASSUME NoneAssumption ==
  None \notin Nodes \cup Edges \cup NodeIds \cup Labels \cup NodeTypes \cup EdgeTypes

VARIABLES nodes,         \* _nodes: id -> node, or None
          edges,         \* _edges: id -> edge, or None
          by_node_type,  \* _by_node_type, _by_label, _by_edge_type
          by_label,
          by_edge_type,
          outgoing,      \* _outgoing, _incoming: node id -> set of edge ids
          incoming

nodeIndexes == <<by_node_type, by_label>>
edgeIndexes == <<by_edge_type, outgoing, incoming>>
vars == <<nodes, edges, nodeIndexes, edgeIndexes>>

NodesIn == {n \in NodeIds : nodes[n] # None}
EdgesIn == {e \in EdgeIds : edges[e] # None}

TypeOK == /\ nodes \in [NodeIds -> Nodes \cup {None}]
          /\ edges \in [EdgeIds -> Edges \cup {None}]
          /\ by_node_type \in [NodeTypes -> SUBSET NodeIds]
          /\ by_label \in [Labels -> SUBSET NodeIds]
          /\ by_edge_type \in [EdgeTypes -> SUBSET EdgeIds]
          /\ outgoing \in [NodeIds -> SUBSET EdgeIds]
          /\ incoming \in [NodeIds -> SUBSET EdgeIds]

Init == /\ nodes = [n \in NodeIds |-> None]
        /\ edges = [e \in EdgeIds |-> None]
        /\ by_node_type = [t \in NodeTypes |-> {}]
        /\ by_label = [l \in Labels |-> {}]
        /\ by_edge_type = [t \in EdgeTypes |-> {}]
        /\ outgoing = [n \in NodeIds |-> {}]
        /\ incoming = [n \in NodeIds |-> {}]

-----------------------------------------------------------------------------
(* setdefault(key, set()).add(id) and get(key, set()).discard(id).         *)
Added(index, key, id) == [index EXCEPT ![key] = @ \cup {id}]
Discarded(index, key, id) == [index EXCEPT ![key] = @ \ {id}]

AddNode(n, label, type) ==
  /\ nodes[n] = None
  /\ nodes' = [nodes EXCEPT ![n] = [label |-> label, node_type |-> type]]
  /\ by_node_type' = Added(by_node_type, type, n)
  /\ by_label' = Added(by_label, label, n)
  /\ UNCHANGED <<edges, edgeIndexes>>

\* Without a label, or with the label the node has, only data changes.
UpdateNode(n, label) ==
  /\ nodes[n] # None
  /\ label # nodes[n].label
  /\ by_label' = Added(Discarded(by_label, nodes[n].label, n), label, n)
  /\ nodes' = [nodes EXCEPT ![n].label = label]
  /\ UNCHANGED <<edges, by_node_type, edgeIndexes>>

\* _remove_edge_internal for every edge of a set: each is found in the three
\* tables by its own type, source and target.  The adjacency sets of the nodes
\* in popped go altogether.
RemoveEdges(E, popped) ==
  LET gone == E \cap EdgesIn IN
  /\ edges' = [e \in EdgeIds |-> IF e \in E THEN None ELSE edges[e]]
  /\ by_edge_type' = [t \in EdgeTypes |->
       by_edge_type[t] \ {e \in gone : edges[e].edge_type = t}]
  /\ outgoing' = [n \in NodeIds |->
       IF n \in popped THEN {}
       ELSE outgoing[n] \ {e \in gone : edges[e].source_id = n}]
  /\ incoming' = [n \in NodeIds |->
       IF n \in popped THEN {}
       ELSE incoming[n] \ {e \in gone : edges[e].target_id = n}]

\* Seeded fault: the incoming edges stay.
RemoveNodeAndOutgoing(n) ==
  /\ nodes[n] # None
  /\ RemoveEdges(outgoing[n], {n})
  /\ by_node_type' = Discarded(by_node_type, nodes[n].node_type, n)
  /\ by_label' = Discarded(by_label, nodes[n].label, n)
  /\ nodes' = [nodes EXCEPT ![n] = None]

RemoveNode(n) ==
  /\ nodes[n] # None
  /\ RemoveEdges(outgoing[n] \cup incoming[n], {n})
  /\ by_node_type' = Discarded(by_node_type, nodes[n].node_type, n)
  /\ by_label' = Discarded(by_label, nodes[n].label, n)
  /\ nodes' = [nodes EXCEPT ![n] = None]

AddEdge(e, source, target, type) ==
  /\ nodes[source] # None /\ nodes[target] # None
  /\ edges[e] = None
  /\ edges' = [edges EXCEPT ![e] = [source_id |-> source, target_id |-> target,
                                    edge_type |-> type]]
  /\ by_edge_type' = Added(by_edge_type, type, e)
  /\ outgoing' = Added(outgoing, source, e)
  /\ incoming' = Added(incoming, target, e)
  /\ UNCHANGED <<nodes, nodeIndexes>>

RemoveEdge(e) ==
  /\ edges[e] # None
  /\ RemoveEdges({e}, {})
  /\ UNCHANGED <<nodes, nodeIndexes>>

Next ==
  \/ \E n \in NodeIds, l \in Labels, t \in NodeTypes : AddNode(n, l, t)
  \/ \E n \in NodeIds, l \in Labels : UpdateNode(n, l)
  \/ \E n \in NodeIds : RemoveNode(n)
  \/ \E e \in EdgeIds, s, d \in NodeIds, t \in EdgeTypes : AddEdge(e, s, d, t)
  \/ \E e \in EdgeIds : RemoveEdge(e)

Spec == Init /\ [][Next]_vars

-----------------------------------------------------------------------------
(* Queries.                                                                *)

FindNodes(type, label) ==
  IF type = None /\ label = None
  THEN NodesIn
  ELSE (IF type = None THEN NodeIds ELSE by_node_type[type]) \cap
       (IF label = None THEN NodeIds ELSE by_label[label])

FindEdges(type, source, target) ==
  IF type = None /\ source = None /\ target = None
  THEN EdgesIn
  ELSE (IF type = None THEN EdgeIds ELSE by_edge_type[type]) \cap
       (IF source = None THEN EdgeIds ELSE outgoing[source]) \cap
       (IF target = None THEN EdgeIds ELSE incoming[target])

\* match_pattern: the edges of the triples.
MatchPattern(sourceType, type, targetType) ==
  {e \in (IF type = None THEN EdgesIn ELSE by_edge_type[type]) :
     /\ sourceType \in {None, nodes[edges[e].source_id].node_type}
     /\ targetType \in {None, nodes[edges[e].target_id].node_type}}

\* The graph that a set of ids induces; an id that is not in use is passed over.
Subgraph(ids) == [nodes |-> ids \cap NodesIn,
                  edges |-> {e \in EdgesIn : /\ edges[e].source_id \in ids
                                             /\ edges[e].target_id \in ids}]

-----------------------------------------------------------------------------
(* Properties.                                                             *)

\* The indexes and adjacency tables hold exactly what the tables imply.
IndexesExact ==
  /\ \A t \in NodeTypes : by_node_type[t] = {n \in NodesIn : nodes[n].node_type = t}
  /\ \A l \in Labels : by_label[l] = {n \in NodesIn : nodes[n].label = l}
  /\ \A t \in EdgeTypes : by_edge_type[t] = {e \in EdgesIn : edges[e].edge_type = t}
  /\ \A n \in NodeIds : outgoing[n] = {e \in EdgesIn : edges[e].source_id = n}
  /\ \A n \in NodeIds : incoming[n] = {e \in EdgesIn : edges[e].target_id = n}

\* find_nodes, find_edges and match_pattern, through any combination of indexes,
\* return what a scan of the nodes or the edges would.
QueryIsScan ==
  /\ \A t \in NodeTypes \cup {None}, l \in Labels \cup {None} :
       FindNodes(t, l) = {n \in NodesIn : /\ t \in {None, nodes[n].node_type}
                                          /\ l \in {None, nodes[n].label}}
  /\ \A t \in EdgeTypes \cup {None}, s, d \in NodeIds \cup {None} :
       FindEdges(t, s, d) = {e \in EdgesIn : /\ t \in {None, edges[e].edge_type}
                                             /\ s \in {None, edges[e].source_id}
                                             /\ d \in {None, edges[e].target_id}}
  /\ \A t \in EdgeTypes \cup {None}, s, d \in NodeTypes \cup {None} :
       MatchPattern(s, t, d) =
         {e \in EdgesIn : /\ t \in {None, edges[e].edge_type}
                         /\ s \in {None, nodes[edges[e].source_id].node_type}
                         /\ d \in {None, nodes[edges[e].target_id].node_type}}

\* Removing a node removes every edge at it, in either direction, so that
\* neighbors, match_pattern and the traversals never meet a missing node.
EdgesAnchored ==
  \A e \in EdgesIn : edges[e].source_id \in NodesIn /\ edges[e].target_id \in NodesIn

\* Whatever ids subgraph is given, stored or not, its edges join its own nodes.
SubgraphClosed ==
  \A ids \in SUBSET NodeIds : \A e \in Subgraph(ids).edges :
    {edges[e].source_id, edges[e].target_id} \subseteq Subgraph(ids).nodes

\* The graph implements the promise of LinkedItems: nodes are items and edges,
\* parallel ones and both directions taken together, their links.
Joined == {{edges[e].source_id, edges[e].target_id} : e \in EdgesIn}

Items == INSTANCE LinkedItems WITH Ids <- NodeIds, Contents <- Nodes, Absent <- None,
                                   table <- nodes, links <- Joined

ImplementsItems == Items!Spec

=============================================================================
