------------------------ MODULE KnowledgeGraphProofs ------------------------
(* For every set of ids, labels and types: the graph's indexes and         *)
(* adjacency tables are exact, no edge dangles, queries equal scans, and    *)
(* the two searches find what the walks of the graph reach.                *)
EXTENDS GraphSearch, DataLemmas, TLAPS

Inv == TypeOK /\ IndexesExact /\ EdgesAnchored

\* None is none of the values it is compared with.
LEMMA NoneIsNothing ==
  /\ None \notin Nodes /\ None \notin Edges /\ None \notin NodeIds
  /\ None \notin Labels /\ None \notin NodeTypes /\ None \notin EdgeTypes
BY NoneAssumption

LEMMA InitInv == Init => Inv
<1> SUFFICES ASSUME Init PROVE Inv
  OBVIOUS
<1>1. TypeOK
  BY DEF Init, TypeOK
<1>2. NodesIn = {} /\ EdgesIn = {}
  BY DEF Init, NodesIn, EdgesIn
<1>3. IndexesExact /\ EdgesAnchored
  BY <1>2 DEF Init, IndexesExact, EdgesAnchored
<1>4. QED BY <1>1, <1>3 DEF Inv

\* The edge side is untouched by a step on nodes that removes no node.
LEMMA EdgesUntouched ==
  ASSUME Inv, UNCHANGED <<edges, edgeIndexes>>, NodesIn \subseteq NodesIn'
  PROVE  /\ EdgesIn' = EdgesIn
         /\ EdgesAnchored'
         /\ \A t \in EdgeTypes :
              by_edge_type'[t] = {e \in EdgesIn' : edges'[e].edge_type = t}
         /\ \A n \in NodeIds :
              outgoing'[n] = {e \in EdgesIn' : edges'[e].source_id = n}
         /\ \A n \in NodeIds :
              incoming'[n] = {e \in EdgesIn' : edges'[e].target_id = n}
BY DEF Inv, IndexesExact, EdgesAnchored, EdgesIn, edgeIndexes

LEMMA AddNodeInv ==
  ASSUME Inv, NEW n \in NodeIds, NEW label \in Labels, NEW type \in NodeTypes,
         AddNode(n, label, type)
  PROVE  Inv'
<1> DEFINE node == [label |-> label, node_type |-> type]
<1>1. node \in Nodes /\ node # None
  BY NoneIsNothing DEF Nodes
<1>2. /\ nodes[n] = None
      /\ nodes' = [nodes EXCEPT ![n] = node]
      /\ by_node_type' = [by_node_type EXCEPT ![type] = @ \cup {n}]
      /\ by_label' = [by_label EXCEPT ![label] = @ \cup {n}]
      /\ UNCHANGED <<edges, edgeIndexes>>
  BY DEF AddNode, Added
<1>3. TypeOK'
  BY <1>1, <1>2 DEF Inv, TypeOK, edgeIndexes
<1>4. NodesIn' = NodesIn \cup {n} /\ n \notin NodesIn
  BY <1>1, <1>2 DEF Inv, TypeOK, NodesIn
<1>5. \A m \in NodesIn' : nodes'[m] = IF m = n THEN node ELSE nodes[m]
  BY <1>2, <1>4 DEF Inv, TypeOK, NodesIn
<1>6. \A t \in NodeTypes :
        by_node_type'[t] = {m \in NodesIn' : nodes'[m].node_type = t}
  BY <1>2, <1>4, <1>5 DEF Inv, TypeOK, IndexesExact
<1>7. \A l \in Labels : by_label'[l] = {m \in NodesIn' : nodes'[m].label = l}
  BY <1>2, <1>4, <1>5 DEF Inv, TypeOK, IndexesExact
<1>8. QED BY <1>2, <1>3, <1>4, <1>6, <1>7, EdgesUntouched DEF Inv, IndexesExact

LEMMA UpdateNodeInv ==
  ASSUME Inv, NEW n \in NodeIds, NEW label \in Labels, UpdateNode(n, label)
  PROVE  Inv'
<1>1. nodes[n] \in Nodes /\ nodes[n] # None /\ label # nodes[n].label
  BY DEF Inv, TypeOK, UpdateNode
<1> DEFINE node == [nodes[n] EXCEPT !.label = label]
<1>2. /\ node \in Nodes /\ node # None
      /\ node.label = label /\ node.node_type = nodes[n].node_type
  BY <1>1, NoneIsNothing DEF Nodes
<1>3. /\ nodes' = [nodes EXCEPT ![n] = node]
      /\ by_label' = [[by_label EXCEPT ![nodes[n].label] = @ \ {n}]
                        EXCEPT ![label] = @ \cup {n}]
      /\ UNCHANGED <<edges, by_node_type, edgeIndexes>>
  BY DEF UpdateNode, Added, Discarded
<1> HIDE DEF node
<1>4. TypeOK'
  BY <1>1, <1>2, <1>3 DEF Inv, TypeOK, edgeIndexes, Nodes
<1>5. NodesIn' = NodesIn /\ n \in NodesIn
  BY <1>1, <1>2, <1>3 DEF Inv, TypeOK, NodesIn
<1>6. \A m \in NodesIn' : nodes'[m] = IF m = n THEN node ELSE nodes[m]
  BY <1>3, <1>5 DEF Inv, TypeOK, NodesIn
<1>7. \A t \in NodeTypes :
        by_node_type'[t] = {m \in NodesIn' : nodes'[m].node_type = t}
  BY <1>2, <1>3, <1>5, <1>6 DEF Inv, IndexesExact
<1>8. ASSUME NEW l \in Labels
      PROVE  by_label'[l] = {m \in NodesIn' : nodes'[m].label = l}
  <2>1. nodes[n].label \in Labels
    BY <1>1 DEF Nodes
  <2>2. by_label'[l] = (IF l = nodes[n].label THEN by_label[l] \ {n} ELSE by_label[l])
                         \cup (IF l = label THEN {n} ELSE {})
    BY <1>1, <1>3, <2>1 DEF Inv, TypeOK
  <2>3. by_label[l] = {m \in NodesIn : nodes[m].label = l}
    BY DEF Inv, IndexesExact
  <2>4. QED BY <1>1, <1>2, <1>5, <1>6, <2>2, <2>3
<1>9. QED BY <1>3, <1>4, <1>5, <1>7, <1>8, EdgesUntouched DEF Inv, IndexesExact

LEMMA AddEdgeInv ==
  ASSUME Inv, NEW e \in EdgeIds, NEW source \in NodeIds, NEW target \in NodeIds,
         NEW type \in EdgeTypes, AddEdge(e, source, target, type)
  PROVE  Inv'
<1> DEFINE edge == [source_id |-> source, target_id |-> target, edge_type |-> type]
<1>1. edge \in Edges /\ edge # None
  BY NoneIsNothing DEF Edges
<1>2. /\ source \in NodesIn /\ target \in NodesIn
      /\ edges[e] = None
      /\ edges' = [edges EXCEPT ![e] = edge]
      /\ by_edge_type' = [by_edge_type EXCEPT ![type] = @ \cup {e}]
      /\ outgoing' = [outgoing EXCEPT ![source] = @ \cup {e}]
      /\ incoming' = [incoming EXCEPT ![target] = @ \cup {e}]
      /\ UNCHANGED <<nodes, nodeIndexes>>
  BY DEF AddEdge, Added, NodesIn
<1>3. TypeOK'
  BY <1>1, <1>2 DEF Inv, TypeOK, nodeIndexes
<1>4. /\ EdgesIn' = EdgesIn \cup {e} /\ e \notin EdgesIn
      /\ NodesIn' = NodesIn
  BY <1>1, <1>2 DEF Inv, TypeOK, EdgesIn, NodesIn
<1>5. \A d \in EdgesIn' : edges'[d] = IF d = e THEN edge ELSE edges[d]
  BY <1>2, <1>4 DEF Inv, TypeOK, EdgesIn
<1>6. \A t \in EdgeTypes :
        by_edge_type'[t] = {d \in EdgesIn' : edges'[d].edge_type = t}
  BY <1>2, <1>4, <1>5 DEF Inv, TypeOK, IndexesExact
<1>7. \A n \in NodeIds : outgoing'[n] = {d \in EdgesIn' : edges'[d].source_id = n}
  BY <1>2, <1>4, <1>5 DEF Inv, TypeOK, IndexesExact
<1>8. \A n \in NodeIds : incoming'[n] = {d \in EdgesIn' : edges'[d].target_id = n}
  BY <1>2, <1>4, <1>5 DEF Inv, TypeOK, IndexesExact
<1>9. EdgesAnchored'
  BY <1>2, <1>4, <1>5 DEF Inv, EdgesAnchored
<1>10. UNCHANGED <<nodes, nodeIndexes>>
  BY <1>2
<1>11. IndexesExact'
  BY <1>4, <1>6, <1>7, <1>8, <1>10 DEF Inv, IndexesExact, nodeIndexes
<1>12. QED BY <1>3, <1>9, <1>11 DEF Inv

\* Removing a set of edges, and the adjacency sets of nodes all of whose edges
\* are in that set, leaves the three edge tables exact.
LEMMA RemoveEdgesExact ==
  ASSUME Inv, NEW E \in SUBSET EdgeIds, NEW popped \in SUBSET NodeIds,
         \A n \in popped : outgoing[n] \cup incoming[n] \subseteq E,
         RemoveEdges(E, popped)
  PROVE  /\ EdgesIn' = EdgesIn \ E
         /\ \A e \in EdgesIn' : edges'[e] = edges[e]
         /\ edges' \in [EdgeIds -> Edges \cup {None}]
         /\ by_edge_type' \in [EdgeTypes -> SUBSET EdgeIds]
         /\ outgoing' \in [NodeIds -> SUBSET EdgeIds]
         /\ incoming' \in [NodeIds -> SUBSET EdgeIds]
         /\ \A t \in EdgeTypes :
              by_edge_type'[t] = {e \in EdgesIn' : edges'[e].edge_type = t}
         /\ \A n \in NodeIds :
              outgoing'[n] = {e \in EdgesIn' : edges'[e].source_id = n}
         /\ \A n \in NodeIds :
              incoming'[n] = {e \in EdgesIn' : edges'[e].target_id = n}
<1>1. edges' = [e \in EdgeIds |-> IF e \in E THEN None ELSE edges[e]]
  BY DEF RemoveEdges
<1>2. EdgesIn' = EdgesIn \ E
  BY <1>1 DEF EdgesIn
<1>3. \A e \in EdgesIn' : edges'[e] = edges[e]
  BY <1>1, <1>2 DEF EdgesIn
<1>4. /\ edges' \in [EdgeIds -> Edges \cup {None}]
      /\ by_edge_type' \in [EdgeTypes -> SUBSET EdgeIds]
      /\ outgoing' \in [NodeIds -> SUBSET EdgeIds]
      /\ incoming' \in [NodeIds -> SUBSET EdgeIds]
  BY DEF RemoveEdges, Inv, TypeOK
<1>5. ASSUME NEW t \in EdgeTypes
      PROVE  by_edge_type'[t] = {e \in EdgesIn' : edges'[e].edge_type = t}
  <2>1. by_edge_type'[t] =
          by_edge_type[t] \ {e \in E \cap EdgesIn : edges[e].edge_type = t}
    BY DEF RemoveEdges
  <2>2. by_edge_type[t] = {e \in EdgesIn : edges[e].edge_type = t}
    BY DEF Inv, IndexesExact
  <2>3. QED BY <1>2, <1>3, <2>1, <2>2
<1>6. ASSUME NEW n \in NodeIds
      PROVE  /\ outgoing'[n] = {e \in EdgesIn' : edges'[e].source_id = n}
             /\ incoming'[n] = {e \in EdgesIn' : edges'[e].target_id = n}
  <2>1. /\ outgoing[n] = {e \in EdgesIn : edges[e].source_id = n}
        /\ incoming[n] = {e \in EdgesIn : edges[e].target_id = n}
    BY DEF Inv, IndexesExact
  <2>2. /\ outgoing'[n] =
             IF n \in popped THEN {}
             ELSE outgoing[n] \ {e \in E \cap EdgesIn : edges[e].source_id = n}
        /\ incoming'[n] =
             IF n \in popped THEN {}
             ELSE incoming[n] \ {e \in E \cap EdgesIn : edges[e].target_id = n}
    BY DEF RemoveEdges
  <2>3. n \in popped => outgoing[n] \subseteq E /\ incoming[n] \subseteq E
    OBVIOUS
  <2>4. QED BY <1>2, <1>3, <2>1, <2>2, <2>3
<1>7. QED BY <1>2, <1>3, <1>4, <1>5, <1>6

LEMMA RemoveEdgeInv ==
  ASSUME Inv, NEW e \in EdgeIds, RemoveEdge(e)
  PROVE  Inv'
<1>1. RemoveEdges({e}, {}) /\ UNCHANGED <<nodes, nodeIndexes>>
  BY DEF RemoveEdge
<1>2. /\ {e} \in SUBSET EdgeIds /\ {} \in SUBSET NodeIds
      /\ \A n \in {} : outgoing[n] \cup incoming[n] \subseteq {e}
  OBVIOUS
<1>3. NodesIn' = NodesIn
  BY <1>1 DEF NodesIn
<1>4. TypeOK'
  BY <1>1, <1>2, RemoveEdgesExact DEF Inv, TypeOK, nodeIndexes
<1>5. IndexesExact'
  BY <1>1, <1>2, <1>3, RemoveEdgesExact DEF Inv, IndexesExact, nodeIndexes
<1>6. EdgesAnchored'
  BY <1>1, <1>2, <1>3, RemoveEdgesExact DEF Inv, EdgesAnchored
<1>7. QED BY <1>4, <1>5, <1>6 DEF Inv

\* remove_node: the edges at the node are those of its two adjacency sets.
LEMMA RemoveNodeInv ==
  ASSUME Inv, NEW n \in NodeIds, RemoveNode(n)
  PROVE  Inv'
<1> DEFINE E == outgoing[n] \cup incoming[n]
<1>1. nodes[n] \in Nodes /\ nodes[n] # None
  BY DEF Inv, TypeOK, RemoveNode
<1>2. /\ RemoveEdges(E, {n})
      /\ by_node_type' = [by_node_type EXCEPT ![nodes[n].node_type] = @ \ {n}]
      /\ by_label' = [by_label EXCEPT ![nodes[n].label] = @ \ {n}]
      /\ nodes' = [nodes EXCEPT ![n] = None]
  BY DEF RemoveNode, Discarded
<1>3. E \in SUBSET EdgeIds
  BY DEF Inv, TypeOK
<1>4. \A e \in EdgesIn : edges[e].source_id = n \/ edges[e].target_id = n => e \in E
  BY DEF Inv, IndexesExact
<1>5. \A m \in {n} : outgoing[m] \cup incoming[m] \subseteq E
  OBVIOUS
<1> HIDE DEF E
<1>6. NodesIn' = NodesIn \ {n}
  BY <1>2 DEF Inv, TypeOK, NodesIn
<1>7. \A m \in NodesIn' : nodes'[m] = nodes[m]
  BY <1>2, <1>6 DEF Inv, TypeOK, NodesIn
<1>8. EdgesAnchored'
  <2>1. EdgesIn' = EdgesIn \ E /\ \A e \in EdgesIn' : edges'[e] = edges[e]
    BY <1>2, <1>3, <1>5, RemoveEdgesExact
  <2>2. QED BY <1>4, <1>6, <2>1 DEF Inv, EdgesAnchored
<1>9. TypeOK'
  BY <1>1, <1>2, <1>3, <1>5, RemoveEdgesExact DEF Inv, TypeOK
<1>10. ASSUME NEW t \in NodeTypes
       PROVE  by_node_type'[t] = {m \in NodesIn' : nodes'[m].node_type = t}
  BY <1>1, <1>2, <1>6, <1>7 DEF Inv, TypeOK, IndexesExact, Nodes
<1>11. ASSUME NEW l \in Labels
       PROVE  by_label'[l] = {m \in NodesIn' : nodes'[m].label = l}
  BY <1>1, <1>2, <1>6, <1>7 DEF Inv, TypeOK, IndexesExact, Nodes
<1>12. IndexesExact'
  BY <1>2, <1>3, <1>5, <1>10, <1>11, RemoveEdgesExact DEF IndexesExact
<1>13. QED BY <1>8, <1>9, <1>12 DEF Inv

-----------------------------------------------------------------------------
(* The theorems.                                                           *)

\* Types, exact tables and anchored edges are kept by every method.
THEOREM KnowledgeGraphInv == Spec => []Inv
<1>1. Inv /\ [Next]_vars => Inv'
  <2> SUFFICES ASSUME Inv, [Next]_vars PROVE Inv'
    OBVIOUS
  <2>1. CASE Next
    BY <2>1, AddNodeInv, UpdateNodeInv, RemoveNodeInv, AddEdgeInv, RemoveEdgeInv
       DEF Next
  <2>2. CASE UNCHANGED vars
    BY <2>2 DEF vars, nodeIndexes, edgeIndexes, Inv, TypeOK, IndexesExact,
                EdgesAnchored, NodesIn, EdgesIn
  <2>3. QED BY <2>1, <2>2
<1>2. QED BY <1>1, InitInv, PTL DEF Spec

\* Every value of the variables has its type.
THEOREM TypeCorrect == Spec => []TypeOK
<1>1. Inv => TypeOK
  BY DEF Inv
<1>2. QED BY <1>1, KnowledgeGraphInv, PTL

\* No edge ever has a missing end.
THEOREM EdgesAlwaysAnchored == Spec => []EdgesAnchored
<1>1. Inv => EdgesAnchored
  BY DEF Inv
<1>2. QED BY <1>1, KnowledgeGraphInv, PTL

\* Every find_nodes, find_edges and match_pattern returns what a scan returns.
THEOREM QueriesAreScans == Spec => []QueryIsScan
<1>1. Inv => QueryIsScan
  <2> SUFFICES ASSUME Inv PROVE QueryIsScan
    OBVIOUS
  <2>1. NodesIn \subseteq NodeIds /\ EdgesIn \subseteq EdgeIds
    BY DEF NodesIn, EdgesIn
  <2>2. ASSUME NEW t \in NodeTypes \cup {None}, NEW l \in Labels \cup {None}
        PROVE  FindNodes(t, l) = {n \in NodesIn : /\ t \in {None, nodes[n].node_type}
                                                  /\ l \in {None, nodes[n].label}}
    BY <2>1, NoneIsNothing DEF FindNodes, Inv, IndexesExact
  <2>3. ASSUME NEW t \in EdgeTypes \cup {None}, NEW s \in NodeIds \cup {None},
               NEW d \in NodeIds \cup {None}
        PROVE  FindEdges(t, s, d) =
                 {e \in EdgesIn : /\ t \in {None, edges[e].edge_type}
                                  /\ s \in {None, edges[e].source_id}
                                  /\ d \in {None, edges[e].target_id}}
    BY <2>1, NoneIsNothing DEF FindEdges, Inv, IndexesExact
  <2>4. ASSUME NEW t \in EdgeTypes \cup {None}, NEW s, NEW d
        PROVE  MatchPattern(s, t, d) =
                 {e \in EdgesIn : /\ t \in {None, edges[e].edge_type}
                                 /\ s \in {None, nodes[edges[e].source_id].node_type}
                                 /\ d \in {None, nodes[edges[e].target_id].node_type}}
    BY NoneIsNothing DEF MatchPattern, Inv, IndexesExact
  <2>5. QED BY <2>2, <2>3, <2>4 DEF QueryIsScan
<1>2. QED BY <1>1, KnowledgeGraphInv, PTL

\* The edges of a subgraph join its own nodes.
THEOREM SubgraphsClosed == Spec => []SubgraphClosed
<1>1. Inv => SubgraphClosed
  BY DEF Inv, EdgesAnchored, SubgraphClosed, Subgraph
<1>2. QED BY <1>1, KnowledgeGraphInv, PTL

-----------------------------------------------------------------------------
(* The refinement of LinkedItems.                                          *)

Ends(e) == {edges[e].source_id, edges[e].target_id}

LEMMA AddNodePuts ==
  ASSUME Inv, NEW n \in NodeIds, NEW label \in Labels, NEW type \in NodeTypes,
         AddNode(n, label, type)
  PROVE  Items!Next
<1> DEFINE node == [label |-> label, node_type |-> type]
<1>1. node \in Nodes /\ nodes[n] = None /\ nodes' = [nodes EXCEPT ![n] = node]
      /\ edges' = edges
  BY DEF AddNode, Nodes
<1>2. Joined' = Joined \cup {}
  BY <1>1 DEF Joined, EdgesIn
<1> HIDE DEF node
<1>3. Items!Put(n, node, {})
  BY <1>1, <1>2 DEF Items!Put
<1>4. {} \in SUBSET {{n, j} : j \in NodeIds}
  OBVIOUS
<1>5. QED BY <1>1, <1>3, <1>4 DEF Items!Next

LEMMA UpdateNodeChanges ==
  ASSUME Inv, NEW n \in NodeIds, NEW label \in Labels, UpdateNode(n, label)
  PROVE  Items!Next
<1> DEFINE node == [nodes[n] EXCEPT !.label = label]
<1>1. nodes[n] # None /\ nodes' = [nodes EXCEPT ![n] = node] /\ edges' = edges
  BY DEF UpdateNode
<1>2. node \in Nodes
  BY <1>1 DEF Inv, TypeOK, Nodes
<1> HIDE DEF node
<1>3. Items!Change(n, node)
  BY <1>1 DEF Items!Change, Joined, EdgesIn
<1>4. QED BY <1>2, <1>3 DEF Items!Next

\* The edges at the node are the ones that go, so the links at it go.
LEMMA RemoveNodeRemoves ==
  ASSUME Inv, NEW n \in NodeIds, RemoveNode(n)
  PROVE  Items!Next
<1> DEFINE E == outgoing[n] \cup incoming[n]
<1>1. nodes[n] # None /\ nodes' = [nodes EXCEPT ![n] = None] /\ RemoveEdges(E, {n})
  BY DEF RemoveNode
<1>2. E \in SUBSET EdgeIds
  BY DEF Inv, TypeOK
<1>3. \A e \in EdgesIn : e \in E <=> n \in Ends(e)
  BY DEF Inv, IndexesExact, Ends
<1>4. \A m \in {n} : outgoing[m] \cup incoming[m] \subseteq E
  OBVIOUS
<1> HIDE DEF E
<1>5. EdgesIn' = EdgesIn \ E /\ \A e \in EdgesIn' : edges'[e] = edges[e]
  BY <1>1, <1>2, <1>4, RemoveEdgesExact
<1>6. Joined' = {l \in Joined : n \notin l}
  BY <1>3, <1>5 DEF Joined, Ends
<1>7. Items!Remove(n)
  BY <1>1, <1>6 DEF Items!Remove
<1>8. QED BY <1>7 DEF Items!Next

LEMMA AddEdgeRelates ==
  ASSUME Inv, NEW e \in EdgeIds, NEW source \in NodeIds, NEW target \in NodeIds,
         NEW type \in EdgeTypes, AddEdge(e, source, target, type)
  PROVE  Items!Next
<1> DEFINE edge == [source_id |-> source, target_id |-> target, edge_type |-> type]
<1>1. edge # None
  BY NoneIsNothing DEF Edges
<1>2. /\ nodes[source] # None /\ nodes[target] # None /\ edges[e] = None
      /\ edges' = [edges EXCEPT ![e] = edge] /\ nodes' = nodes
  BY DEF AddEdge
<1>3. EdgesIn' = EdgesIn \cup {e} /\ e \notin EdgesIn
  BY <1>1, <1>2 DEF Inv, TypeOK, EdgesIn
<1>4. \A d \in EdgesIn' : edges'[d] = IF d = e THEN edge ELSE edges[d]
  BY <1>2, <1>3 DEF Inv, TypeOK, EdgesIn
<1>5. Joined' = Joined \cup {{source, target}}
  BY <1>3, <1>4 DEF Joined
<1>6. {source, target} \in Items!LinksAmong(Items!Present)
  BY <1>2 DEF Items!LinksAmong, Items!Present
<1>7. Items!Relate({source, target})
  BY <1>2, <1>5, <1>6 DEF Items!Relate
<1>8. {source, target} \in Items!LinksAmong(NodeIds)
  BY DEF Items!LinksAmong
<1>9. QED BY <1>7, <1>8 DEF Items!Next

\* Removing an edge unlinks its ends, unless another edge joins them.
LEMMA RemoveEdgeUnrelates ==
  ASSUME Inv, NEW e \in EdgeIds, RemoveEdge(e)
  PROVE  Items!Next \/ UNCHANGED Items!state
<1>1. edges[e] # None /\ RemoveEdges({e}, {}) /\ nodes' = nodes
  BY DEF RemoveEdge, nodeIndexes
<1>2. /\ {e} \in SUBSET EdgeIds /\ {} \in SUBSET NodeIds
      /\ \A n \in {} : outgoing[n] \cup incoming[n] \subseteq {e}
  OBVIOUS
<1>3. EdgesIn' = EdgesIn \ {e} /\ \A d \in EdgesIn' : edges'[d] = edges[d]
  BY <1>1, <1>2, RemoveEdgesExact
<1>4. e \in EdgesIn
  BY <1>1 DEF EdgesIn
<1>5. CASE \E d \in EdgesIn \ {e} : Ends(d) = Ends(e)
  <2>1. Joined' = Joined
    BY <1>3, <1>4, <1>5 DEF Joined, Ends
  <2>2. QED BY <1>1, <2>1 DEF Items!state
<1>6. CASE \A d \in EdgesIn \ {e} : Ends(d) # Ends(e)
  <2>1. Joined' = Joined \ {Ends(e)}
    BY <1>3, <1>4, <1>6 DEF Joined, Ends
  <2>2. Items!Unrelate(Ends(e))
    BY <1>1, <2>1 DEF Items!Unrelate
  <2>3. edges[e] \in Edges
    BY <1>1 DEF Inv, TypeOK
  <2>4. Ends(e) \in Items!LinksAmong(NodeIds)
    BY <2>3 DEF Ends, Edges, Items!LinksAmong
  <2>5. QED BY <2>2, <2>4 DEF Items!Next
<1>7. QED BY <1>5, <1>6

\* The graph implements LinkedItems: nodes as items, edges as links.
THEOREM GraphImplementsItems == Spec => ImplementsItems
<1>1. Init => Items!Init
  BY DEF Init, Items!Init, Joined, EdgesIn
<1>2. Inv /\ [Next]_vars => [Items!Next]_(Items!state)
  <2> SUFFICES ASSUME Inv, [Next]_vars PROVE [Items!Next]_(Items!state)
    OBVIOUS
  <2>1. CASE Next
    BY <2>1, AddNodePuts, UpdateNodeChanges, RemoveNodeRemoves, AddEdgeRelates,
       RemoveEdgeUnrelates DEF Next
  <2>2. CASE UNCHANGED vars
    BY <2>2 DEF vars, Items!state, Joined, EdgesIn
  <2>3. QED BY <2>1, <2>2
<1>3. QED BY <1>1, <1>2, KnowledgeGraphInv, PTL DEF Spec, ImplementsItems, Items!Spec

-----------------------------------------------------------------------------
(* Walks of the graph.                                                     *)

Walkable == SUBSET (NodeIds \X NodeIds)

\* One step on from a set of nodes.
Beyond(ids, steps) == {p[2] : p \in {p \in steps : p[1] \in ids}}

LEMMA StepsWalkable ==
  ASSUME Inv, NEW direction \in Directions, NEW type \in EdgeTypes \cup {None}
  PROVE  Steps(direction, type) \in Walkable
<1>1. \A e \in EdgesIn : edges[e].source_id \in NodeIds /\ edges[e].target_id \in NodeIds
  BY DEF Inv, EdgesAnchored, NodesIn
<1>2. QED
  BY <1>1 DEF Steps, Walkable

\* The adjacency tables lead where the edges do.
LEMMA NeighborsAreBeyond ==
  ASSUME Inv, NEW direction \in Directions, NEW type \in EdgeTypes \cup {None},
         NEW ids \in SUBSET NodeIds
  PROVE  UNION {Neighbors(n, direction, type) : n \in ids} = Beyond(ids, Steps(direction, type))
<1> DEFINE Out == {e \in EdgesIn : direction # "in" /\ type \in {None, edges[e].edge_type}}
           In == {e \in EdgesIn : direction # "out" /\ type \in {None, edges[e].edge_type}}
<1>1. \A n \in NodeIds : outgoing[n] = {e \in EdgesIn : edges[e].source_id = n}
                     /\ incoming[n] = {e \in EdgesIn : edges[e].target_id = n}
  BY DEF Inv, IndexesExact
<1>2. ASSUME NEW n \in NodeIds
      PROVE  Neighbors(n, direction, type) = {edges[e].target_id : e \in {e \in Out : edges[e].source_id = n}}
                               \cup {edges[e].source_id : e \in {e \in In : edges[e].target_id = n}}
  <2>1. direction \in {"out", "in", "both"}
    BY DEF Directions
  <2>2. CASE direction = "out"
    BY <1>1, <2>2 DEF Neighbors
  <2>3. CASE direction = "in"
    BY <1>1, <2>3 DEF Neighbors
  <2>4. CASE direction = "both"
    BY <1>1, <2>4 DEF Neighbors
  <2>5. QED
    BY <2>1, <2>2, <2>3, <2>4
<1>3. Steps(direction, type) = {<<edges[e].source_id, edges[e].target_id>> : e \in Out}
                               \cup {<<edges[e].target_id, edges[e].source_id>> : e \in In}
  BY DEF Steps
<1> HIDE DEF Out, In
<1> DEFINE Ahead == {edges[e].target_id : e \in {e \in Out : edges[e].source_id \in ids}}
                    \cup {edges[e].source_id : e \in {e \in In : edges[e].target_id \in ids}}
<1>4. Beyond(ids, Steps(direction, type)) = Ahead
  <2>1. ASSUME NEW v \in Beyond(ids, Steps(direction, type)) PROVE v \in Ahead
    <3>1. PICK p \in Steps(direction, type) : p[1] \in ids /\ p[2] = v
      BY DEF Beyond
    <3>2. CASE p \in {<<edges[e].source_id, edges[e].target_id>> : e \in Out}
      BY <3>1, <3>2
    <3>3. CASE p \in {<<edges[e].target_id, edges[e].source_id>> : e \in In}
      BY <3>1, <3>3
    <3>4. QED
      BY <1>3, <3>1, <3>2, <3>3
  <2>2. ASSUME NEW v \in Ahead PROVE \E p \in Steps(direction, type) : p[1] \in ids /\ p[2] = v
    <3>1. CASE v \in {edges[e].target_id : e \in {e \in Out : edges[e].source_id \in ids}}
      <4>1. PICK e \in Out : edges[e].source_id \in ids /\ v = edges[e].target_id
        BY <3>1
      <4>2. <<edges[e].source_id, v>> \in Steps(direction, type)
        BY <1>3, <4>1
      <4>3. QED
        BY <4>1, <4>2
    <3>2. CASE v \in {edges[e].source_id : e \in {e \in In : edges[e].target_id \in ids}}
      <4>1. PICK e \in In : edges[e].target_id \in ids /\ v = edges[e].source_id
        BY <3>2
      <4>2. <<edges[e].target_id, v>> \in Steps(direction, type)
        BY <1>3, <4>1
      <4>3. QED
        BY <4>1, <4>2
    <3>3. QED
      BY <3>1, <3>2
  <2>3. QED
    BY <2>1, <2>2 DEF Beyond
<1>5. QED
  BY <1>2, <1>4

\* What the definition of Within computes at each number of steps.
Walking(start, k, steps) ==
  CHOOSE reach : reach = [j \in 0..k |-> IF j = 0 THEN {start}
                                         ELSE reach[j - 1] \cup
                                              {p[2] : p \in {p \in steps : p[1] \in reach[j - 1]}}]

LEMMA WalkingSteps ==
  ASSUME NEW steps \in Walkable, NEW start \in NodeIds, NEW n \in Nat
  PROVE  /\ Walking(start, n, steps)[0] = {start}
         /\ \A k \in 1..n : Walking(start, n, steps)[k] =
              Walking(start, n, steps)[k - 1] \cup Beyond(Walking(start, n, steps)[k - 1], steps)
<1> DEFINE A == SUBSET NodeIds
           Grown(T) == T \cup Beyond(T, steps)
           h == [p \in (1..n) \X A |-> Grown(p[2])]
           Is(r) == r = [j \in 0..n |-> IF j = 0 THEN {start} ELSE Grown(r[j - 1])]
<1>1. {start} \in A /\ \A T \in A : Grown(T) \in A
  BY DEF Beyond, Walkable
<1>2. h \in StepsOn(n, A)
  BY <1>1 DEF StepsOn
<1>3. Walking(start, n, steps) = CHOOSE r : Is(r)
  BY DEF Walking, Beyond
<1> HIDE DEF A, Grown
<1>4. PICK g \in [0..n -> A] : g[0] = {start} /\ \A k \in 1..n : g[k] = h[<<k, g[k - 1]>>]
  <2> HIDE DEF h
  <2>1. \E g \in [0..n -> A] : Follows(g, n, {start}, h)
    BY <1>1, <1>2, Recursion
  <2>2. QED
    BY <2>1 DEF Follows
<1>5. ASSUME NEW k \in 1..n PROVE g[k] = Grown(g[k - 1])
  <2>1. <<k, g[k - 1]>> \in (1..n) \X A
    BY <1>4
  <2>2. QED
    BY <1>4, <2>1
<1>6. Is(g)
  <2>1. \A k \in 0..n : g[k] = IF k = 0 THEN {start} ELSE Grown(g[k - 1])
    BY <1>4, <1>5
  <2>2. QED
    BY <1>4, <2>1
<1>7. Is(Walking(start, n, steps))
  <2> HIDE DEF Is
  <2>1. QED
    BY <1>3, <1>6
<1>8. \A k \in 0..n : Walking(start, n, steps)[k] =
        IF k = 0 THEN {start} ELSE Grown(Walking(start, n, steps)[k - 1])
  BY <1>7
<1> HIDE DEF Is
<1>9. 0 \in 0..n /\ \A k \in 1..n : k \in 0..n /\ k # 0
  OBVIOUS
<1>10. Walking(start, n, steps)[0] = {start}
  BY <1>8, <1>9
<1>11. \A k \in 1..n : Walking(start, n, steps)[k] = Grown(Walking(start, n, steps)[k - 1])
  BY <1>8, <1>9
<1>12. QED
  BY <1>10, <1>11 DEF Grown

LEMMA WithinNext ==
  ASSUME NEW steps \in Walkable, NEW start \in NodeIds
  PROVE  /\ Within(start, 0, steps) = {start}
         /\ \A n \in Nat :
              /\ Within(start, n, steps) \in SUBSET NodeIds
              /\ Within(start, n + 1, steps) =
                   Within(start, n, steps) \cup Beyond(Within(start, n, steps), steps)
<1>1. \A n \in Nat : Within(start, n, steps) = Walking(start, n, steps)[n]
  BY DEF Within, Walking
<1>2. ASSUME NEW n \in Nat PROVE Walking(start, n + 1, steps)[n] = Walking(start, n, steps)[n]
  <2> DEFINE r == Walking(start, n, steps)
             q == Walking(start, n + 1, steps)
             S == {k \in Nat : k <= n => q[k] = r[k]}
  <2>1. r[0] = {start} /\ \A k \in 1..n : r[k] = r[k - 1] \cup Beyond(r[k - 1], steps)
    BY WalkingSteps
  <2>2. q[0] = {start} /\ \A k \in 1..n + 1 : q[k] = q[k - 1] \cup Beyond(q[k - 1], steps)
    BY WalkingSteps
  <2> HIDE DEF r, q
  <2>3. 0 \in S
    BY <2>1, <2>2
  <2>4. ASSUME NEW k \in Nat, k \in S PROVE k + 1 \in S
    <3> SUFFICES ASSUME k + 1 <= n PROVE q[k + 1] = r[k + 1]
      OBVIOUS
    <3>1. k + 1 \in 1..n /\ k + 1 \in 1..n + 1 /\ (k + 1) - 1 = k /\ q[k] = r[k]
      BY <2>4
    <3>2. /\ q[k + 1] = q[k] \cup Beyond(q[k], steps)
          /\ r[k + 1] = r[k] \cup Beyond(r[k], steps)
      BY <2>1, <2>2, <3>1
    <3>3. QED
      BY <3>1, <3>2
  <2> HIDE DEF S
  <2>5. n \in S
    BY <2>3, <2>4, Induction
  <2>6. QED
    BY <2>5 DEF S, q, r
<1>3. ASSUME NEW n \in Nat
      PROVE  Within(start, n + 1, steps) =
               Within(start, n, steps) \cup Beyond(Within(start, n, steps), steps)
  <2>1. n + 1 \in Nat /\ n + 1 \in 1..n + 1 /\ (n + 1) - 1 = n
    OBVIOUS
  <2>2. Walking(start, n + 1, steps)[n + 1] = Walking(start, n + 1, steps)[n] \cup
          Beyond(Walking(start, n + 1, steps)[n], steps)
    BY <2>1, WalkingSteps
  <2>3. QED
    BY <1>1, <1>2, <2>1, <2>2
<1>4. Within(start, 0, steps) = {start}
  BY <1>1, WalkingSteps
<1>5. ASSUME NEW n \in Nat PROVE Within(start, n, steps) \in SUBSET NodeIds
  <2> DEFINE S == {k \in Nat : Within(start, k, steps) \in SUBSET NodeIds}
  <2>1. 0 \in S
    BY <1>4
  <2>2. \A T \in SUBSET NodeIds : Beyond(T, steps) \in SUBSET NodeIds
    BY DEF Beyond, Walkable
  <2>3. \A k \in Nat : k \in S => k + 1 \in S
    BY <1>3, <2>2
  <2> HIDE DEF S
  <2>4. n \in S
    BY <2>1, <2>3, Induction
  <2>5. QED
    BY <2>4 DEF S
<1>6. QED
  BY <1>3, <1>4, <1>5
-----------------------------------------------------------------------------
(* bfs.                                                                    *)

\* What is next to a level and has not been visited, and the level after.
Unvisited(p, steps) == Beyond(p.level, steps) \ p.visited
LevelAfter(p, steps) == [level |-> Unvisited(p, steps), visited |-> p.visited \cup Unvisited(p, steps)]

\* What the definition of Bfs computes at each depth.
Levels(start, n, type, direction) ==
  CHOOSE search : search =
    [d \in 0..n |->
       IF d = 0 THEN [level |-> {start}, visited |-> {start}]
       ELSE LET prev == search[d - 1]
                next == (UNION {Neighbors(m, direction, type) : m \in prev.level}) \ prev.visited
            IN  [level |-> next, visited |-> prev.visited \cup next]]

LEMMA LevelsSteps ==
  ASSUME Inv, NEW start \in NodeIds, NEW n \in Nat,
         NEW direction \in Directions, NEW type \in EdgeTypes \cup {None}
  PROVE  /\ Levels(start, n, type, direction)[0] = [level |-> {start}, visited |-> {start}]
         /\ \A d \in 1..n : Levels(start, n, type, direction)[d] =
              LevelAfter(Levels(start, n, type, direction)[d - 1], Steps(direction, type))
<1> DEFINE A == [level : SUBSET NodeIds, visited : SUBSET NodeIds]
           a == [level |-> {start}, visited |-> {start}]
           steps == Steps(direction, type)
           New(p) == (UNION {Neighbors(m, direction, type) : m \in p.level}) \ p.visited
           After(p) == [level |-> New(p), visited |-> p.visited \cup New(p)]
           h == [p \in (1..n) \X A |-> LevelAfter(p[2], steps)]
           Is(s) == s = [d \in 0..n |-> IF d = 0 THEN a ELSE After(s[d - 1])]
<1>1. ASSUME NEW p \in A PROVE After(p) = LevelAfter(p, steps) /\ LevelAfter(p, steps) \in A
  <2>1. p.level \in SUBSET NodeIds /\ p.visited \in SUBSET NodeIds
    OBVIOUS
  <2>2. UNION {Neighbors(m, direction, type) : m \in p.level} = Beyond(p.level, steps)
    BY <2>1, NeighborsAreBeyond
  <2>3. Beyond(p.level, steps) \in SUBSET NodeIds
    BY StepsWalkable DEF Walkable, Beyond
  <2> HIDE DEF steps
  <2>4. After(p) = LevelAfter(p, steps)
    <3>1. New(p) = Unvisited(p, steps)
      BY <2>2, Zenon DEF Unvisited
    <3> HIDE DEF New
    <3>2. QED
      BY <3>1 DEF LevelAfter
  <2>5. LevelAfter(p, steps) \in A
    BY <2>1, <2>3 DEF LevelAfter, Unvisited
  <2>6. QED
    BY <2>4, <2>5
<1>2. a \in A /\ h \in StepsOn(n, A)
  BY <1>1 DEF StepsOn
<1>3. Levels(start, n, type, direction) = CHOOSE s : Is(s)
  BY DEF Levels
<1> HIDE DEF A, a, After
<1>4. PICK g \in [0..n -> A] : g[0] = a /\ \A d \in 1..n : g[d] = h[<<d, g[d - 1]>>]
  <2> HIDE DEF h
  <2>1. \E g \in [0..n -> A] : Follows(g, n, a, h)
    BY <1>2, Recursion
  <2>2. QED
    BY <2>1 DEF Follows
<1>5. ASSUME NEW d \in 1..n PROVE g[d] = LevelAfter(g[d - 1], steps) /\ g[d - 1] \in A
  <2>1. <<d, g[d - 1]>> \in (1..n) \X A
    BY <1>4
  <2> HIDE DEF steps
  <2>2. QED
    BY <1>4, <2>1
<1>6. Is(g)
  <2>1. \A d \in 0..n : g[d] = IF d = 0 THEN a ELSE After(g[d - 1])
    BY <1>1, <1>4, <1>5
  <2>2. QED
    BY <1>4, <2>1
<1> DEFINE s == Levels(start, n, type, direction)
<1>7. Is(s)
  <2> HIDE DEF Is
  <2>1. QED
    BY <1>3, <1>6
<1> HIDE DEF s
<1>8. \A d \in 0..n : s[d] = IF d = 0 THEN a ELSE After(s[d - 1])
  BY <1>7
<1> HIDE DEF Is
<1>9. 0 \in 0..n /\ \A d \in 1..n : d \in 0..n /\ d # 0 /\ d - 1 \in 0..n
  OBVIOUS
<1>10. s[0] = a /\ \A d \in 1..n : s[d] = After(s[d - 1])
  BY <1>8, <1>9
<1>11. \A d \in 0..n : s[d] \in A
  <2> DEFINE S == {d \in Nat : d <= n => s[d] \in A}
  <2>1. 0 \in S
    BY <1>2, <1>10
  <2>2. ASSUME NEW d \in Nat, d \in S PROVE d + 1 \in S
    <3> SUFFICES ASSUME d + 1 <= n PROVE s[d + 1] \in A
      OBVIOUS
    <3>1. d + 1 \in 1..n /\ (d + 1) - 1 = d /\ s[d] \in A
      BY <2>2
    <3>2. s[d + 1] = After(s[d])
      BY <1>10, <3>1
    <3>3. QED
      BY <1>1, <3>1, <3>2
  <2> HIDE DEF S
  <2>3. Nat \subseteq S
    BY <2>1, <2>2, Induction
  <2>4. QED
    BY <2>3 DEF S
<1>12. \A d \in 1..n : s[d] = LevelAfter(s[d - 1], steps)
  BY <1>1, <1>9, <1>10, <1>11
<1>13. QED
  BY <1>10, <1>12 DEF s, a

\* The levels of the search are what is reached at that distance and no
\* earlier: what is beyond the earlier levels has been visited.
LEMMA LevelIsDistance ==
  ASSUME Inv, NEW start \in NodeIds, NEW n \in Nat, NEW d \in 1..n,
         NEW direction \in Directions, NEW type \in EdgeTypes \cup {None}
  PROVE  Levels(start, n, type, direction)[d].level =
           Within(start, d, Steps(direction, type)) \ Within(start, d - 1, Steps(direction, type))
<1> DEFINE s == Levels(start, n, type, direction)
           steps == Steps(direction, type)
           W(k) == Within(start, k, steps)
           B(ids) == Beyond(ids, steps)
           S == {k \in Nat : k <= n =>
                   /\ s[k].visited = W(k)
                   /\ k > 0 => s[k].level = W(k) \ W(k - 1) /\ B(W(k - 1)) \subseteq W(k)
                   /\ k = 0 => s[k].level = W(k)}
<1>1. /\ s[0] = [level |-> {start}, visited |-> {start}]
      /\ \A k \in 1..n : s[k] = LevelAfter(s[k - 1], steps)
  BY LevelsSteps
<1>2. W(0) = {start} /\ \A k \in Nat : W(k + 1) = W(k) \cup B(W(k))
  BY StepsWalkable, WithinNext
<1>3. \A T, U : B(T \cup U) = B(T) \cup B(U)
  BY DEF Beyond
<1> HIDE DEF s, W, B, steps
<1>4. 0 \in S
  BY <1>1, <1>2
<1>5. ASSUME NEW k \in Nat, k \in S PROVE k + 1 \in S
  <2> SUFFICES ASSUME k + 1 <= n
               PROVE  /\ s[k + 1].visited = W(k + 1)
                      /\ s[k + 1].level = W(k + 1) \ W(k) /\ B(W(k)) \subseteq W(k + 1)
    <3>1. (k + 1) - 1 = k /\ k + 1 > 0 /\ k + 1 # 0
      OBVIOUS
    <3>2. QED
      BY <3>1
  <2>1. /\ s[k].visited = W(k)
        /\ k > 0 => s[k].level = W(k) \ W(k - 1) /\ B(W(k - 1)) \subseteq W(k)
        /\ k = 0 => s[k].level = W(k)
    BY <1>5
  <2> DEFINE new == B(s[k].level) \ s[k].visited
  <2>2. s[k + 1] = [level |-> new, visited |-> s[k].visited \cup new]
    <3>1. k + 1 \in 1..n /\ (k + 1) - 1 = k
      OBVIOUS
    <3>2. s[k + 1] = LevelAfter(s[k], steps)
      BY <1>1, <3>1
    <3>3. QED
      BY <3>2 DEF LevelAfter, Unvisited, B
  <2>3. W(k + 1) = W(k) \cup B(W(k))
    BY <1>2
  <2>4. B(W(k)) \subseteq B(s[k].level) \cup W(k) /\ B(s[k].level) \subseteq B(W(k))
    <3>1. CASE k = 0
      BY <2>1, <3>1
    <3>2. CASE k > 0
      <4>1. k - 1 \in Nat /\ (k - 1) + 1 = k
        BY <3>2
      <4>2. W(k) = W(k - 1) \cup B(W(k - 1))
        BY <1>2, <4>1
      <4>3. W(k) = W(k - 1) \cup s[k].level
        BY <2>1, <3>2, <4>2
      <4>4. B(W(k)) = B(W(k - 1)) \cup B(s[k].level)
        BY <1>3, <4>3
      <4>5. QED
        BY <2>1, <3>2, <4>4
    <3>3. QED
      BY <3>1, <3>2
  <2>5. new = W(k + 1) \ W(k)
    BY <2>1, <2>3, <2>4
  <2>6. QED
    BY <2>1, <2>2, <2>3, <2>5
<1> HIDE DEF S
<1>6. d \in S
  BY <1>4, <1>5, Induction
<1>7. d <= n /\ d > 0 /\ d \in Nat
  OBVIOUS
<1>8. s[d].level = W(d) \ W(d - 1)
  BY <1>6, <1>7 DEF S
<1>9. QED
  BY <1>8 DEF s, W, steps

LEMMA BfsFindsDistances ==
  ASSUME Inv, NEW depth \in Nat
  PROVE  BfsByDistance(depth)
<1> SUFFICES ASSUME NEW start \in NodesIn, NEW type \in EdgeTypes \cup {None},
                    NEW direction \in Directions, NEW d \in 1..depth
             PROVE  Bfs(start, depth, type, direction)[d] =
                      Within(start, d, Steps(direction, type))
                        \ Within(start, d - 1, Steps(direction, type))
  BY DEF BfsByDistance
<1>1. start \in NodeIds
  BY DEF NodesIn
<1>2. Bfs(start, depth, type, direction) =
        [k \in 1..depth |-> Levels(start, depth, type, direction)[k].level]
  BY DEF Bfs, Levels
<1>3. QED
  BY <1>1, <1>2, LevelIsDistance
-----------------------------------------------------------------------------
(* find_path: what a round does.                                           *)

Paths == Seq(NodeIds) \ {<<>>}
SearchStates == [queue : Seq(Paths), visited : SUBSET NodeIds, found : Seq(NodeIds)]

\* Ids in the order they were created: each once.
LEMMA InOrderLists ==
  ASSUME NEW ids \in SUBSET NodeIds, NEW created \in Orders
  PROVE  /\ Cardinality(ids) \in Nat
         /\ InOrder(ids, created) \in [1..Cardinality(ids) -> ids]
         /\ Range(InOrder(ids, created)) = ids
<1> DEFINE n == Cardinality(ids)
           R == {p \in ids \X ids : created[p[1]] < created[p[2]]}
           Sorts(s) == \A k, l \in DOMAIN s : k < l => created[s[k]] < created[s[l]]
<1>1. IsFiniteSet(ids) /\ n \in Nat
  BY FiniteAssumption, FS_Subset, FS_CardinalityType
<1>2. Cardinality(NodeIds) \in Nat
  BY FiniteAssumption, FS_CardinalityType
<1>3. \A x \in ids : created[x] \in Nat
  BY <1>2 DEF Orders
<1>4. \A x, y \in ids : created[x] = created[y] => x = y
  BY DEF Orders, IsInjective
<1>5. \A x, y \in ids : <<x, y>> \in R <=> created[x] < created[y]
  OBVIOUS
<1> HIDE DEF R
<1>6. \A x \in ids : <<x, x>> \notin R
  <2>1. ASSUME NEW x \in ids PROVE ~(created[x] < created[x])
    BY <1>3
  <2>2. QED
    BY <1>5, <2>1
<1>7. \A x, y \in ids : x = y \/ <<x, y>> \in R \/ <<y, x>> \in R
  <2>1. ASSUME NEW x \in ids, NEW y \in ids
        PROVE  created[x] < created[y] \/ created[y] < created[x] \/ created[x] = created[y]
    <3>1. created[x] \in Nat /\ created[y] \in Nat
      BY <1>3
    <3>2. QED
      BY <3>1
  <2>2. QED
    BY <1>4, <1>5, <2>1
<1>8. \A x, y, z \in ids : <<x, y>> \in R /\ <<y, z>> \in R => <<x, z>> \in R
  <2>1. ASSUME NEW x \in ids, NEW y \in ids, NEW z \in ids,
               created[x] < created[y], created[y] < created[z]
        PROVE  created[x] < created[z]
    <3>1. created[x] \in Nat /\ created[y] \in Nat /\ created[z] \in Nat
      BY <1>3
    <3>2. QED
      BY <2>1, <3>1
  <2>2. QED
    BY <1>5, <2>1
<1>9. PICK s \in [1..n -> ids] : \A k, l \in 1..n : k < l => <<s[k], s[l]>> \in R
  BY <1>1, <1>6, <1>7, <1>8, Sortable
<1>10. Sorts(s)
  BY <1>5, <1>9
<1>11. InOrder(ids, created) \in [1..n -> ids] /\ Sorts(InOrder(ids, created))
  <2>1. InOrder(ids, created) = CHOOSE t \in [1..n -> ids] : Sorts(t)
    BY DEF InOrder
  <2> HIDE DEF Sorts
  <2>2. QED
    BY <1>9, <1>10, <2>1
<1> DEFINE t == InOrder(ids, created)
<1>12. \A k, l \in DOMAIN t : k < l => t[k] # t[l]
  <2>1. ASSUME NEW k \in DOMAIN t, NEW l \in DOMAIN t, k < l PROVE t[k] # t[l]
    <3>1. created[t[k]] < created[t[l]] /\ t[k] \in ids /\ created[t[k]] \in Nat
      BY <1>3, <1>11, <2>1
    <3> HIDE DEF t
    <3>2. QED
      BY <3>1
  <2>2. QED
    BY <2>1
<1>13. Range(t) = ids
  <2> HIDE DEF t
  <2>1. t \in [1..n -> ids]
    BY <1>11 DEF t
  <2>2. QED
    BY <1>1, <1>12, <2>1, ListingCovers
<1>14. QED
  BY <1>1, <1>11, <1>13

LEMMA ReachedIsBeyond ==
  ASSUME Inv, NEW s \in SearchStates, s.queue # <<>>, NEW type \in EdgeTypes \cup {None}
  PROVE  LET p == Head(s.queue) IN
         /\ p \in Seq(NodeIds) /\ p # <<>> /\ p[Len(p)] \in NodeIds
         /\ Reached(s, type) = Beyond({p[Len(p)]}, Steps("out", type))
         /\ Reached(s, type) \in SUBSET NodeIds
<1> DEFINE p == Head(s.queue)
           v == p[Len(p)]
<1>1. s.queue \in Seq(Paths)
  BY DEF SearchStates
<1>2. p \in Paths
  BY <1>1
<1>3. p \in Seq(NodeIds) /\ p # <<>>
  BY <1>2 DEF Paths
<1> HIDE DEF p
<1>4. v \in NodeIds
  BY <1>3
<1>5. Reached(s, type) = Neighbors(v, "out", type)
  BY DEF Reached, p
<1> HIDE DEF v
<1>6. "out" \in Directions /\ {v} \in SUBSET NodeIds
  BY <1>4 DEF Directions
<1>7. UNION {Neighbors(n, "out", type) : n \in {v}} = Neighbors(v, "out", type)
  OBVIOUS
<1>8. Neighbors(v, "out", type) = Beyond({v}, Steps("out", type))
  BY <1>6, <1>7, NeighborsAreBeyond
<1>9. Beyond({v}, Steps("out", type)) \in SUBSET NodeIds
  BY <1>6, StepsWalkable DEF Walkable, Beyond
<1>10. QED
  BY <1>3, <1>4, <1>5, <1>8, <1>9 DEF p, v

\* The queue after a round: the rest of it, then the first path extended by
\* each of the new nodes.
Grows(q, queue, new) ==
  LET p == Head(queue)
      m == Len(queue) - 1
  IN  /\ m \in Nat /\ Cardinality(new) \in Nat /\ Len(q) = m + Cardinality(new)
      /\ \A i \in 1..m : i \in DOMAIN q /\ q[i] = queue[i + 1]
      /\ \A i \in DOMAIN q : i \notin 1..m => \E nb \in new : q[i] = Append(p, nb)
      /\ \A nb \in new : \E i \in DOMAIN q : q[i] = Append(p, nb)

\* A state of the search after such a round.
ExtendsBy(t, s, ids) == /\ t \in SearchStates
                        /\ t.visited = s.visited \cup ids /\ t.found = s.found
                        /\ Grows(t.queue, s.queue, ids \ s.visited)

\* A round in which the end is not found leaves one.
LEMMA ExtendedShape ==
  ASSUME NEW s \in SearchStates, s.queue # <<>>, NEW ids \in SUBSET NodeIds,
         NEW created \in Orders
  PROVE  ExtendsBy(Extended(s, ids, created), s, ids)
<1> DEFINE p == Head(s.queue)
           m == Len(s.queue) - 1
           new == ids \ s.visited
           n == Cardinality(new)
           order == InOrder(new, created)
           tail == Tail(s.queue)
           added == [k \in DOMAIN order |-> Append(p, order[k])]
           q == tail \o added
<1>1. s.queue \in Seq(Paths)
  BY DEF SearchStates
<1>2. m \in Nat /\ tail \in Seq(Paths) /\ Len(tail) = m /\ \A i \in 1..m : tail[i] = s.queue[i + 1]
  BY <1>1
<1>3. p \in Paths
  BY <1>1
<1>4. n \in Nat /\ order \in [1..n -> new] /\ Range(order) = new
  <2>1. new \in SUBSET NodeIds
    OBVIOUS
  <2> HIDE DEF new
  <2>2. QED
    BY <2>1, InOrderLists
<1>5. Extended(s, ids, created) = [s EXCEPT !.queue = q, !.visited = s.visited \cup ids]
  BY DEF Extended
<1>6. \A nb \in new : Append(p, nb) \in Paths
  <2>1. ASSUME NEW nb \in NodeIds PROVE Append(p, nb) \in Paths
    <3>1. p \in Seq(NodeIds)
      BY <1>3 DEF Paths
    <3> HIDE DEF p
    <3>2. Append(p, nb) \in Seq(NodeIds) /\ Len(Append(p, nb)) = Len(p) + 1 /\ Len(p) \in Nat
      BY <3>1
    <3>3. Append(p, nb) # <<>>
      BY <3>2
    <3>4. QED
      BY <3>2, <3>3 DEF Paths
  <2>2. QED
    BY <2>1
<1> HIDE DEF p, new, order, tail
<1>7. added \in Seq(Paths) /\ Len(added) = n /\ \A k \in 1..n : added[k] = Append(p, order[k]) /\ order[k] \in new
  <2>1. DOMAIN order = 1..n /\ \A k \in 1..n : order[k] \in new
    BY <1>4
  <2> HIDE DEF n
  <2>2. \A k \in 1..n : Append(p, order[k]) \in Paths
    BY <1>6, <2>1
  <2>3. added = [k \in 1..n |-> Append(p, order[k])]
    BY <2>1
  <2> HIDE DEF added
  <2>4. added \in [1..n -> Paths]
    BY <2>2, <2>3
  <2>5. \A k \in 1..n : added[k] = Append(p, order[k])
    BY <2>3
  <2>6. n \in Nat
    BY <1>4
  <2>7. added \in Seq(Paths) /\ Len(added) = n
    BY <2>4, <2>6
  <2>8. QED
    BY <2>1, <2>5, <2>7
<1> HIDE DEF added, m, n
<1>8. q \in Seq(Paths) /\ Len(q) = m + n /\ DOMAIN q = 1..(m + n)
  <2> HIDE DEF Paths
  <2>1. tail \in Seq(Paths) /\ added \in Seq(Paths) /\ Len(tail) = m /\ Len(added) = n
    BY <1>2, <1>7
  <2>2. (tail \o added) \in Seq(Paths) /\ Len(tail \o added) = Len(tail) + Len(added)
    BY <2>1
  <2> DEFINE both == tail \o added
  <2>3. q = both
    OBVIOUS
  <2> HIDE DEF both, q
  <2>4. QED
    BY <2>1, <2>2, <2>3, <1>2, <1>4 DEF both
<1>9. \A i \in 1..m : i \in DOMAIN q /\ q[i] = tail[i]
  BY <1>2, <1>4, <1>7, <1>8
<1>10. \A k \in 1..n : m + k \in DOMAIN q /\ q[m + k] = added[k]
  <2> HIDE DEF Paths
  <2>1. ASSUME NEW k \in 1..n PROVE m + k \in 1..(m + n) /\ q[m + k] = added[k]
    <3>1. m \in Nat /\ n \in Nat /\ k \in Nat /\ 1 <= k /\ k <= n
      BY <1>2, <1>4
    <3>2. m + k \in 1..(m + n) /\ m + k > m /\ (m + k) - m = k
      BY <3>1
    <3>3. tail \in Seq(Paths) /\ added \in Seq(Paths) /\ Len(tail) = m /\ Len(added) = n
      BY <1>2, <1>7
    <3>4. q[m + k] = added[(m + k) - m]
      BY <3>1, <3>2, <3>3
    <3>5. QED
      BY <3>2, <3>4
  <2>2. QED
    BY <1>8, <2>1
<1> HIDE DEF q
<1>11. ASSUME NEW i \in DOMAIN q, i \notin 1..m PROVE \E nb \in new : q[i] = Append(p, nb)
  <2>1. i - m \in 1..n /\ m + (i - m) = i
    BY <1>2, <1>4, <1>8, <1>11
  <2>2. q[i] = added[i - m]
    BY <1>10, <2>1
  <2>3. QED
    BY <1>7, <2>1, <2>2
<1>12. ASSUME NEW nb \in new PROVE \E i \in DOMAIN q : q[i] = Append(p, nb)
  <2>1. PICK k \in 1..n : order[k] = nb
    BY <1>4 DEF Range
  <2>2. QED
    BY <1>7, <1>10, <2>1
<1>13. /\ Extended(s, ids, created) \in SearchStates
       /\ Extended(s, ids, created).queue = q
       /\ Extended(s, ids, created).visited = s.visited \cup ids
       /\ Extended(s, ids, created).found = s.found
  BY <1>5, <1>8 DEF SearchStates
<1>14. Grows(q, s.queue, new)
  BY <1>2, <1>4, <1>8, <1>9, <1>11, <1>12 DEF p, m, n, Grows
<1>15. QED
  BY <1>13, <1>14 DEF new, ExtendsBy
-----------------------------------------------------------------------------
(* find_path: what holds between two rounds.                               *)

Tip(path) == path[Len(path)]

Walks(path, start, steps) ==
  /\ path[1] = start
  /\ \A i \in 1..Len(path) - 1 : <<path[i], path[i + 1]>> \in steps

\* A queued path leads to a visited node that no walk reaches in fewer steps.
Queued(path, s, start, steps, depth) ==
  /\ path \in Paths
  /\ Walks(path, start, steps)
  /\ Len(path) - 1 <= depth
  /\ Tip(path) \in s.visited
  /\ \A j \in Nat : j < Len(path) - 1 => Tip(path) \notin Within(start, j, steps)

\* A visited node is still queued, or what is beyond it has been visited too,
\* or it is too far away to be extended.
Expanded(v, s, start, steps, depth) ==
  \/ \E i \in DOMAIN s.queue : Tip(s.queue[i]) = v
  \/ Beyond({v}, steps) \subseteq s.visited
  \/ \A j \in Nat : j < depth => v \notin Within(start, j, steps)

ByLength(s) == \A i, j \in DOMAIN s.queue :
  i < j => Len(s.queue[i]) <= Len(s.queue[j]) /\ Len(s.queue[j]) <= Len(s.queue[i]) + 1

Spreads(s, start, end, steps, depth) ==
  /\ start \in s.visited /\ end \notin s.visited
  /\ \A i \in DOMAIN s.queue : Queued(s.queue[i], s, start, steps, depth)
  /\ ByLength(s)
  /\ \A v \in s.visited : Expanded(v, s, start, steps, depth)

\* Each round takes a path and each node is queued at most once.
Counted(s, k) == s.queue = <<>> \/ Len(s.queue) + k <= Cardinality(s.visited)

\* The answer is a shortest path.
Answers(path, start, end, steps, depth) ==
  /\ Walks(path, start, steps)
  /\ Len(path) > 1 /\ path[Len(path)] = end /\ Len(path) - 1 <= depth
  /\ end \notin Within(start, Len(path) - 2, steps)

\* What holds after k rounds.
Searched(s, k, start, end, steps, depth) ==
  /\ s \in SearchStates
  /\ IF s.found = <<>>
     THEN Spreads(s, start, end, steps, depth) /\ Counted(s, k)
     ELSE Answers(s.found, start, end, steps, depth)

\* While no queued path is shorter than d steps, all within d steps of the
\* start has been visited.
LEMMA CloseVisited ==
  ASSUME NEW steps \in Walkable, NEW start \in NodeIds, NEW end, NEW depth \in Nat,
         NEW s \in SearchStates, Spreads(s, start, end, steps, depth),
         NEW d \in Nat, d <= depth, \A i \in DOMAIN s.queue : Len(s.queue[i]) - 1 >= d
  PROVE  \A j \in Nat : j <= d => Within(start, j, steps) \subseteq s.visited
<1> DEFINE W(j) == Within(start, j, steps)
           S == {j \in Nat : j <= d => W(j) \subseteq s.visited}
<1>1. W(0) = {start} /\ \A j \in Nat : W(j + 1) = W(j) \cup Beyond(W(j), steps)
  BY WithinNext
<1>2. \A v \in s.visited : \/ \E i \in DOMAIN s.queue : Tip(s.queue[i]) = v
                           \/ Beyond({v}, steps) \subseteq s.visited
                           \/ \A j \in Nat : j < depth => v \notin W(j)
  BY DEF Spreads, Expanded
<1>3. \A i \in DOMAIN s.queue : \A j \in Nat : j < Len(s.queue[i]) - 1 => Tip(s.queue[i]) \notin W(j)
  BY DEF Spreads, Queued
<1>4. \A i \in DOMAIN s.queue : Len(s.queue[i]) \in Nat
  BY DEF SearchStates, Paths
<1> HIDE DEF W
<1>5. 0 \in S
  BY <1>1 DEF Spreads
<1>6. ASSUME NEW j \in Nat, j \in S PROVE j + 1 \in S
  <2> SUFFICES ASSUME j + 1 <= d PROVE W(j + 1) \subseteq s.visited
    OBVIOUS
  <2>1. W(j) \subseteq s.visited /\ j < d /\ j < depth
    BY <1>6
  <2>2. ASSUME NEW v \in W(j) PROVE Beyond({v}, steps) \subseteq s.visited
    <3>1. ASSUME NEW i \in DOMAIN s.queue PROVE Tip(s.queue[i]) # v
      <4>1. j < Len(s.queue[i]) - 1
        BY <1>4, <2>1
      <4>2. QED
        BY <1>3, <2>2, <4>1
    <3>2. QED
      BY <1>2, <2>1, <2>2, <3>1
  <2>3. Beyond(W(j), steps) \subseteq s.visited
    BY <2>2 DEF Beyond
  <2>4. QED
    BY <1>1, <2>1, <2>3
<1> HIDE DEF S
<1>7. Nat \subseteq S
  BY <1>5, <1>6, Induction
<1>8. QED
  BY <1>7 DEF S, W

LEMMA TakenKeeps ==
  ASSUME NEW steps \in Walkable, NEW start \in NodeIds, NEW end, NEW depth \in Nat, NEW k \in Nat,
         NEW s \in SearchStates, s.queue # <<>>, s.found = <<>>,
         Spreads(s, start, end, steps, depth), Counted(s, k),
         Len(Head(s.queue)) - 1 >= depth
  PROVE  /\ Taken(s) \in SearchStates /\ Taken(s).found = <<>>
         /\ Spreads(Taken(s), start, end, steps, depth) /\ Counted(Taken(s), k + 1)
<1> DEFINE t == Taken(s)
           m == Len(s.queue) - 1
           p == Head(s.queue)
<1>1. s.queue \in Seq(Paths) /\ m \in Nat /\ Len(s.queue) = m + 1 /\ p = s.queue[1]
  BY DEF SearchStates
<1>2. /\ Tail(s.queue) \in Seq(Paths) /\ Len(Tail(s.queue)) = m
      /\ \A i \in 1..m : Tail(s.queue)[i] = s.queue[i + 1] /\ i + 1 \in DOMAIN s.queue
      /\ DOMAIN Tail(s.queue) = 1..m
  BY <1>1
<1>3. /\ t \in SearchStates /\ t.queue = Tail(s.queue)
      /\ t.visited = s.visited /\ t.found = s.found
  BY <1>2 DEF Taken, SearchStates
<1> HIDE DEF t, m, p
<1>4. \A i \in DOMAIN t.queue : i \in 1..m /\ i + 1 \in DOMAIN s.queue /\ t.queue[i] = s.queue[i + 1]
  BY <1>2, <1>3
<1>5. \A i \in DOMAIN s.queue : i = 1 \/ (i - 1 \in DOMAIN t.queue /\ t.queue[i - 1] = s.queue[i])
  <2>1. ASSUME NEW i \in DOMAIN s.queue, i # 1 PROVE i - 1 \in 1..m /\ (i - 1) + 1 = i
    BY <1>1, <2>1
  <2>2. QED
    BY <1>2, <1>3, <2>1
<1>6. start \in t.visited /\ end \notin t.visited
  BY <1>3 DEF Spreads
<1>7. ASSUME NEW i \in DOMAIN t.queue PROVE Queued(t.queue[i], t, start, steps, depth)
  <2>1. Queued(s.queue[i + 1], s, start, steps, depth)
    BY <1>4 DEF Spreads
  <2>2. QED
    BY <1>3, <1>4, <2>1 DEF Queued
<1>8. ByLength(t)
  <2>1. ASSUME NEW i \in DOMAIN t.queue, NEW j \in DOMAIN t.queue, i < j
        PROVE  Len(t.queue[i]) <= Len(t.queue[j]) /\ Len(t.queue[j]) <= Len(t.queue[i]) + 1
    <3>1. i + 1 < j + 1
      BY <1>4, <2>1
    <3>2. QED
      BY <1>4, <3>1 DEF Spreads, ByLength
  <2>2. QED
    BY <2>1 DEF ByLength
<1>9. ASSUME NEW v \in t.visited PROVE Expanded(v, t, start, steps, depth)
  <2>1. v \in s.visited
    BY <1>3
  <2>2. CASE \E i \in DOMAIN s.queue : Tip(s.queue[i]) = v
    <3>1. PICK i \in DOMAIN s.queue : Tip(s.queue[i]) = v
      BY <2>2
    <3>2. CASE i = 1
      <4>1. Queued(p, s, start, steps, depth) /\ Tip(p) = v
        BY <1>1, <3>1, <3>2 DEF Spreads
      <4>2. Len(p) \in Nat /\ Len(p) - 1 >= depth
        BY <4>1 DEF Queued, Paths, p
      <4>3. ASSUME NEW j \in Nat, j < depth PROVE v \notin Within(start, j, steps)
        <5>1. j < Len(p) - 1
          BY <4>2, <4>3
        <5>2. QED
          BY <4>1, <5>1 DEF Queued
      <4>4. QED
        BY <4>3 DEF Expanded
    <3>3. CASE i # 1
      BY <1>5, <3>1, <3>3 DEF Expanded
    <3>4. QED
      BY <3>2, <3>3
  <2>3. CASE Beyond({v}, steps) \subseteq s.visited
    BY <1>3, <2>3 DEF Expanded
  <2>4. CASE \A j \in Nat : j < depth => v \notin Within(start, j, steps)
    BY <2>4 DEF Expanded
  <2>5. QED
    BY <2>1, <2>2, <2>3, <2>4 DEF Spreads, Expanded
<1>10. Counted(t, k + 1)
  <2>1. Len(s.queue) + k <= Cardinality(s.visited)
    BY DEF Counted
  <2>2. Cardinality(s.visited) \in Nat
    BY FiniteAssumption, FS_Subset, FS_CardinalityType DEF SearchStates
  <2>3. Len(t.queue) = m /\ m \in Nat /\ Len(s.queue) = m + 1
    BY <1>1, <1>2, <1>3
  <2>4. m + (k + 1) <= Cardinality(s.visited)
    BY <2>1, <2>2, <2>3
  <2>5. QED
    BY <1>3, <2>3, <2>4 DEF Counted
<1>11. Spreads(t, start, end, steps, depth)
  BY <1>6, <1>7, <1>8, <1>9 DEF Spreads
<1>12. QED
  BY <1>3, <1>10, <1>11 DEF t

\* No queued path is shorter than the first: what is within its length has
\* been visited.
LEMMA HeadIsShortest ==
  ASSUME NEW steps \in Walkable, NEW start \in NodeIds, NEW end, NEW depth \in Nat,
         NEW s \in SearchStates, s.queue # <<>>, Spreads(s, start, end, steps, depth)
  PROVE  LET p == Head(s.queue) IN
         /\ p = s.queue[1] /\ 1 \in DOMAIN s.queue /\ Queued(p, s, start, steps, depth)
         /\ p \in Seq(NodeIds) /\ Len(p) - 1 \in Nat
         /\ \A i \in DOMAIN s.queue : /\ Len(s.queue[i]) \in Nat
                                      /\ Len(p) <= Len(s.queue[i])
                                      /\ Len(s.queue[i]) <= Len(p) + 1
         /\ \A j \in Nat : j <= Len(p) - 1 => Within(start, j, steps) \subseteq s.visited
<1> DEFINE p == Head(s.queue)
<1>1. s.queue \in Seq(Paths) /\ p = s.queue[1] /\ 1 \in DOMAIN s.queue
  BY DEF SearchStates
<1> HIDE DEF p
<1>2. Queued(p, s, start, steps, depth)
  BY <1>1 DEF Spreads
<1>3. \A i \in DOMAIN s.queue : Len(s.queue[i]) \in Nat
  BY <1>1 DEF Paths
<1>4. p \in Seq(NodeIds) /\ p # <<>> /\ Len(p) - 1 <= depth
  BY <1>2 DEF Queued, Paths
<1>5. Len(p) - 1 \in Nat /\ Len(p) \in Nat
  BY <1>4
<1>6. ASSUME NEW i \in DOMAIN s.queue
      PROVE  Len(p) <= Len(s.queue[i]) /\ Len(s.queue[i]) <= Len(p) + 1
  <2>1. i = 1 \/ 1 < i
    BY <1>1
  <2>2. CASE i = 1
    BY <1>1, <1>5, <2>2
  <2>3. CASE 1 < i
    BY <1>1, <2>3 DEF Spreads, ByLength
  <2>4. QED
    BY <2>1, <2>2, <2>3
<1>7. \A j \in Nat : j <= Len(p) - 1 => Within(start, j, steps) \subseteq s.visited
  <2>1. \A i \in DOMAIN s.queue : Len(s.queue[i]) - 1 >= Len(p) - 1
    BY <1>3, <1>5, <1>6
  <2> DEFINE d == Len(p) - 1
  <2>2. d \in Nat /\ d <= depth /\ \A i \in DOMAIN s.queue : Len(s.queue[i]) - 1 >= d
    BY <1>4, <1>5, <2>1
  <2> HIDE DEF d
  <2>3. \A j \in Nat : j <= d => Within(start, j, steps) \subseteq s.visited
    BY <2>2, CloseVisited
  <2>4. QED
    BY <2>3 DEF d
<1>8. QED
  BY <1>1, <1>2, <1>3, <1>4, <1>5, <1>6, <1>7 DEF p

\* A path of the graph and one node more.
LEMMA OneStepMore ==
  ASSUME NEW p \in Seq(NodeIds), Len(p) - 1 \in Nat, NEW nb \in NodeIds,
         NEW steps \in Walkable, NEW start, Walks(p, start, steps), nb \in Beyond({Tip(p)}, steps)
  PROVE  /\ Append(p, nb) \in Paths /\ Len(Append(p, nb)) = Len(p) + 1
         /\ Tip(Append(p, nb)) = nb /\ Walks(Append(p, nb), start, steps)
<1> DEFINE l == Len(p)
           q == Append(p, nb)
<1>1. l \in Nat /\ l >= 1
  OBVIOUS
<1>2. q \in Seq(NodeIds) /\ Len(q) = l + 1 /\ q[l + 1] = nb /\ \A i \in 1..l : q[i] = p[i]
  OBVIOUS
<1>3. Tip(p) = p[l]
  BY DEF Tip
<1> HIDE DEF q, l
<1>4. q # <<>>
  BY <1>1, <1>2
<1>5. <<p[l], nb>> \in steps
  <2>1. PICK e \in steps : e[1] = p[l] /\ e[2] = nb
    BY <1>3 DEF Beyond
  <2>2. e = <<p[l], nb>>
    BY <2>1 DEF Walkable
  <2>3. QED
    BY <2>2
<1>6. ASSUME NEW i \in 1..Len(q) - 1 PROVE <<q[i], q[i + 1]>> \in steps
  <2>1. i \in 1..l
    BY <1>1, <1>2
  <2>2. CASE i = l
    BY <1>2, <1>5, <2>1, <2>2
  <2>3. CASE i # l
    <3>1. i \in 1..l - 1 /\ i + 1 \in 1..l
      BY <1>1, <2>1, <2>3
    <3>2. <<p[i], p[i + 1]>> \in steps
      BY <3>1 DEF Walks, l
    <3>3. QED
      BY <1>2, <2>1, <3>1, <3>2
  <2>4. QED
    BY <2>2, <2>3
<1>7. q[1] = start
  <2>1. 1 \in 1..l
    BY <1>1
  <2>2. QED
    BY <1>2, <2>1 DEF Walks
<1>8. Walks(q, start, steps)
  BY <1>6, <1>7 DEF Walks
<1>9. QED
  BY <1>2, <1>4, <1>8 DEF q, l, Paths, Tip

LEMMA FoundAnswers ==
  ASSUME NEW steps \in Walkable, NEW start \in NodeIds, NEW end \in NodeIds, NEW depth \in Nat,
         NEW s \in SearchStates, s.queue # <<>>, Spreads(s, start, end, steps, depth),
         ~(Len(Head(s.queue)) - 1 >= depth), end \in Beyond({Tip(Head(s.queue))}, steps)
  PROVE  /\ Found(s, end) \in SearchStates /\ Found(s, end).found # <<>>
         /\ Answers(Found(s, end).found, start, end, steps, depth)
<1> DEFINE p == Head(s.queue)
           q == Append(p, end)
<1>1. /\ Queued(p, s, start, steps, depth) /\ p \in Seq(NodeIds) /\ Len(p) - 1 \in Nat
      /\ \A j \in Nat : j <= Len(p) - 1 => Within(start, j, steps) \subseteq s.visited
  BY HeadIsShortest
<1> HIDE DEF p
<1>2. /\ q \in Paths /\ Len(q) = Len(p) + 1
      /\ Tip(q) = end /\ Walks(q, start, steps)
  BY <1>1, OneStepMore DEF Queued, p
<1>3. Found(s, end) = [s EXCEPT !.found = q]
  BY DEF Found, p
<1> HIDE DEF q
<1>4. /\ Len(q) > 1 /\ Len(q) - 2 = Len(p) - 1 /\ Len(q) - 1 <= depth /\ Len(p) \in Nat
  BY <1>1, <1>2 DEF p
<1>5. end \notin Within(start, Len(q) - 2, steps)
  BY <1>1, <1>4 DEF Spreads
<1>6. Found(s, end) \in SearchStates /\ Found(s, end).found = q
  BY <1>2, <1>3 DEF SearchStates, Paths
<1>7. q # <<>>
  BY <1>2 DEF Paths
<1>8. Answers(q, start, end, steps, depth)
  BY <1>2, <1>4, <1>5 DEF Answers, Tip
<1>9. QED
  BY <1>6, <1>7, <1>8

LEMMA ExtendedKeeps ==
  ASSUME NEW steps \in Walkable, NEW start \in NodeIds, NEW end \in NodeIds,
         NEW depth \in Nat, NEW k \in Nat, NEW created \in Orders,
         NEW s, s.queue # <<>>, s.found = <<>>, Searched(s, k, start, end, steps, depth),
         ~(Len(Head(s.queue)) - 1 >= depth),
         NEW ids \in SUBSET NodeIds, ids = Beyond({Tip(Head(s.queue))}, steps), end \notin ids
  PROVE  Searched(Extended(s, ids, created), k + 1, start, end, steps, depth)
<1> DEFINE t == Extended(s, ids, created)
           m == Len(s.queue) - 1
           p == Head(s.queue)
           new == ids \ s.visited
           n == Cardinality(new)
<1>0. s \in SearchStates /\ Spreads(s, start, end, steps, depth) /\ Counted(s, k)
  BY DEF Searched
<1>1. /\ t \in SearchStates /\ t.visited = s.visited \cup ids /\ t.found = s.found
      /\ m \in Nat /\ n \in Nat /\ Len(t.queue) = m + n
      /\ \A i \in 1..m : i \in DOMAIN t.queue /\ t.queue[i] = s.queue[i + 1]
      /\ \A i \in DOMAIN t.queue : i \notin 1..m => \E nb \in new : t.queue[i] = Append(p, nb)
      /\ \A nb \in new : \E i \in DOMAIN t.queue : t.queue[i] = Append(p, nb)
  <2>1. s \in SearchStates /\ s.queue # <<>> /\ ids \in SUBSET NodeIds /\ created \in Orders
    BY <1>0
  <2>2. ExtendsBy(t, s, ids)
    BY <2>1, ExtendedShape
  <2>3. /\ t \in SearchStates /\ t.visited = s.visited \cup ids /\ t.found = s.found
        /\ Grows(t.queue, s.queue, new)
    BY <2>2 DEF ExtendsBy
  <2> HIDE DEF t, new
  <2>4. QED
    BY <2>3 DEF Grows
<1>2. /\ p = s.queue[1] /\ 1 \in DOMAIN s.queue /\ Queued(p, s, start, steps, depth)
      /\ p \in Seq(NodeIds) /\ Len(p) - 1 \in Nat
      /\ \A i \in DOMAIN s.queue : /\ Len(s.queue[i]) \in Nat
                                   /\ Len(p) <= Len(s.queue[i])
                                   /\ Len(s.queue[i]) <= Len(p) + 1
      /\ \A j \in Nat : j <= Len(p) - 1 => Within(start, j, steps) \subseteq s.visited
  BY <1>0, HeadIsShortest
<1>3. s.queue \in Seq(Paths) /\ Len(s.queue) = m + 1 /\ DOMAIN s.queue = 1..(m + 1)
  BY <1>0 DEF SearchStates
<1>4. t.queue \in Seq(Paths)
  BY <1>1 DEF SearchStates
<1>5. ids = Beyond({Tip(p)}, steps) /\ Len(p) \in Nat /\ Len(p) <= depth
  BY <1>2
<1> HIDE DEF t, m, p, n
<1>6. ASSUME NEW nb \in new
      PROVE  /\ Append(p, nb) \in Paths /\ Len(Append(p, nb)) = Len(p) + 1
             /\ Tip(Append(p, nb)) = nb /\ Queued(Append(p, nb), t, start, steps, depth)
  <2>1. nb \in NodeIds /\ nb \in Beyond({Tip(p)}, steps)
    BY <1>5
  <2>2. Walks(p, start, steps)
    BY <1>2 DEF Queued
  <2>3. /\ Append(p, nb) \in Paths /\ Len(Append(p, nb)) = Len(p) + 1
        /\ Tip(Append(p, nb)) = nb /\ Walks(Append(p, nb), start, steps)
    BY <1>2, <2>1, <2>2, OneStepMore
  <2>4. \A j \in Nat : j < Len(p) => nb \notin Within(start, j, steps)
    <3>1. ASSUME NEW j \in Nat, j < Len(p) PROVE nb \notin Within(start, j, steps)
      <4>1. j <= Len(p) - 1
        BY <1>5, <3>1
      <4>2. QED
        BY <1>2, <4>1
    <3>2. QED
      BY <3>1
  <2>5. (Len(p) + 1) - 1 = Len(p)
    BY <1>5
  <2> DEFINE q == Append(p, nb)
  <2> HIDE DEF q
  <2>6. q \in Paths /\ Len(q) - 1 = Len(p) /\ Tip(q) = nb /\ Walks(q, start, steps)
    BY <2>3, <2>5 DEF q
  <2>7. nb \in t.visited
    BY <1>1
  <2>8. Queued(q, t, start, steps, depth)
    BY <1>5, <2>4, <2>6, <2>7 DEF Queued
  <2>9. QED
    BY <2>3, <2>8 DEF q
<1> HIDE DEF new
<1>7. \A i \in 1..m : i + 1 \in DOMAIN s.queue
  BY <1>1, <1>3
<1>8. start \in t.visited /\ end \notin t.visited
  BY <1>0, <1>1 DEF Spreads
<1>9. ASSUME NEW i \in DOMAIN t.queue PROVE Queued(t.queue[i], t, start, steps, depth)
  <2>1. CASE i \in 1..m
    <3>1. Queued(s.queue[i + 1], s, start, steps, depth)
      BY <1>0, <1>7, <2>1 DEF Spreads
    <3>2. QED
      BY <1>1, <2>1, <3>1 DEF Queued
  <2>2. CASE i \notin 1..m
    BY <1>1, <1>6, <2>2
  <2>3. QED
    BY <2>1, <2>2
<1>10. ASSUME NEW i \in DOMAIN t.queue
       PROVE  /\ Len(t.queue[i]) \in Nat /\ i \in Nat /\ i >= 1
              /\ Len(p) <= Len(t.queue[i]) /\ Len(t.queue[i]) <= Len(p) + 1
              /\ i \notin 1..m => Len(t.queue[i]) = Len(p) + 1
  <2>1. CASE i \in 1..m
    <3>1. t.queue[i] = s.queue[i + 1] /\ i + 1 \in DOMAIN s.queue
      BY <1>1, <1>7, <2>1
    <3>2. m \in Nat
      BY <1>1
    <3>3. i \in Nat /\ i >= 1
      BY <2>1, <3>2
    <3>4. QED
      BY <1>2, <2>1, <3>1, <3>3
  <2>2. CASE i \notin 1..m
    <3>1. Len(t.queue[i]) = Len(p) + 1
      BY <1>1, <1>6, <2>2
    <3>2. i \in Nat /\ i >= 1
      BY <1>4
    <3>3. QED
      BY <1>5, <2>2, <3>1, <3>2
  <2>3. QED
    BY <2>1, <2>2
<1>11. ByLength(t)
  <2>1. ASSUME NEW i \in DOMAIN t.queue, NEW j \in DOMAIN t.queue, i < j
        PROVE  Len(t.queue[i]) <= Len(t.queue[j]) /\ Len(t.queue[j]) <= Len(t.queue[i]) + 1
    <3>1. CASE j \in 1..m
      <4>1. i \in 1..m /\ i + 1 < j + 1
        <5>1. m \in Nat
          BY <1>1
        <5>2. i \in Nat /\ i >= 1 /\ j \in Nat
          BY <1>10
        <5>3. QED
          BY <2>1, <3>1, <5>1, <5>2
      <4>2. QED
        BY <1>0, <1>1, <1>7, <3>1, <4>1 DEF Spreads, ByLength
    <3>2. CASE j \notin 1..m
      BY <1>5, <1>10, <3>2
    <3>3. QED
      BY <3>1, <3>2
  <2>2. QED
    BY <2>1 DEF ByLength
<1>12. ASSUME NEW v \in t.visited PROVE Expanded(v, t, start, steps, depth)
  <2>1. CASE v \in new
    <3>1. PICK i \in DOMAIN t.queue : t.queue[i] = Append(p, v)
      BY <1>1, <2>1
    <3>2. Tip(t.queue[i]) = v
      BY <1>6, <2>1, <3>1
    <3>3. QED
      BY <3>2 DEF Expanded
  <2>2. CASE v \in s.visited
    <3>1. CASE \E i \in DOMAIN s.queue : Tip(s.queue[i]) = v
      <4>1. PICK i \in DOMAIN s.queue : Tip(s.queue[i]) = v
        BY <3>1
      <4>2. CASE i = 1
        <5>1. Beyond({v}, steps) \subseteq t.visited
          BY <1>1, <1>2, <1>5, <4>1, <4>2
        <5>2. QED
          BY <5>1 DEF Expanded
      <4>3. CASE i # 1
        <5>1. i - 1 \in 1..m /\ (i - 1) + 1 = i
          <6>1. m \in Nat
            BY <1>1
          <6>2. i \in 1..(m + 1)
            BY <1>3
          <6>3. QED
            BY <4>3, <6>1, <6>2
        <5>2. i - 1 \in DOMAIN t.queue /\ t.queue[i - 1] = s.queue[i]
          BY <1>1, <5>1
        <5>3. QED
          BY <4>1, <5>2 DEF Expanded
      <4>4. QED
        BY <4>2, <4>3
    <3>2. CASE Beyond({v}, steps) \subseteq s.visited
      BY <1>1, <3>2 DEF Expanded
    <3>3. CASE \A j \in Nat : j < depth => v \notin Within(start, j, steps)
      BY <3>3 DEF Expanded
    <3>4. QED
      BY <1>0, <2>2, <3>1, <3>2, <3>3 DEF Spreads, Expanded
  <2>3. QED
    BY <1>1, <2>1, <2>2 DEF new
<1>13. Counted(t, k + 1)
  <2>1. Len(s.queue) + k <= Cardinality(s.visited)
    BY <1>0 DEF Counted
  <2>2. s.visited \in SUBSET NodeIds /\ new \in SUBSET NodeIds /\ s.visited \cap new = {}
    BY <1>0 DEF SearchStates, new
  <2>3. IsFiniteSet(s.visited) /\ IsFiniteSet(new)
    BY <2>2, FiniteAssumption, FS_Subset
  <2>4. Cardinality(s.visited \cup new) = Cardinality(s.visited) + n /\ Cardinality(s.visited) \in Nat
    <3>1. Cardinality(s.visited \cup new) =
            Cardinality(s.visited) + Cardinality(new) - Cardinality(s.visited \cap new)
      BY <2>3, FS_Union
    <3>2. Cardinality(s.visited \cap new) = 0
      BY <2>2, FS_EmptySet
    <3>3. Cardinality(s.visited) \in Nat /\ Cardinality(new) \in Nat
      BY <2>3, FS_CardinalityType
    <3>4. QED
      BY <3>1, <3>2, <3>3 DEF n
  <2>5. t.visited = s.visited \cup new
    BY <1>1 DEF new
  <2>6. Len(t.queue) + (k + 1) = (Len(s.queue) + k) + n
    BY <1>1, <1>3
  <2>7. Len(s.queue) \in Nat
    BY <1>3
  <2>8. (Len(s.queue) + k) + n <= Cardinality(s.visited) + n
    BY <1>1, <2>1, <2>4, <2>7
  <2>9. QED
    BY <2>4, <2>5, <2>6, <2>8 DEF Counted
<1>14. Spreads(t, start, end, steps, depth)
  BY <1>8, <1>9, <1>11, <1>12 DEF Spreads
<1>15. QED
  BY <1>0, <1>1, <1>13, <1>14 DEF t, Searched
-----------------------------------------------------------------------------
(* find_path: all the rounds.                                              *)

Opening(start) == [queue |-> <<<<start>>>>, visited |-> {start}, found |-> <<>>]

AfterRound(s, end, type, depth, created) ==
  IF s.queue = <<>> \/ s.found # <<>> THEN s ELSE Round(s, end, type, depth, created)

\* What the definition of FindPath computes after each round.
Searching(start, end, type, depth, created) ==
  CHOOSE run : run =
    [k \in 0..Cardinality(NodeIds) |->
       IF k = 0 THEN Opening(start) ELSE AfterRound(run[k - 1], end, type, depth, created)]

LEMMA SearchedKeeps ==
  ASSUME Inv, NEW start \in NodeIds, NEW end \in NodeIds, NEW depth \in Nat, NEW k \in Nat,
         NEW type \in EdgeTypes \cup {None}, NEW created \in Orders,
         NEW s, Searched(s, k, start, end, Steps("out", type), depth)
  PROVE  Searched(AfterRound(s, end, type, depth, created), k + 1,
                  start, end, Steps("out", type), depth)
<1> DEFINE steps == Steps("out", type)
           t == AfterRound(s, end, type, depth, created)
<1>1. steps \in Walkable
  BY StepsWalkable DEF Directions
<1>2. s \in SearchStates
  BY DEF Searched
<1>3. CASE s.queue = <<>> \/ s.found # <<>>
  <2>1. t = s
    BY <1>3 DEF AfterRound
  <2> HIDE DEF t, steps
  <2>2. s.found # <<>> \/ Counted(s, k + 1)
    BY <1>3 DEF Counted
  <2>3. Searched(s, k, start, end, steps, depth)
    BY DEF steps
  <2>4. Searched(s, k + 1, start, end, steps, depth)
    BY <2>2, <2>3 DEF Searched
  <2>5. QED
    BY <2>1, <2>4 DEF t, steps
<1>4. CASE s.queue # <<>> /\ s.found = <<>>
  <2>1. Spreads(s, start, end, steps, depth) /\ Counted(s, k)
    BY <1>4 DEF Searched
  <2>2. t = Round(s, end, type, depth, created)
    BY <1>4 DEF AfterRound
  <2> DEFINE p == Head(s.queue)
             ids == Reached(s, type)
  <2>3. ids = Beyond({Tip(p)}, steps) /\ ids \in SUBSET NodeIds
    BY <1>2, <1>4, ReachedIsBeyond DEF Tip
  <2>4. CASE Len(p) - 1 >= depth
    <3>1. t = Taken(s)
      BY <2>2, <2>4 DEF Round
    <3> HIDE DEF t, steps
    <3>2. /\ Taken(s) \in SearchStates /\ Taken(s).found = <<>>
          /\ Spreads(Taken(s), start, end, steps, depth) /\ Counted(Taken(s), k + 1)
      BY <1>1, <1>2, <1>4, <2>1, <2>4, TakenKeeps
    <3>3. Searched(t, k + 1, start, end, steps, depth)
      BY <3>1, <3>2 DEF Searched
    <3>4. QED
      BY <3>3 DEF t, steps
  <2>5. CASE ~(Len(p) - 1 >= depth) /\ end \in ids
    <3>1. t = Found(s, end)
      BY <2>2, <2>5 DEF Round
    <3>2. end \in Beyond({Tip(p)}, steps)
      BY <2>3, <2>5
    <3> HIDE DEF t, steps
    <3>3. /\ Found(s, end) \in SearchStates /\ Found(s, end).found # <<>>
          /\ Answers(Found(s, end).found, start, end, steps, depth)
      BY <1>1, <1>2, <1>4, <2>1, <2>5, <3>2, FoundAnswers
    <3>4. Searched(t, k + 1, start, end, steps, depth)
      BY <3>1, <3>3 DEF Searched
    <3>5. QED
      BY <3>4 DEF t, steps
  <2>6. CASE ~(Len(p) - 1 >= depth) /\ end \notin ids
    <3>1. t = Extended(s, ids, created)
      BY <2>2, <2>6 DEF Round
    <3> HIDE DEF t, steps, ids
    <3>2. ids \in SUBSET NodeIds /\ ids = Beyond({Tip(Head(s.queue))}, steps) /\ end \notin ids
      BY <2>3, <2>6
    <3>3. ~(Len(Head(s.queue)) - 1 >= depth)
      BY <2>6
    <3>4. Searched(s, k, start, end, steps, depth)
      BY DEF steps
    <3> HIDE DEF p
    <3>5. Searched(Extended(s, ids, created), k + 1, start, end, steps, depth)
      BY <1>1, <1>4, <3>2, <3>3, <3>4, ExtendedKeeps
    <3>6. QED
      BY <3>1, <3>5 DEF t, steps
  <2>7. QED
    BY <2>4, <2>5, <2>6
<1>5. QED
  BY <1>3, <1>4

LEMMA OpeningSearched ==
  ASSUME Inv, NEW start \in NodeIds, NEW end \in NodeIds, start # end, NEW depth \in Nat,
         NEW steps \in Walkable
  PROVE  Searched(Opening(start), 0, start, end, steps, depth)
<1> DEFINE s == Opening(start)
           p == <<start>>
<1>1. p \in Paths /\ Len(p) = 1 /\ p[1] = start
  BY DEF Paths
<1> HIDE DEF p
<1>2. /\ s.queue = <<p>> /\ s.visited = {start} /\ s.found = <<>>
      /\ s = [queue |-> <<p>>, visited |-> {start}, found |-> <<>>]
  BY DEF Opening, p
<1>3. <<p>> \in Seq(Paths) /\ Len(<<p>>) = 1 /\ <<p>>[1] = p /\ DOMAIN <<p>> = {1}
  BY <1>1
<1>4. s \in SearchStates
  BY <1>2, <1>3 DEF SearchStates
<1> HIDE DEF s
<1>5. /\ s.queue \in Seq(Paths) /\ Len(s.queue) = 1 /\ s.queue[1] = p /\ DOMAIN s.queue = {1}
  BY <1>2, <1>3
<1>6. Tip(p) = start
  BY <1>1 DEF Tip
<1>7. Queued(p, s, start, steps, depth)
  <2>1. Walks(p, start, steps)
    BY <1>1 DEF Walks
  <2>2. QED
    BY <1>1, <1>2, <1>6, <2>1 DEF Queued
<1>8. ByLength(s)
  BY <1>5 DEF ByLength
<1>9. Expanded(start, s, start, steps, depth)
  BY <1>5, <1>6 DEF Expanded
<1>10. Spreads(s, start, end, steps, depth)
  BY <1>2, <1>5, <1>7, <1>8, <1>9 DEF Spreads
<1>11. Counted(s, 0)
  <2>1. Cardinality({start}) = 1
    BY FS_Singleton
  <2>2. QED
    BY <1>2, <1>5, <2>1 DEF Counted
<1>12. QED
  BY <1>2, <1>4, <1>10, <1>11 DEF Searched, s

LEMMA SearchingSteps ==
  ASSUME Inv, NEW start \in NodeIds, NEW end \in NodeIds, start # end, NEW depth \in Nat,
         NEW type \in EdgeTypes \cup {None}, NEW created \in Orders
  PROVE  Searched(Searching(start, end, type, depth, created)[Cardinality(NodeIds)],
                  Cardinality(NodeIds), start, end, Steps("out", type), depth)
<1> DEFINE n == Cardinality(NodeIds)
           steps == Steps("out", type)
           Holds(s, k) == Searched(s, k, start, end, steps, depth)
           A == {s \in SearchStates : \E k \in Nat : Holds(s, k)}
           After(s) == AfterRound(s, end, type, depth, created)
           a == Opening(start)
           h == [p \in (1..n) \X A |-> After(p[2])]
           Is(r) == r = [k \in 0..n |-> IF k = 0 THEN a ELSE After(r[k - 1])]
<1>1. n \in Nat /\ steps \in Walkable
  BY FiniteAssumption, FS_CardinalityType, StepsWalkable DEF Directions
<1>2. Holds(a, 0)
  BY <1>1, OpeningSearched
<1>3. \A s : \A k \in Nat : Holds(s, k) => Holds(After(s), k + 1)
  BY SearchedKeeps
<1>4. \A s : \A k \in Nat : Holds(s, k) => s \in A
  BY DEF Searched
<1>5. Searching(start, end, type, depth, created) = CHOOSE r : Is(r)
  BY DEF Searching
<1> HIDE DEF n, steps, After, a, Holds
<1>6. ASSUME NEW s \in A PROVE After(s) \in A
  <2>1. PICK k \in Nat : Holds(s, k)
    OBVIOUS
  <2>2. k + 1 \in Nat /\ Holds(After(s), k + 1)
    BY <1>3, <2>1
  <2>3. QED
    BY <1>4, <2>2
<1>7. a \in A
  BY <1>2, <1>4
<1> HIDE DEF A
<1>8. h \in StepsOn(n, A)
  BY <1>6 DEF StepsOn
<1>9. PICK g \in [0..n -> A] : g[0] = a /\ \A k \in 1..n : g[k] = h[<<k, g[k - 1]>>]
  <2> HIDE DEF h
  <2>1. \E g \in [0..n -> A] : Follows(g, n, a, h)
    BY <1>1, <1>7, <1>8, Recursion
  <2>2. QED
    BY <2>1 DEF Follows
<1>10. ASSUME NEW k \in 1..n PROVE g[k] = After(g[k - 1])
  <2>1. k - 1 \in 0..n
    BY <1>1
  <2>2. <<k, g[k - 1]>> \in (1..n) \X A
    BY <1>9, <2>1
  <2>3. QED
    BY <1>9, <2>2
<1>11. Is(g)
  <2>1. \A k \in 0..n : g[k] = IF k = 0 THEN a ELSE After(g[k - 1])
    BY <1>1, <1>9, <1>10
  <2>2. QED
    BY <1>9, <2>1
<1> DEFINE r == Searching(start, end, type, depth, created)
<1>12. Is(r)
  <2> HIDE DEF Is
  <2>1. QED
    BY <1>5, <1>11
<1> HIDE DEF r
<1>13. \A k \in 0..n : r[k] = IF k = 0 THEN a ELSE After(r[k - 1])
  BY <1>12
<1> HIDE DEF Is
<1>14. r[0] = a /\ \A k \in 1..n : r[k] = After(r[k - 1])
  <2>1. 0 \in 0..n /\ \A k \in 1..n : k \in 0..n /\ k # 0
    BY <1>1
  <2>2. QED
    BY <1>13, <2>1
<1> DEFINE S == {k \in Nat : k <= n => Holds(r[k], k)}
<1>15. 0 \in S
  BY <1>2, <1>14
<1>16. ASSUME NEW k \in Nat, k \in S PROVE k + 1 \in S
  <2> SUFFICES ASSUME k + 1 <= n PROVE Holds(r[k + 1], k + 1)
    OBVIOUS
  <2>1. k + 1 \in 1..n /\ (k + 1) - 1 = k /\ Holds(r[k], k)
    BY <1>1, <1>16
  <2>2. r[k + 1] = After(r[k])
    BY <1>14, <2>1
  <2>3. QED
    BY <1>3, <2>1, <2>2
<1> HIDE DEF S
<1>17. n \in S
  BY <1>1, <1>15, <1>16, Induction
<1>18. Holds(r[n], n)
  BY <1>1, <1>17 DEF S
<1>19. QED
  BY <1>18 DEF Holds, r, n, steps

LEMMA PathsAreShortest ==
  ASSUME Inv, NEW depth \in Nat
  PROVE  PathIsShortest(depth)
<1> SUFFICES ASSUME NEW start \in NodesIn, NEW end \in NodesIn,
                    NEW type \in EdgeTypes \cup {None}, NEW created \in Orders
             PROVE  LET path == FindPath(start, end, type, depth, created)
                        steps == Steps("out", type)
                    IN  IF path = <<>>
                        THEN end \notin Within(start, depth, steps)
                        ELSE /\ path[1] = start /\ path[Len(path)] = end
                             /\ \A i \in 1..Len(path) - 1 : <<path[i], path[i + 1]>> \in steps
                             /\ Len(path) - 1 <= depth
                             /\ Len(path) > 1 => end \notin Within(start, Len(path) - 2, steps)
  BY DEF PathIsShortest
<1> DEFINE path == FindPath(start, end, type, depth, created)
           steps == Steps("out", type)
           n == Cardinality(NodeIds)
<1>1. start \in NodeIds /\ end \in NodeIds
  BY DEF NodesIn
<1>2. steps \in Walkable
  BY StepsWalkable DEF Directions
<1>3. CASE start = end
  <2>1. path = <<start>>
    BY <1>3 DEF FindPath
  <2>2. Len(<<start>>) = 1 /\ <<start>>[1] = start /\ <<start>> # <<>>
    OBVIOUS
  <2>3. QED
    BY <1>3, <2>1, <2>2
<1>4. CASE start # end
  <2> DEFINE s == Searching(start, end, type, depth, created)[n]
  <2>1. path = s.found
    BY <1>4 DEF FindPath, Searching, Opening, AfterRound
  <2>2. Searched(s, n, start, end, steps, depth)
    BY <1>1, <1>4, SearchingSteps
  <2> HIDE DEF path, s, steps, n
  <2>3. CASE s.found # <<>>
    <3>1. Answers(path, start, end, steps, depth)
      BY <2>1, <2>2, <2>3 DEF Searched
    <3>2. path # <<>>
      BY <2>1, <2>3
    <3>3. QED
      BY <3>1, <3>2 DEF Answers, Walks, path, steps
  <2>4. CASE s.found = <<>>
    <3>1. s \in SearchStates /\ Spreads(s, start, end, steps, depth) /\ Counted(s, n)
      BY <2>2, <2>4 DEF Searched
    <3>2. s.queue = <<>>
      <4>1. Cardinality(s.visited) \in Nat /\ Cardinality(s.visited) <= n /\ n \in Nat
        BY <3>1, FiniteAssumption, FS_Subset, FS_CardinalityType DEF SearchStates, n
      <4>2. s.queue \in Seq(Paths) /\ Len(s.queue) \in Nat
        BY <3>1 DEF SearchStates
      <4>3. s.queue # <<>> => Len(s.queue) > 0
        BY <4>2
      <4>4. QED
        BY <3>1, <4>1, <4>2, <4>3 DEF Counted
    <3>3. \A i \in DOMAIN s.queue : Len(s.queue[i]) - 1 >= depth
      BY <3>2
    <3>4. \A j \in Nat : j <= depth => Within(start, j, steps) \subseteq s.visited
      <4>1. depth \in Nat /\ depth <= depth
        OBVIOUS
      <4>2. QED
        BY <1>1, <1>2, <3>1, <3>3, <4>1, CloseVisited
    <3>5. end \notin Within(start, depth, steps)
      BY <3>1, <3>4 DEF Spreads
    <3>6. path = <<>>
      BY <2>1, <2>4
    <3>7. QED
      BY <3>5, <3>6 DEF path, steps
  <2>5. QED
    BY <2>3, <2>4
<1>5. QED
  BY <1>3, <1>4

\* bfs and find_path find what the walks of the graph reach, at its distance and
\* by a shortest path, whatever max_depth is asked for.
THEOREM SearchAlwaysSound ==
  Spec => [](SearchSound /\ \A depth \in Nat : BfsByDistance(depth) /\ PathIsShortest(depth))
<1>1. ASSUME Inv PROVE \A depth \in Nat : BfsByDistance(depth) /\ PathIsShortest(depth)
  BY <1>1, BfsFindsDistances, PathsAreShortest
<1>2. 3 \in Nat /\ 0..3 \subseteq Nat
  OBVIOUS
<1>3. Inv => SearchSound /\ \A depth \in Nat : BfsByDistance(depth) /\ PathIsShortest(depth)
  BY <1>1, <1>2 DEF SearchSound
<1>4. QED
  BY <1>3, KnowledgeGraphInv, PTL

=============================================================================
