------------------------- MODULE MCTypeSelector -----------------------------
(***************************************************************************)
(* The run of the ways a query takes.  One of four workloads is chosen at  *)
(* the start: calls that fan out in a thread pool ("pooled"), calls that   *)
(* ask one query after the other ("serial"), the router that chooses       *)
(* memory types ("router"), the selector that chooses layers ("selector"). *)
(* The state space is the disjoint union of the four.                      *)
(***************************************************************************)
EXTENDS TypeSelector, MemoryRouter, CrossTypeQueries

VARIABLE workload

-----------------------------------------------------------------------------
(* Items and calls.                                                        *)

Item(id, source, words, key, relevance, ts) ==
  [id |-> id, source |-> source, words |-> words, key |-> key,
   relevance |-> relevance, ts |-> ts]

\* The node has the id of the event; two keys of episodic items make a hint
\* that nothing matches.
Event == Item(1, "event", {"a"}, "b", 100, 1)
Fact == Item(2, "fact", {"a", "b"}, "a", 100, 2)
Node == Item(1, "node", {"b"}, "b", 50, 3)
Experience == Item(3, "experience", {"a"}, "a", 100, 4)
SomeItems == {Event, Fact, Node, Experience}

Call(kind, ranking, types, limit) ==
  [kind |-> kind, text |-> "a", ranking |-> ranking, types |-> types,
   limit |-> limit, status |-> "none", result |-> <<>>]

BothTypes == <<"episodic", "semantic">>
PooledCalls == {Call("parallel", "relevance", <<"both", "semantic", "episodic">>, 0),
                Call("coordinated", "relevance", <<"episodic", "both">>, 0)}
SerialCalls == {Call("combined", "timestamp", BothTypes, 1),
                Call("sequential", "relevance", BothTypes, 0),
                Call("multi_hop", "source_priority", <<"both", "semantic">>, 2),
                Call("layers", "relevance", BothTypes, 0)}

SomeCalls == PooledCalls \cup SerialCalls

-----------------------------------------------------------------------------
(* Router: no keywords; an intent with all of the signal, and with two     *)
(* fifths of it.  No results, or many.                                     *)

RouterQueries == {<<0, 0, 0, 0>>, <<0, 0, 1, 0>>, <<1, 1, 2, 1>>}

-----------------------------------------------------------------------------
(* Selector: no keywords; a need on which the voters disagree; a query of  *)
(* the same need whose raw score is above 1.                               *)

Words(t, f, e, r, c) == [temporal |-> t, factual |-> f, experiential |-> e,
                         relational |-> r, conversational |-> c]
SomeQueries == {Words(0, 0, 0, 0, 0), Words(0, 1, 0, 0, 1), Words(0, 0, 0, 0, 2)}

-----------------------------------------------------------------------------
MCInit == /\ SelectorInit /\ RouterInit /\ QueriesInit
          /\ workload \in {"pooled", "serial", "router", "selector"}
          /\ workload \in {"router", "selector"} => memory = {}

CrossStep(calls) == \/ \E c \in calls : Begin(c)
                    \/ Worker \/ Caller
                    \/ \E i \in Items : Change(i)

MCNext ==
  /\ UNCHANGED workload
  /\ \/ workload = "pooled" /\ CrossStep(PooledCalls) /\ UNCHANGED <<selectorVars, routerVars>>
     \/ workload = "serial" /\ CrossStep(SerialCalls) /\ UNCHANGED <<selectorVars, routerVars>>
     \/ workload = "router" /\ RouterNext /\ UNCHANGED <<selectorVars, queryVars>>
     \/ workload = "selector" /\ SelectorNext /\ UNCHANGED <<routerVars, queryVars>>

MCSpec == /\ MCInit /\ [][MCNext]_<<selectorVars, routerVars, queryVars, workload>>
          /\ WF_queryVars(Worker) /\ WF_queryVars(Caller)
=============================================================================
