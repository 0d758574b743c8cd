---------------------------- MODULE MemoryRouter ----------------------------
(***************************************************************************)
(* day_51/memory_router.py: a query is analysed by counting keywords of    *)
(* four intents, a strategy turns the analysis into a memory type, the     *)
(* HybridMemory is asked, and an adaptive strategy learns from the number  *)
(* of results.                                                             *)
(*                                                                         *)
(* A query is its keyword counts; the hints that become query arguments    *)
(* are left out.  Scores are counted from their initial 0.5 in steps of    *)
(* 0.02, the smallest reward times the learning rate 0.1; five results     *)
(* and more earn the same.  Of _history only the last record is kept.      *)
(***************************************************************************)
EXTENDS Integers

CONSTANTS RoutedQueries,  \* keyword counts of the queries asked: 1..4 -> Nat
          ResultCounts,   \* numbers of results that HybridMemory may return
          Base,           \* base strategy of the adaptive one
          Exploration,    \* exploration_rate, in steps: 10
          MaxScore,       \* bound: how far a score may move
          NoRecord

ASSUME RouterAssumption ==
  /\ RoutedQueries \subseteq [1..4 -> Nat] /\ ResultCounts \subseteq Nat
  /\ Base \in {"keyword", "weighted"} /\ Exploration \in Nat /\ MaxScore \in Nat

IntentOrder == <<"temporal", "factual", "experiential", "relational">>
Intents == {"temporal", "factual", "experiential", "relational"}
MemoryTypes == {"episodic", "semantic"}
AnyType == MemoryTypes \cup {"both"}
Strategies == {"keyword", "weighted", "adaptive"}

VARIABLES strategy,     \* the router's strategy; there is one object of each
          scores,       \* _scores of the adaptive one: intent -> type -> steps
          routed,       \* _query_count; beyond 3 it does not matter
          last          \* the last record of _history, or None

routerVars == <<strategy, scores, routed, last>>

NoScores == [i \in Intents |-> [t \in MemoryTypes |-> 0]]

RouterInit == /\ strategy = "keyword"
              /\ scores = NoScores
              /\ routed = 0
              /\ last = NoRecord

-----------------------------------------------------------------------------
(* analyse_query.                                                          *)

KeywordTotal(q) == q[1] + q[2] + q[3] + q[4]

\* The first of the intents with the most keywords.
Best(q) == CHOOSE i \in 1..4 : /\ \A j \in 1..4 : q[j] <= q[i]
                               /\ \A j \in 1..i - 1 : q[j] < q[i]

Intent(q) == IF q[Best(q)] = 0 THEN "ambiguous" ELSE IntentOrder[Best(q)]

\* The sources that hold each type, and _intent_to_targets.
Episodic == {"event_store", "experience_tracker"}
Semantic == {"fact_store", "knowledge_graph"}

Target(type, sources) == [type |-> type, sources |-> sources]
Everything == Target("both", Episodic \cup Semantic)

Targets(intent) ==
  CASE intent = "temporal"     -> Target("episodic", {"event_store"})
    [] intent = "factual"      -> Target("semantic", Semantic)
    [] intent = "experiential" -> Target("episodic", {"experience_tracker"})
    [] intent = "relational"   -> Target("semantic", {"knowledge_graph"})
    [] OTHER                   -> Everything

-----------------------------------------------------------------------------
(* Strategies.                                                             *)

\* The weighted strategy wants half of the signal.
Clear(q) == q[Best(q)] > 0 /\ 2 * q[Best(q)] >= KeywordTotal(q)

ByKeyword(q) == Targets(Intent(q))
ByWeight(q) == IF Clear(q) THEN Targets(Intent(q)) ELSE Everything
ByBase(q) == IF Base = "keyword" THEN ByKeyword(q) ELSE ByWeight(q)

Spread(i) == LET e == scores[i]["episodic"]
                 s == scores[i]["semantic"]
             IN  IF e > s THEN e - s ELSE s - e

Leader(i) == IF scores[i]["semantic"] > scores[i]["episodic"] THEN "semantic"
                                                                ELSE "episodic"

\* The learned type, with the sources of its kind if it is not the intent's.
LearnedTarget(intent) ==
  LET type == Leader(intent) IN
  IF type = Targets(intent).type THEN Targets(intent)
  ELSE Targets(IF type = "episodic" THEN "temporal" ELSE "factual")

\* The first three queries go by the base strategy, and then an intent whose
\* scores are close goes everywhere.  At a spread of just the exploration rate
\* the rounding of the floating-point sums decides.
ByScores(q) ==
  IF Intent(q) = "ambiguous" \/ routed < 3 THEN {ByBase(q)}
  ELSE {d \in {Everything} : Spread(Intent(q)) <= Exploration} \cup
       {d \in {LearnedTarget(Intent(q))} : Spread(Intent(q)) >= Exploration}

Decisions(q) == CASE strategy = "keyword"  -> {ByKeyword(q)}
                  [] strategy = "weighted" -> {ByWeight(q)}
                  [] strategy = "adaptive" -> ByScores(q)

-----------------------------------------------------------------------------
Reward(n) == IF n = 0 THEN -1 ELSE IF n < 5 THEN n ELSE 5

\* Seeded fault: a fallback to both types credits both.
RecordedForBoth(intent, type, n) ==
  IF intent = "ambiguous" THEN scores
  ELSE [scores EXCEPT ![intent] = [t \in MemoryTypes |->
          IF type \in {t, "both"} THEN @[t] + Reward(n) ELSE @[t]]]

\* record_outcome: nothing is learned from both.
Recorded(intent, type, n) ==
  IF type = "both" THEN scores ELSE [scores EXCEPT ![intent][type] = @ + Reward(n)]

Within(s) == \A i \in DOMAIN s, t \in MemoryTypes : s[i][t] \in -MaxScore..MaxScore

Counted == IF strategy # "adaptive" \/ routed > 3 THEN routed ELSE routed + 1

\* route and route_with_analysis.  When the caller overrides the memory type,
\* other stores are asked; what was decided is recorded and credited all the
\* same.
Route(q, n) ==
  \E d \in Decisions(q) :
    /\ scores' = IF strategy = "adaptive" THEN Recorded(Intent(q), d.type, n) ELSE scores
    /\ Within(scores')
    /\ routed' = Counted
    /\ last' = [intent |-> Intent(q), decision |-> d, results |-> n]
    /\ UNCHANGED strategy

\* HybridMemory.query raises, on an argument it does not have, say.
RouteFails(q) ==
  /\ routed' = Counted
  /\ UNCHANGED <<strategy, scores, last>>

\* The caller reports an outcome of his own.
RecordRouting(intent, type, n) ==
  /\ scores' = Recorded(intent, type, n)
  /\ Within(scores')
  /\ UNCHANGED <<strategy, routed, last>>

SetStrategy == /\ strategy' \in Strategies
               /\ UNCHANGED <<scores, routed, last>>

ResetScores == /\ scores' = NoScores /\ routed' = 0
               /\ UNCHANGED <<strategy, last>>

ClearHistory == last' = NoRecord /\ UNCHANGED <<strategy, scores, routed>>

RouteStep == \E q \in RoutedQueries, n \in ResultCounts : Route(q, n)

RouterNext == \/ RouteStep \/ SetStrategy \/ ResetScores \/ ClearHistory
              \/ \E q \in RoutedQueries : RouteFails(q)
              \/ \E i \in {Intent(q) : q \in RoutedQueries} \ {"ambiguous"},
                    t \in AnyType, n \in ResultCounts : RecordRouting(i, t, n)

RouterSpec == RouterInit /\ [][RouterNext]_routerVars

-----------------------------------------------------------------------------
(* Properties.                                                             *)

RouterTypeOK == /\ strategy \in Strategies
                /\ scores \in [Intents -> [MemoryTypes -> -MaxScore..MaxScore]]
                /\ routed \in 0..4
                /\ last # NoRecord => last.decision.type \in AnyType

\* However a decision came about - by keyword, by weight, by what was learned
\* against the keywords - the sources it names hold items of the type it names.
SourcesFitType ==
  last # NoRecord =>
    LET d == last.decision IN
    /\ d.sources # {}
    /\ d.type = "episodic" => d.sources \subseteq Episodic
    /\ d.type = "semantic" => d.sources \subseteq Semantic
    /\ d.type = "both" => d.sources = Episodic \cup Semantic

\* Past its first three queries, the router learns nothing more about an intent
\* whose scores are close: its queries go to both types, which earn no credit,
\* until somebody resets the scores or reports an outcome by hand.
FallbackIsForever ==
  [][\A i \in Intents :
       routed >= 3 /\ Spread(i) < Exploration /\ scores'[i] # scores[i]
         => ~RouteStep]_routerVars

\* Decisions name sources of their type, and learning from them stops at close
\* scores.
RoutingSound == []SourcesFitType /\ FallbackIsForever
=============================================================================
