---------------------------- MODULE TypeSelector ----------------------------
(***************************************************************************)
(* day_52/type_selector.py: an AutoSelector asks one of several algorithms *)
(* for the memory layer of a query and caches the answer by query; a       *)
(* SelectionOptimizer tells it how many results a selection produced,      *)
(* which the pattern-based algorithm learns from.                          *)
(*                                                                         *)
(* A query is its keyword counts.  Each layer goes with one memory type,   *)
(* so it stands for the pair.  Scores and confidences are shares of Whole. *)
(* The outcomes are counted; their per-algorithm scores, which only        *)
(* stats() reads, are left out.                                            *)
(***************************************************************************)
EXTENDS Integers, Sequences

CONSTANTS Queries,      \* keyword counts of the queries: 1..5 -> Nat
          Counts,       \* numbers of results reported
          MaxOutcomes,  \* bound: outcomes recorded
          MaxLearned,   \* bound: results learned for one information need
          NoSelection   \* nothing cached, nothing answered

Whole == 1200
Threshold == (Whole * 3) \div 10    \* RuleBasedSelector's, the baseline score
Tenth == Whole \div 10              \* min_confidence, confidence of a fallback

Signals == {"temporal", "factual", "experiential", "relational", "conversational"}

ASSUME SelectorAssumption ==
  /\ Queries \subseteq [Signals -> Nat]
  /\ Counts \subseteq Nat /\ MaxOutcomes \in Nat /\ MaxLearned \in Nat

\* In the order of the dictionaries and of the candidates.
Layers == <<"working", "short_term", "long_term", "hybrid">>
LayerNames == {"working", "short_term", "long_term", "hybrid"}
Order == <<"temporal", "factual", "experiential", "relational", "conversational">>
Algorithms == {"rule_based", "query_based", "pattern_based", "hybrid", "broken"}
Learning == {"pattern_based", "hybrid"}

VARIABLES algorithm,    \* the AutoSelector's algorithm, by name
          patterns,     \* _patterns: need -> layer -> results
          query_count,  \* _query_count; beyond 6 it does not matter
          cache,        \* _cache: query -> selection or None
          answer,       \* the last selection a caller got, with its query, or None
          outcomes      \* len(_outcomes)

selectorVars == <<algorithm, patterns, query_count, cache, answer, outcomes>>

NoPatterns == [need \in Signals |-> [l \in LayerNames |-> 0]]
NoCache == [q \in Queries |-> NoSelection]

SelectorInit == /\ algorithm = "hybrid" /\ patterns = NoPatterns /\ query_count = 0
                /\ cache = NoCache /\ answer = NoSelection /\ outcomes = 0

-----------------------------------------------------------------------------
(* analyse_query_characteristics.                                          *)

\* max() over a dictionary: the first key of the highest value.
FirstMax(keys, value) ==
  keys[CHOOSE i \in DOMAIN keys :
         /\ \A j \in DOMAIN keys : value[keys[j]] <= value[keys[i]]
         /\ \A j \in 1..i - 1 : value[keys[j]] < value[keys[i]]]

Total(q) == q["temporal"] + q["factual"] + q["experiential"] + q["relational"]
              + q["conversational"]
Share(part, sum) == (part * Whole) \div sum
Score(q, s) == IF Total(q) = 0 THEN 0 ELSE Share(q[s], Total(q))

\* The information need, named by its signal; LOOKUP is that of "factual".
Need(q) == IF Total(q) = 0 THEN "factual" ELSE FirstMax(Order, q)

-----------------------------------------------------------------------------
(* Algorithms.                                                             *)

Selection(layer, confidence) == [layer |-> layer, confidence |-> confidence]
Higher(a, b) == IF a > b THEN a ELSE b
Lower(a, b) == IF a < b THEN a ELSE b

RuleBased(q) ==
  LET episodic == Higher(Score(q, "temporal"), Score(q, "experiential"))
      semantic == Higher(Score(q, "factual"), Score(q, "relational"))
      spoken == Score(q, "conversational")
  IN  CASE spoken >= Threshold -> Selection("working", spoken)
        [] spoken < Threshold /\ episodic >= Threshold -> Selection("short_term", episodic)
        [] spoken < Threshold /\ episodic < Threshold /\ semantic >= Threshold
             -> Selection("long_term", semantic)
        [] OTHER -> Selection("hybrid", 2 * Tenth)

Candidate(q) == [working    |-> (Score(q, "conversational") * 12) \div 10,
                 short_term |-> Score(q, "temporal") + Score(q, "experiential"),
                 long_term  |-> Score(q, "factual") + Score(q, "relational"),
                 hybrid     |-> Threshold]

QueryBased(q) == LET best == FirstMax(Layers, Candidate(q))
                 IN  Selection(best, Lower(Candidate(q)[best], Whole))

\* What of a query depends on nothing else.
Analysed == [q \in Queries |->
               [need |-> Need(q), rule |-> RuleBased(q), query |-> QueryBased(q)]]

Heuristic(q) == CASE q["temporal"] > 0 -> Selection("short_term", 4 * Tenth)
                  [] q["temporal"] = 0 /\ q["factual"] > 0 -> Selection("long_term", 4 * Tenth)
                  [] OTHER -> Selection("hybrid", 2 * Tenth)

\* What was learned about a need: results by layer.
LearnedSum(of) == of["working"] + of["short_term"] + of["long_term"] + of["hybrid"]

Learned(of) == LET best == FirstMax(Layers, of)
               IN  Selection(best, Share(of[best], LearnedSum(of)))

PatternBased(q) ==
  LET of == patterns[Analysed[q].need]
  IN  IF query_count + 1 <= 5 \/ LearnedSum(of) = 0 THEN Heuristic(q) ELSE Learned(of)

\* The three vote with weights 1.0, 1.0 and 0.8; the first voted of the best.
Vote(s, l, weight) == IF s.layer = l THEN s.confidence * weight ELSE 0
Votes(r, k, p) == [l \in LayerNames |-> Vote(r, l, 5) + Vote(k, l, 5) + Vote(p, l, 4)]

Voted(r, k, p) ==
  LET votes == Votes(r, k, p)
      best == FirstMax(<<r.layer, k.layer, p.layer>>, votes)
  IN  Selection(best, votes[best] \div 14)

Voting(q) == Voted(Analysed[q].rule, Analysed[q].query, PatternBased(q))

Fallback == Selection("hybrid", Tenth)

\* What the algorithm answers; a broken one raises.
Chosen(q) == CASE algorithm = "rule_based"    -> Analysed[q].rule
               [] algorithm = "query_based"   -> Analysed[q].query
               [] algorithm = "pattern_based" -> PatternBased(q)
               [] algorithm = "hybrid"        -> Voting(q)
               [] algorithm = "broken"        -> Fallback

Fresh(q) == LET s == Chosen(q) IN IF s.confidence < Tenth THEN Fallback ELSE s

-----------------------------------------------------------------------------
(* AutoSelector and SelectionOptimizer.                                    *)

Answered(q, s) == answer' = [query |-> q, selection |-> s]

SelectCached(q) == /\ cache[q] # NoSelection
                   /\ Answered(q, cache[q])
                   /\ UNCHANGED <<algorithm, patterns, query_count, cache, outcomes>>

\* Nothing is cached, or the caller says use_cache=False.
Select(q) ==
  /\ Answered(q, Fresh(q))
  /\ cache' = [cache EXCEPT ![q] = Fresh(q)]
  /\ query_count' = IF algorithm \in Learning THEN Lower(query_count + 1, 6) ELSE query_count
  /\ UNCHANGED <<algorithm, patterns, outcomes>>

\* auto.algorithm = a new object of the class.
SetAlgorithm(a) ==
  /\ algorithm' = a /\ cache' = NoCache
  /\ patterns' = NoPatterns /\ query_count' = 0
  /\ UNCHANGED <<answer, outcomes>>

ClearCache == cache' = NoCache /\ UNCHANGED <<algorithm, patterns, query_count, answer, outcomes>>

\* Seeded fault: the last number of results replaces the sum.
LearnedLast(need, layer, n) == [patterns EXCEPT ![need][layer] = n]

LearnedAlso(need, layer, n) == [patterns EXCEPT ![need][layer] = @ + n]

\* SelectionOptimizer.record_outcome, of the selection the caller got.
RecordOutcome(n) ==
  /\ answer # NoSelection /\ outcomes < MaxOutcomes
  /\ outcomes' = outcomes + 1
  /\ patterns' = IF algorithm \in Learning
                 THEN LearnedAlso(Analysed[answer.query].need, answer.selection.layer, n)
                 ELSE patterns
  /\ LearnedSum(patterns[Analysed[answer.query].need]) + n <= MaxLearned
  /\ UNCHANGED <<algorithm, query_count, cache, answer>>

\* SelectionOptimizer.reset: what was learned stays.
Reset == /\ outcomes' = 0 /\ cache' = NoCache
         /\ UNCHANGED <<algorithm, patterns, query_count, answer>>

\* PatternBasedSelector.reset: what was cached stays.
ForgetPatterns == /\ algorithm \in Learning
                  /\ patterns' = NoPatterns /\ query_count' = 0
                  /\ UNCHANGED <<algorithm, cache, answer, outcomes>>

SelectorNext == \/ \E q \in Queries : SelectCached(q) \/ Select(q)
                \/ \E a \in Algorithms : SetAlgorithm(a)
                \/ \E n \in Counts : RecordOutcome(n)
                \/ ClearCache \/ Reset \/ ForgetPatterns

SelectorSpec == SelectorInit /\ [][SelectorNext]_selectorVars

-----------------------------------------------------------------------------
(* Properties.                                                             *)

Selections == [layer : LayerNames, confidence : Tenth..Whole]

\* Types of the variables; a confidence is within 0.1 and 1.0, whichever
\* algorithm answered.
SelectorTypeOK ==
  /\ algorithm \in Algorithms /\ query_count \in 0..6 /\ outcomes \in 0..MaxOutcomes
  /\ patterns \in [Signals -> [LayerNames -> 0..MaxLearned]]
  /\ cache \in [Queries -> Selections \cup {NoSelection}]
  /\ answer # NoSelection => answer.query \in Queries /\ answer.selection \in Selections

\* A cached selection differs from what the algorithm would answer now only
\* where the algorithm learns: swapping algorithms leaves nothing behind.
StaleOnlyByLearning ==
  algorithm \notin Learning => \A q \in Queries : cache[q] \in {NoSelection, Fresh(q)}

\* Results reported for a selection never turn its query away from it: asked
\* afresh, a query that went to that layer before the report still does,
\* through the change from heuristic to learned, and through the voting.
ResultsNeverTurnAway ==
  [][outcomes' = outcomes + 1 =>
       \A q \in Queries :
         Analysed[q].need = Analysed[answer.query].need /\ Fresh(q).layer = answer.selection.layer
           => Fresh(q)'.layer = answer.selection.layer]_selectorVars

\* Cached selections are as good as fresh ones where nothing is learned, and what
\* is learned never turns against the layer it was learned about.
SelectionSound == []StaleOnlyByLearning /\ ResultsNeverTurnAway
=============================================================================
