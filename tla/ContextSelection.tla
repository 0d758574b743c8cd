-------------------------- MODULE ContextSelection --------------------------
(***************************************************************************)
(* day_47/context_manager.py: the choice of the components that fit the    *)
(* token budget, and the truncation of critical ones.                      *)
(***************************************************************************)
EXTENDS ContextManager

CONSTANTS MaxTokens,  \* max_context_tokens
          Large,      \* the 1000 tokens above which a component is penalised
          Ellipsis    \* what "..." and the joining of words can add

ASSUME BudgetAssumption == {MaxTokens, Large, Ellipsis} \subseteq Nat

Rank == [CRITICAL |-> 1, HIGH |-> 2, MEDIUM |-> 3, LOW |-> 4]

\* A component is named by its place.
Places == 1..Len(components)
Tokens(i) == components[i].tokens
IsCritical(i) == components[i].priority = "CRITICAL"
Critical == {i \in Places : IsCritical(i)}

\* The tokens of components, numbered in each; there are TotalOf(places) of them.
TokensIn(places) == UNION {{i} \X (1..Tokens(i)) : i \in places}
TotalOf(places) == Cardinality(TokensIn(places))

\* calculate_importance_score.
Score(i) == 100 - 25 * (Rank[components[i].priority] - 1) + components[i].bonus
            - IF Tokens(i) > Large THEN 10 ELSE 0

\* Descending by score, then ascending by tokens; the sort is stable.
Outscores(i, j) == \/ Score(i) > Score(j)
                   \/ Score(i) = Score(j) /\ Tokens(i) < Tokens(j)
                   \/ Score(i) = Score(j) /\ Tokens(i) = Tokens(j) /\ i < j

ByImportance == CHOOSE s \in [Places -> Places] :
                  \A k, l \in Places : k < l => Outscores(s[k], s[l])

\* select_components: all the critical ones, then what still fits.
AddIfFits(chosen, i) ==
  IF TotalOf(chosen) + Tokens(i) <= MaxTokens THEN chosen \cup {i} ELSE chosen

SelectComponents ==
  LET order == ByImportance
      chosen[k \in 0..Len(components)] ==
        IF k = 0 THEN Critical
        ELSE IF IsCritical(order[k]) THEN chosen[k - 1]
        ELSE AddIfFits(chosen[k - 1], order[k])
  IN  chosen[Len(components)]

Overflows(places) == TotalOf(places) > MaxTokens

\* _truncate_components, in the order of priorities, stable: what
\* select_components returns is ordered by importance within each.
Precedes(i, j) == LET rank(p) == Rank[components[p].priority] IN
                  rank(i) < rank(j) \/ (rank(i) = rank(j) /\ Outscores(i, j))

ByPriority(places) == CHOOSE s \in [1..Cardinality(places) -> places] :
                        \A k, l \in 1..Cardinality(places) : k < l => Precedes(s[k], s[l])

\* The possible results, as the places kept whole, the tokens of what is
\* truncated and its places.  The words kept fit what is available; the text
\* made of them is counted again.
Whole(places) == [whole |-> places, cut |-> 0, cutPlaces |-> {}]

\* Seeded fault: what was truncated is not counted.
TruncateUncounted(r, i) ==
  LET available == MaxTokens - TotalOf(r.whole) IN
  IF Tokens(i) <= available THEN {[r EXCEPT !.whole = @ \cup {i}]}
  ELSE IF IsCritical(i) /\ available > 0
  THEN {[r EXCEPT !.cut = @ + n, !.cutPlaces = @ \cup {i}] : n \in 1..available + Ellipsis}
  ELSE {r}

TruncateOne(r, i) ==
  LET available == MaxTokens - (TotalOf(r.whole) + r.cut) IN
  IF Tokens(i) <= available THEN {[r EXCEPT !.whole = @ \cup {i}]}
  ELSE IF IsCritical(i) /\ available > 0
  THEN {[r EXCEPT !.cut = @ + n, !.cutPlaces = @ \cup {i}] : n \in 1..available + Ellipsis}
  ELSE {r}

TruncateComponents(places) ==
  LET order == ByPriority(places)
      results[k \in 0..Cardinality(places)] ==
        IF k = 0 THEN {Whole({})}
        ELSE UNION {TruncateOne(r, order[k]) : r \in results[k - 1]}
  IN  results[Cardinality(places)]

HandleOverflow ==
  LET selected == SelectComponents IN
  IF ~Overflows(Places) THEN {Whole(Places)}
  ELSE IF ~Overflows(selected) THEN {Whole(selected)}
  ELSE TruncateComponents(selected)

-----------------------------------------------------------------------------
(* Properties.                                                             *)

Kept(r) == r.whole \cup r.cutPlaces

\* The context built fits max_context_tokens, but for what an ellipsis adds to
\* the last of the components that are truncated.
ContextFits ==
  \A r \in HandleOverflow :
    TotalOf(r.whole) + r.cut <= MaxTokens + (IF r.cutPlaces = {} THEN 0 ELSE Ellipsis)

\* Critical components are included: one is left out only when critical ones
\* alone have used up the budget.
CriticalIncluded ==
  \A r \in HandleOverflow :
    Critical \subseteq Kept(r) \/ TotalOf(r.whole \cap Critical) + r.cut >= MaxTokens

\* The selection wastes no room: a component that select_components leaves out
\* does not fit, and what it takes beyond the budget is critical.
SelectionMaximal ==
  LET chosen == SelectComponents IN
  /\ \A i \in Places \ chosen : TotalOf(chosen) + Tokens(i) > MaxTokens
  /\ Overflows(chosen) => chosen \subseteq Critical

\* The context built fits, no critical component is missing from it without
\* need, and select_components has left out none that would have fitted.  (The
\* truncation that follows may make room again: the context itself need not be
\* maximal.)
ContextSound == ContextFits /\ CriticalIncluded /\ SelectionMaximal
=============================================================================
