----------------------------- MODULE TokenBudget ----------------------------
(***************************************************************************)
(* day_47/token_counter.py: a BudgetTracker adds up the tokens used by     *)
(* components against a total budget and budgets of their own, and raises  *)
(* alerts; a TokenBudgetManager keeps a reserve for the response.          *)
(*                                                                         *)
(* Counting is the library's: a text is its number of tokens.  The history *)
(* of usages is kept as its sum by component, the only thing read of it;   *)
(* the alerts as the set of what they are about.                           *)
(***************************************************************************)
EXTENDS Integers, FiniteSets

CONSTANTS Spenders,     \* the components that use tokens
          TotalBudget,
          Counts,       \* tokens tracked at a time
          Budgets,      \* budgets asked for
          MaxUsed,      \* bound: tokens used by a component
          Total         \* the alert about the total budget

ASSUME SpendersAssumption == IsFiniteSet(Spenders) /\ Total \notin Spenders
ASSUME SpendingAssumption == /\ TotalBudget \in Nat /\ MaxUsed \in Nat
                             /\ Counts \subseteq Nat /\ Budgets \subseteq Nat

NoBudget == -1

VARIABLES used,         \* tokens of usage_history: component -> sum
          budgets,      \* component_budgets: component -> budget or None
          alerts,
          excused       \* history: overruns whose alert was cleared, or that a
                        \* budget allocated below the usage has made

budgetVars == <<used, budgets, alerts, excused>>

BudgetInit == /\ used = [c \in Spenders |-> 0]
              /\ budgets = [c \in Spenders |-> NoBudget]
              /\ alerts = {} /\ excused = {}

\* The tokens of f, numbered for each spender; there are SumOf(f) of them.
TokensOf(f) == UNION {{c} \X (1..f[c]) : c \in Spenders}

SumOf(f) == Cardinality(TokensOf(f))

Exceeded(usage, limits) ==
  {c \in Spenders : limits[c] # NoBudget /\ usage[c] > limits[c]}
    \cup (IF SumOf(usage) > TotalBudget THEN {Total} ELSE {})

Overruns == Exceeded(used, budgets)

\* track_usage checks the total and the component it tracks.
AlertedOf(c, usage) == Exceeded(usage, budgets) \cap {c, Total}

TrackUsage(c, n) ==
  /\ used[c] + n <= MaxUsed
  /\ used' = [used EXCEPT ![c] = @ + n]
  /\ alerts' = alerts \cup AlertedOf(c, used')
  /\ excused' = excused \cap Exceeded(used', budgets)
  /\ UNCHANGED budgets

\* The component's own budget of before is counted as well.
Fits(c, n) == SumOf(budgets) + n <= TotalBudget

\* allocate_budget, and allocate_component_budget of the manager, whose copy of
\* the allocations nothing reads back.
Allocate(c, n) ==
  /\ Fits(c, n)
  /\ budgets' = [budgets EXCEPT ![c] = n]
  /\ excused' = (excused \cup {c}) \cap Exceeded(used, budgets')
  /\ UNCHANGED <<used, alerts>>

ClearAlerts == /\ alerts' = {}
               /\ excused' = Overruns
               /\ UNCHANGED <<used, budgets>>

\* Seeded fault: the alerts stay.
ResetUsage == /\ used' = [c \in Spenders |-> 0]
              /\ excused' = {}
              /\ UNCHANGED <<budgets, alerts>>

\* reset: the budgets stay.
Reset == /\ used' = [c \in Spenders |-> 0]
         /\ alerts' = {} /\ excused' = {}
         /\ UNCHANGED budgets

BudgetNext == \/ \E c \in Spenders, n \in Counts : TrackUsage(c, n)
              \/ \E c \in Spenders, n \in Budgets : Allocate(c, n)
              \/ ClearAlerts \/ Reset

BudgetSpec == BudgetInit /\ [][BudgetNext]_budgetVars

-----------------------------------------------------------------------------
(* Properties.                                                             *)

BudgetTypeOK == /\ used \in [Spenders -> 0..MaxUsed]
                /\ budgets \in [Spenders -> {NoBudget} \cup 0..TotalBudget]
                /\ alerts \subseteq Spenders \cup {Total}

\* The budgets allocated, in whatever order and however often, never add up to
\* more than there is.
AllocationsFit == SumOf(budgets) <= TotalBudget

\* There is an alert for every budget exceeded, the total one and each
\* component's, unless it was cleared or the budget came after the usage.
OverrunsAlerted == Overruns \subseteq alerts \cup excused

\* The alert about the total is never out of date: until it is cleared, the
\* usage is over the budget.
TotalAlertTrue == Total \in alerts => SumOf(used) > TotalBudget

\* The three together: what the tracker says of its budgets can be relied on.
BudgetSound == AllocationsFit /\ OverrunsAlerted /\ TotalAlertTrue
=============================================================================
