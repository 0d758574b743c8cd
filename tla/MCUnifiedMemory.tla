--------------------------- MODULE MCUnifiedMemory --------------------------
(***************************************************************************)
(* The run of working memory.  One of three workloads is chosen at the     *)
(* start: a history of two messages and a context of three components      *)
(* ("context"); the same with the stores behind it, one item and one       *)
(* component ("unified"); the budgets of two components ("budget").  The   *)
(* state space is the disjoint union of the three.                         *)
(***************************************************************************)
EXTENDS UnifiedMemory, ContextSelection, TokenBudget

VARIABLE workload

\* Counts that meet the budget and exceed it.
MCCounts == 0..3
MCKinds == {<<"MEDIUM", 45>>, <<"LOW", 0>>}
PlainSystemImportant == {r \in [system : BOOLEAN, important : BOOLEAN] : ~(r.system /\ r.important)}

MCInit == /\ UnifiedInit \/ (ContextInit /\ items = {} /\ stored = 0 /\ handed = <<>> /\ cleared = 0)
          /\ BudgetInit
          /\ workload \in {"context", "unified", "budget"}
          /\ workload # "context" => strategy = "sliding_window"

MCNext ==
  /\ UNCHANGED workload
  /\ \/ /\ workload = "context" /\ ContextNext
        /\ UNCHANGED <<items, stored, handed, cleared, budgetVars>>
     \/ /\ workload = "unified" /\ UnifiedNext /\ Len(components') <= 1
        /\ UNCHANGED budgetVars
     \/ workload = "budget" /\ BudgetNext /\ UNCHANGED unifiedVars

MCSpec == MCInit /\ [][MCNext]_<<unifiedVars, budgetVars, workload>>
=============================================================================
