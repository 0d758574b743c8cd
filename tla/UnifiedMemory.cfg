SPECIFICATION MCSpec
CONSTANTS
  MaxMessages = 2
  MaxAdded = 3
  MaxTokens = 4
  Large = 2
  Ellipsis = 1
  MaxComponents = 3
  TokenCounts = {1, 3}
  Kinds <- MCKinds
  Roles <- PlainSystemImportant
  MaxItems = 1
  Spenders = {"history", "tools"}
  TotalBudget = 4
  Counts <- MCCounts
  Budgets = {0, 1, 2, 4, 5}
  MaxUsed = 4
  Total = "total"
INVARIANTS HistorySound ContextSound IdsHoldUntilTruncated BudgetSound
PROPERTIES KeptByStrategy
