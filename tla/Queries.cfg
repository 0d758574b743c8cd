CONSTANTS
  Queries <- SomeQueries
  Counts = {0, 2}
  MaxOutcomes = 2
  MaxLearned = 4
  NoSelection = NoSelection
  RoutedQueries <- RouterQueries
  ResultCounts = {0, 7}
  Base = "weighted"
  Exploration = 5
  MaxScore = 6
  NoRecord = NoRecord
  Items <- SomeItems
  Texts = {"a", "b"}
  Calls <- SomeCalls
  MaxWorkers = 2
  MaxChanges = 2
SPECIFICATION MCSpec
INVARIANTS ResultsRight
PROPERTIES EveryCallEnds RoutingSound SelectionSound
