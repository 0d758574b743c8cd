SPECIFICATION MCSpec
CONSTANTS
  v1 = v1
  v2 = v2
  v3 = v3
  None = None
  EventIds <- MCEventIds
  OtherIds <- MCOtherIds
  MaxTime = 3
  ExperienceIds = {e1, e2, e3}
  GivenScores <- SomeScores
  NoScore = NoScore
  Actions = {search, plan}
  Outcomes = {"success", "failure"}
  Workloads = {"hybrid"}
SYMMETRY Interchangeable
INVARIANTS FoundIsDeletable
