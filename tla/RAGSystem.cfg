SPECIFICATION MCSpec
CONSTANTS
  own = own
  other = other
  f1 = f1
  f2 = f2
  d1 = d1
  d2 = d2
  t1 = t1
  t2 = t2
  p1 = p1
  p2 = p2
  c1 = c1
  c2 = c2
  c3 = c3
  None = None
  Nothing = Nothing
  Torn = Torn
  Processes <- TwoProcesses
  Inputs <- ThreeInputs
  MaxCacheSize = 2
  BatchSize = 2
  MaxTexts = 3
  Own = own
  Stores <- TwoStores
  Sources <- TwoFacts
  DocIds <- FourDocs
  Texts <- TwoTexts
  MaxCollections = 2
  MaxDocs = 2
  MaxQueries = 3
INVARIANTS IndexSound ReportIsTrue StatsSound AnswersAligned CachesSound
