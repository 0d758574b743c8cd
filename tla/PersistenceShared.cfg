\* Two managers on one row: interleavings, staleness, lost metadata; and the
\* two backends under the same calls.
SPECIFICATION SharedSpec
CONSTANTS
  m1 = m1
  m2 = m2
  a = a
  u1 = u1
  u2 = u2
  c1 = c1
  c2 = c2
  t1 = t1
  t2 = t2
  None = None
  Names = {a}
  Workloads = {"managers", "backends"}
  MaxRetries = 2
  Managers <- TwoManagers
  Uuids = {}
  Contents = {c1}
  Tags <- TwoTags
  CacheSize = 1
  x = x
  y = y
  seven = seven
  numeral = numeral
  plain = plain
  handle = handle
  MemoryIds <- TwoMemories
  Texts = {seven, numeral}
  Str <- MCStr
  Keys = {plain, one, handle}
  Json <- MCJson
  NoMemory = None
  Dicts = {d}
SYMMETRY Interchangeable
INVARIANTS StaleOnlyWithCause BackendsAgree
PROPERTIES MetadataLostOnlyByOverlap
