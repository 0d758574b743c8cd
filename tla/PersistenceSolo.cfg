\* One manager, named ids and uuids: eviction, retries, termination.
SPECIFICATION SoloSpec
CONSTANTS
  m1 = m1
  m2 = m2
  a = a
  u1 = u1
  u2 = u2
  c1 = c1
  c2 = c2
  t1 = t1
  t2 = t2
  None = None
  Names = {a}
  Workloads = {"managers"}
  MaxRetries = 2
  Managers <- OneManager
  Uuids = {u1, u2}
  Contents = {c1, c2}
  Tags = {}
  CacheSize = 2
  x = x
  y = y
  seven = seven
  numeral = numeral
  plain = plain
  handle = handle
  MemoryIds = {x}
  Texts = {numeral}
  Str <- MCStr
  Keys = {}
  Json <- MCJson
  NoMemory = None
  Dicts = {}
INVARIANTS CacheBounded
PROPERTIES EveryCallEnds
