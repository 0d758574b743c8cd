SPECIFICATION MCSpec
CONSTANTS
  t1 = t1
  t2 = t2
  c1 = c1
  c2 = c2
  u1 = u1
  u2 = u2
  v1 = v1
  None = None
  Threads <- TwoThreads
  Conns <- TwoConns
  Users = {u1, u2}
  Values = {v1}
  Kinds <- AllKinds
  CacheSize <- SizeOne
  MaxConnections = 1
  CleanupEvery = 1
SYMMETRY Interchangeable
INVARIANTS PoolSound StaleOnlyWithCause TornOnlyAfterFailure
