SPECIFICATION MCSpec
CONSTANTS
  t1 = t1
  t2 = t2
  e1 = e1
  e2 = e2
  admin = admin
  alice = alice
  bob = bob
  nobody = nobody
  None = None
  Missing = Missing
  Clients <- TwoThreads
  Accounts = {admin, alice, bob}
  Admins = {admin}
  Owners = {alice, nobody}
  NoId = nobody
  MaxVersion = 2
  Threads <- TwoThreads
  Layers = {"short_term", "long_term"}
  Moving = {"events", "experiences"}
  MaxCount = 1
  Events = {e1, e2}
SYMMETRY Interchangeable
INVARIANTS AcceptedAtMostTwice ConflictsExplained LogTellsState
PROPERTIES LostOnlyByStaleCopy ChangedByOwnerOrAdmin
