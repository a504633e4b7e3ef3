SPECIFICATION MCSpec
CONSTANTS
  t1 = t1
  t2 = t2
  s1 = s1
  l1 = l1
  l2 = l2
  asker = asker
  ann = ann
  bob = bob
  admin = admin
  None = None
  Threads <- TwoThreads
  Sweepers <- OneSweeper
  Locks <- TwoLocks
  Asker <- asker
  Colleagues <- TwoColleagues
  Admin <- admin
  MaxRuns = 1
  MaxRows = 4
  MaxRequests = 3
CHECK_DEADLOCK FALSE
INVARIANTS
  DispatchesExclude
PROPERTIES
  PausedNotEvicted
  LocksComeFree
  RequestsLand
