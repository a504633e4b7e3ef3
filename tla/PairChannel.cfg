SPECIFICATION PairSpec
CONSTANTS
  t1 = t1
  t2 = t2
  Asker = Asker
  Responder = Responder
  NoThread = NoThread
  Threads <- TwoThreads
  MaxSeen = 2
  MaxMessages = 1
  MaxTries = 2
  MaxFailures = 1
CHECK_DEADLOCK FALSE
SYMMETRY Swap
INVARIANTS
  PairMeets
  RacesSettle
PROPERTIES
  CaptureOnItsThread
