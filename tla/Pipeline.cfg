SPECIFICATION MCSpec
CONSTANTS
  s1 = s1
  s2 = s2
  Searches <- MCSearches
  Staff <- MCStaff
  Answers <- MCAnswers
  Asked <- MCAsked
  By <- MCBy
  Of <- MCOf
  Reuse <- MCReuse
  Near <- MCNear
  Hits <- MCHits
  Saturate <- MCSaturate
  Evidence <- MCEvidence
  TopK = 3
  RrfK = 1
  Pool = 4
  Ranks = 4
  Unit = 60
  Base = 0
  Boosted = 10
  Lo = 20
  Hi = 50
  DenseWeight = 10
  PriorAnswerSim = 55
  DocumentSim = 28
  PersonWeakSim = 40
  ReuseMin = 3
  ReuseFloor = 15
  DailyCap = 1
  ConsultCap = 1
  Slots = 2
  MaxChanges = 1
  Topics <- MCTopics
  Sources = {"qa", "doc"}
  TopicsOf <- MCTopicsOf
  Files <- MCFiles
  Nearness <- MCNearness
  Known <- MCKnown
  Finals <- MCFinals
  Depth = 4
  Nobody = 0
CONSTRAINT Quiet
CHECK_DEADLOCK FALSE
INVARIANTS
  SearchSound
  ChannelsWeighed
  SeatsEarned
  EvaluationSound
