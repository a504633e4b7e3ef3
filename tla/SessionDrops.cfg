SPECIFICATION FairSpec
CONSTANTS
  p1 = p1
  p2 = p2
  None = None
  People <- TwoPeople
  Questions <- OneQuestion
  TopK = 2
  MaxFollowups = 1
  CriticWired = TRUE
  SelfAnswerWired = TRUE
  KnowledgeWired = TRUE
  AdditiveWired = TRUE
  MaxFaults = 0
  MaxDrops = 2
  MaxCorrections = 0
  PagesTracked = TRUE
CHECK_DEADLOCK FALSE
PROPERTIES
  OutcomesTraced
  WorkSettles
