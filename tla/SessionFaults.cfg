SPECIFICATION Spec
CONSTANTS
  p1 = p1
  p2 = p2
  None = None
  People <- TwoPeople
  Questions <- OneQuestion
  TopK = 2
  MaxFollowups = 0
  CriticWired = TRUE
  SelfAnswerWired = TRUE
  KnowledgeWired = FALSE
  AdditiveWired = FALSE
  MaxFaults = 1
  MaxDrops = 0
  MaxCorrections = 1
  PagesTracked = FALSE
CHECK_DEADLOCK FALSE
SYMMETRY Pair
PROPERTIES
  LedgerPromise
  OutcomeOnShownPerson
