SPECIFICATION Spec
CONSTANTS
  p1 = p1
  p2 = p2
  None = None
  People <- TwoPeople
  Questions <- TwoQuestions
  TopK = 2
  MaxFollowups = 1
  CriticWired = TRUE
  SelfAnswerWired = TRUE
  KnowledgeWired = TRUE
  AdditiveWired = TRUE
  MaxFaults = 0
  MaxDrops = 0
  MaxCorrections = 0
  PagesTracked = FALSE
CHECK_DEADLOCK FALSE
SYMMETRY Pair
INVARIANTS
  RestAgrees
PROPERTIES
  OutcomesAdvance
