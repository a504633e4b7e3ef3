SPECIFICATION MCSpec
CONSTANTS
  p1 = p1
  p2 = p2
  p3 = p3
  a1 = a1
  d1 = d1
  r1 = r1
  k1 = k1
  k2 = k2
  None = None
  People <- MCPeople
  Questions <- MCQuestions
  Texts <- MCTexts
  PastAnswers = {a1}
  Documents = {d1}
  Dailies = {r1}
  KnowledgeUnits = {k1, k2}
  MaxFragments = 2
  TopUnits = 1
  MaxCited = 2
  TopK = 2
  MaxFollowups = 1
  CriticWired = TRUE
  SelfAnswerWired = TRUE
  KnowledgeWired = TRUE
  AdditiveWired = TRUE
INVARIANTS
  GraphSafe
  RevisitFaithful
  AnsweringSafe
PROPERTIES
  ReferralSeated
  GraphSettles
  AnsweringRefines
