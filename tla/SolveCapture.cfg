SPECIFICATION MCSpec
CONSTANTS
  a1 = a1
  a2 = a2
  a3 = a3
  r1 = r1
  r2 = r2
  asker = asker
  responder = responder
  NoAttempt = NoAttempt
  Attempts <- TwoAttempts
  Reactions <- TwoReactions
  Parties <- Pair
  MaxPresses = 3
  MaxFaults = 1
  Rows <- MCRows
  Excluded <- MCExcluded
  Reports <- MCReports
  Handoffs <- MCHandoffs
  Vocabulary <- MCVocabulary
  Hints <- MCHints
  Canonical <- MCCanonical
  Settings <- MCSettings
  MaxRows = 3
  MaxBatches = 2
  MaxErrors = 1
CHECK_DEADLOCK FALSE
INVARIANTS
  PromptSound
  PairInformed
PROPERTIES
  DiscardIsDurable
  ApprovedIsSearchable
  BatchesSound
