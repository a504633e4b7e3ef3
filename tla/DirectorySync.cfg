SPECIFICATION DirectorySpec
CONSTANTS
  m1 = m1
  m2 = m2
  m3 = m3
  u1 = u1
  u2 = u2
  u3 = u3
  u4 = u4
  s1 = s1
  s2 = s2
  admin = admin
  None = None
  AdminAddress = m3
  Addresses <- TwoAddresses
  Staff <- OneEmployee
  Accounts <- FourAccounts
  Guests <- OneGuest
  Foreign <- OneForeign
  CreateMissing = TRUE
  Allowed <- TwoAddresses
  Syncs <- TwoSyncs
  MaxChanges = 2
CHECK_DEADLOCK FALSE
CONSTRAINT OutsidersNameEmployee
INVARIANTS
  OneToOne
PROPERTIES
  SyncJustified
  DepartureCuts
