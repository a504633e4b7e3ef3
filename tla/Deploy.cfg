SPECIFICATION Spec
CONSTANTS
  r1 = r1
  r2 = r2
  r3 = r3
  m1 = m1
  m2 = m2
  t1 = t1
  t2 = t2
  k1 = k1
  n1 = n1
  n2 = n2
  None = None
  First = r1
  Releases <- MCReleases
  Model <- MCModel
  Dim <- MCDim
  Healthy <- MCHealthy
  Width <- MCWidth
  Texts <- MCTexts
  Fixtures <- MCFixtures
  Units <- MCUnits
  Roster <- MCRoster
  Newcomers <- MCNewcomers
  MaxJobs = 2
  MaxEvents = 1
CHECK_DEADLOCK FALSE
INVARIANTS
  DeployedFits
PROPERTIES
  UpgradesKeep
  NewcomerArrives
