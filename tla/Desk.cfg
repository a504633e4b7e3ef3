SPECIFICATION MCSpec
CONSTANTS
  p1 = p1
  p2 = p2
  w1 = w1
  w2 = w2
  None = None
  People <- TwoPeople
  WriteUps <- TwoWriteUps
  MaxRows = 2
  MaxCrashes = 1
  Questions <- MCQuestions
  Staff <- MCStaff
  Department <- MCDepartment
  FirstMonth <- MCFirstMonth
  Unset = Unset
  MaxMonths = 2
  MaxEntries = 2
CHECK_DEADLOCK FALSE
SYMMETRY Twins
INVARIANTS
  ConsultationKept
  NoNoticeLost
  CompanyReports
PROPERTIES
  
  DeleteSucceeds
  CompanyMonths
