\* Each client-side component in turn on a small instance.
CONSTANTS
  p1 = p1  p2 = p2  r1 = r1  r2 = r2  t1 = t1  t2 = t2
  s1 = s1  s2 = s2  c1 = c1  c2 = c2  v1 = v1
  NoOne = NoOne
  People <- MCPeople
  Requests <- MCRequests
  Tabs <- MCTabs
  Students <- MCStudents
  Calls <- MCCalls
  MaxDisputes = 2
  Viewers <- MCViewers
  MaxRefresh = 3
  MaxLate = 1
  MaxSockets = 3
  MaxPulses = 2
  MaxInbox = 2
  MaxPhotos = 4
  MaxScans = 2
  MaxLoads = 2
  MaxCalls = 2
SPECIFICATION ClientsSpec
SYMMETRY MCSymmetry
CONSTRAINT Followed
INVARIANTS
  ClientTypesOK
  PhoneReuseExplained
  CallsAreTheUsers
  BrowserHoldsTheLiveToken
  TabActsForItsUser
  DecisionStands
  RecountMissesItself
  RunningPulseShown
  RegistryHoldsOpenSocket
  OneScanAtATime
  DeadScannerExplained
  RowsMatchFilter
  NoDoubleSubmit
  DecisionsShown
  
CHECK_DEADLOCK FALSE
