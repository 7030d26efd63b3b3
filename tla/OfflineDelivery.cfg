SPECIFICATION FairSpec
CONSTANTS
  p1 = p1
  p2 = p2
  g1 = g1
  g2 = g2
  Press = {p1, p2}
  Group = {g1, g2}
  GroupOf <- SameIssue
  Batch = {b1, b2}
  b1 = b1
  b2 = b2
  MaxReports = 2
  MaxActions = 2
  MaxTrouble = 1
  MaxFaults = 0
  NULL = NULL
INVARIANTS
  NoReportLost
  LostOnlyWithItsIncident
PROPERTIES
  KeepsPromise
  ResolutionArrives
CHECK_DEADLOCK FALSE
