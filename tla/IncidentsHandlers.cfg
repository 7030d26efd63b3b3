SPECIFICATION Spec
CONSTANTS
  NULL = NULL
  c1 = c1
  c2 = c2
  c3 = c3
  c4 = c4
  g1 = g1
  gp = gp
  Group = {g1, gp}
  PositiveGroup = {gp}
  Row = {i1, i2}
  Client = {c1, c2}
  Request = {r1, r2}
  Cleaner = {}
  Ops = {"create", "return", "offline", "resolve", "adminUpdate", "deleteOlder", "deleteAll", "sweep"}
  GroupOf <- TwoDuplicates
  ReportedAt <- OneLater
  HandledAt <- OneLater
  Window = 0
  Retention = 0
  MaxTime = 1
  MaxFaults = 0
SYMMETRY RowAndRequestSymmetry
INVARIANTS
  IInv
  StampsMatchStatus
  EveryRowHasHistory
CHECK_DEADLOCK FALSE
