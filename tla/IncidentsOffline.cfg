SPECIFICATION FairSpec
CONSTANTS
  NULL = NULL
  c1 = c1
  c2 = c2
  c3 = c3
  c4 = c4
  g1 = g1
  gp = gp
  Group = {g1, gp}
  PositiveGroup = {gp}
  Row = {i1, i2}
  Client = {c1, c2}
  Request = {r1, r2}
  Cleaner = {k1}
  Ops = {"create", "acknowledge", "return", "resolve", "offline"}
  GroupOf <- TwoDuplicates
  ReportedAt <- AtOnce
  HandledAt <- AtOnce
  Window = 0
  Retention = 1
  MaxTime = 0
  MaxFaults = 0
INVARIANTS
  OfflineResolutionLands
PROPERTIES
  EveryRequestIsAnswered
CHECK_DEADLOCK FALSE
