SPECIFICATION Spec
CONSTANTS
  NULL = NULL
  c1 = c1
  c2 = c2
  c3 = c3
  c4 = c4
  g1 = g1
  gp = gp
  Group = {g1, gp}
  PositiveGroup = {gp}
  Row = {i1, i2, i3}
  Client = {c1, c2, c3, c4}
  Request = {r1, r2}
  Cleaner = {k1}
  Ops = {"create", "acknowledge", "return", "resolve"}
  GroupOf <- ThreeAndSmiley
  ReportedAt <- AtOnce
  HandledAt <- AtOnce
  Window = 0
  Retention = 1
  MaxTime = 0
  MaxFaults = 1
SYMMETRY RowAndRequestSymmetry
INVARIANTS
  DuplicatesBounded
  AnsweredResolveClosedGroup
CHECK_DEADLOCK FALSE
