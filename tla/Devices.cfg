SPECIFICATION FairSpec
CONSTANTS
  NULL = NULL
  c1 = c1
  c2 = c2
  r1 = r1
  r2 = r2
  b1 = b1
  b2 = b2
  D = D
  X = X
  Code = {c1}
  Restroom = {r1, r2}
  Building = {b1}
  Template = {D, X}
  Tablet = {t1}
  HomeOf <- Homes
  BuildingOf <- OneBuilding
  Default = D
  Themes = {"default", "neon"}
  MaxOps = 3
  MaxTrouble = 1
INVARIANTS
  DeletedStaysDead
PROPERTIES
  TabletsFollow
CHECK_DEADLOCK FALSE
