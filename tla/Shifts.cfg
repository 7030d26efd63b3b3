SPECIFICATION FairSpec
CONSTANTS
  NULL = NULL
  w1 = w1
  w2 = w2
  b1 = b1
  b2 = b2
  P = P
  Q = Q
  Worker = {w1, w2}
  Incident = {i1}
  Profiles <- Staffs
  PropertyOf <- PropertyOfBuilding
  KioskAt <- KioskInP
  MaxPresses = 2
  MaxTrouble = 1
  Moves <- MovedAway
  MaxMoves = 1
  LastDay = 1
INVARIANTS
  NoPressLost
  ServedOncePerLoss
PROPERTIES
  MovedDropOut
  ReplaysLeave
CHECK_DEADLOCK FALSE
