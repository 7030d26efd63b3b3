SPECIFICATION FairSpec
CONSTANTS
  NULL = NULL
  Gaps = {10000, 60000}
  Horizon = 30000
  Inputs <- BothEnds
  MaxVisits = 2
  MaxTrouble = 1
  MaxTunes = 1
INVARIANTS
  EndsFollowStarts
  CountedOncePerLoss
PROPERTIES
  EndsArrive
  TuningReaches
CHECK_DEADLOCK FALSE
