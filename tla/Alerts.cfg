SPECIFICATION MCSpec
CONSTANTS
  NULL = NULL
  i1 = i1
  i2 = i2
  p1 = p1
  g1 = g1
  g2 = g2
  Incident = {i1, i2}
  Property = {p1}
  PropertyOf <- HomeOf
  GroupOf <- Same
  Tick = {t1}
  BatchInterval = {1, 2}
  StartPolicies <- ImmediateEvery2
  CleanerInterval = 2
  SupervisorInterval = 2
  EscalationEnabled = TRUE
  ManagerActs = TRUE
  HoursChange = TRUE
  MaxLag = 0
  MaxTime = 3
  MaxFaults = 0
INVARIANTS
  PulsesSpaced
  StampedIsPushed
  RoundsInOrder
PROPERTIES
  WaitIsBounded
  NobodyForgotten
  EscalatedDespiteFaults
CHECK_DEADLOCK FALSE
