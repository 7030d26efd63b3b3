SPECIFICATION FairSpec
CONSTANTS
  NULL = NULL
  Phone = {p1}
  Owner = {u1, u2}
  allPlaces = u1
  Site = {b1, b2}
  somePlace = b1
  PlaceOf <- PlaceOfOwner
  Endpoint = {e1, e2, e3}
  MaxPhoneSteps = 3
  MaxPhoneLosses = 1
  Boss = {a1, a2}
  Digested = {d1}
  Ranked = {1, 2}
  Hour = {0, 1}
  DayPlan <- Days
  MaxDays = 1
  MaxEdits = 2
  MaxFaults = 1
  Task = {i1, i2}
  firstTask = i1
  Floor = {f1, f2}
  firstFloor = f1
  secondFloor = f2
  FloorOf <- FloorOfTask
  User = {c, s, g}
  cleaner = c
  manager = g
  Page <- PageOfUser
  Sees <- SeesOfUser
  Chip <- ChipOfUser
  MaxEvents = 3
  MaxLost = 1
  General = {g}
  Pm = {m}
  Supervisor = {s}
  Cleaner = {w}
  Property = {x1, x2}
  Building = {b}
  Number = {n1}
  MaxRequests = 3
INVARIANTS OnePerSend OncePerDay NobodyForgotten OnlyInScope 
PROPERTIES PhoneIsReached ScreensFollow
CHECK_DEADLOCK FALSE
