SPECIFICATION Spec
CONSTANTS
  NULL = NULL
  b1 = b1
  b2 = b2
  t1 = t1
  t2 = t2
  t3 = t3
  Browser = {b1, b2}
  Tab = {t1, t2, t3}
  BrowserOf <- TwoAndOne
  Call = {c1, c2}
  Token = {k1, k2, k3}
  MaxTrouble = 1
SYMMETRY Symmetry
INVARIANTS
  IInv
PROPERTIES
  StaysLoggedIn
  ImplementsChain
CHECK_DEADLOCK FALSE
