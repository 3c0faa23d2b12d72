SPECIFICATION Spec
CONSTANTS
  c1 = c1
  c2 = c2
  c3 = c3
  u1 = u1
  Call = {c1,c2,c3}
  Kinds <- Mixed
  UserTab = {u1}
  HarnessTab = {1,2,3}
  None = None
  Steel = Steel
  Cdp = Cdp
  MaxFaults = 1
INVARIANTS Inv LeaseKeepsClient WaitersAreServed
PROPERTIES HandlersDoNotMix
CHECK_DEADLOCK FALSE
