SPECIFICATION Spec
CONSTANTS
  c1 = c1
  c2 = c2
  c3 = c3
  t1 = t1
  t2 = t2
  p1 = p1
  p2 = p2
  Call = {c1,c2,c3}
  Tab = {t1,t2}
  FirstTab = t1
  None = None
  Plans <- Mixed
  Capacity = 2
  Limit = 1
  MaxNodes = 2
  Proc = {p1,p2}
  Daemon = {1,2}
  Nothing = Nothing
  Crowd = 2
  MaxFaults = 1
SYMMETRY Symmetry
INVARIANTS Inv RefsReachWhatWasShown NoMessageMissed DaemonIsReachable
CHECK_DEADLOCK FALSE
