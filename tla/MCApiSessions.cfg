SPECIFICATION Spec
CONSTANTS
  p1 = p1
  p2 = p2
  s1 = s1
  s2 = s2
  r1 = r1
  r2 = r2
  r3 = r3
  X = X
  H = H
  Request = {r1,r2,r3}
  NoRequest = NoRequest
  Profile = {p1,p2}
  Session = {s1,s2}
  ProfileOf <- Owners
  Var = {X,H}
  HostVar = {X}
  Defines <- EnvFiles
  Handoff = H
  Host = Host
  Unset = Unset
  Asks <- Mixed
  MaxChanges = 1
INVARIANTS Inv EnvironmentRestored HandleServesOne SequentialTurnsExtend
CHECK_DEADLOCK FALSE
