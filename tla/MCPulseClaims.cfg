SPECIFICATION Spec
CONSTANTS
  Pulse = {p1}
  NoPulse = NoPulse
  Run = {r1,r2}
  NoRun = NoRun
  Owner = {d1,d2}
  NoOwner = NoOwner
  Schedule <- Recurring
  Clients = {"enable", "open", "recover"}
  MaxTime = 3
SYMMETRY Symmetry
INVARIANTS TypeOK RunningIsClaimed NoDuplicateWork
PROPERTIES RunLifeCycle LateWorkerIsIgnored
