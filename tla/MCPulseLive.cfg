SPECIFICATION FairSpec
CONSTANTS
  Pulse = {p1}
  NoPulse = NoPulse
  Run = {r1}
  NoRun = NoRun
  Owner = {d1}
  NoOwner = NoOwner
  Schedule <- Schedules
  Clients = {"open","edit","delete","recover","finalize"}
  MaxTime = 2
INVARIANT IdleHasNextRun
PROPERTIES ClaimsEnd DueIsClaimed
