SPECIFICATION MCSpec
CONSTANTS
  main = main
  p1 = p1
  p2 = p2
  k1 = k1
  g1 = g1
  r1 = r1
  r2 = r2
  r3 = r3
  app1 = app1
  app2 = app2
  key = key
  Call = {r1,r2,r3}
  Nobody = Nobody
  Profile = {main,p1,p2}
  Main = main
  Skill = {k1}
  Star = Star
  NoFile = NoFile
  Torn = Torn
  Seed = Seed
  NoSkill = NoSkill
  Asks <- Mixed
  Person <- People
  Stranger = Stranger
  Limit <- Limits
  Repo = {g1}
INVARIANTS Inv SettledEditsSurvive
CHECK_DEADLOCK FALSE
