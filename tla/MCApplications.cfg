SPECIFICATION Spec
CONSTANTS
  i1 = i1
  i2 = i2
  i3 = i3
  c1 = c1
  c2 = c2
  c3 = c3
  p1 = p1
  p2 = p2
  x = x
  f = f
  Foreign = {f}
  Names <- Brought
  Call = {c1,c2,c3}
  Identity = {i1,i2,i3}
  Profile = {p1,p2}
  Prefix = {x}
  Mapping <- ToRoutes
  Ignored = Ignored
  NoId = NoId
  Kinds <- Mixed
  MaxEvents = 1
INVARIANTS Inv BufferedWillFlush
PROPERTIES ConversationContinues
CHECK_DEADLOCK FALSE
