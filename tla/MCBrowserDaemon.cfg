SPECIFICATION Spec
CONSTANTS
  Client = {c1,c2}
  NoClient = NoClient
  Conn = {k1,k2}
  NoConn = NoConn
  Session = {s1,s2}
  NoSession = NoSession
  MaxClients = 1
  MaxRequests = 1
  MaxAttempts = 2
  MaxEvents = 1
SYMMETRY Symmetry
INVARIANTS Inv AnswersMatch RequestsFailWithSocket
CHECK_DEADLOCK FALSE
