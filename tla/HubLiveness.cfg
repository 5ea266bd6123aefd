\* Handlers return and subscribers are answered, under fairness.
SPECIFICATION Spec
CONSTANTS
  c1 = c1
  g1 = g1
  g2 = g2
  n1 = n1
  s1 = s1
  s2 = s2
  NoConn = NoConn
  NoClient = NoClient
  NoStream = NoStream
  Conns = {c1}
  Clients = {g1, g2}
  Names = {n1}
  Streams = {s1, s2}
  OutCapacity = 1
  MaxNotes = 0
PROPERTIES HandlersReturn SubscribersAnswered
CHECK_DEADLOCK FALSE
