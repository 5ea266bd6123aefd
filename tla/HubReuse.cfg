\* A request that comes after the live query has ended.
SPECIFICATION Spec
CONSTANTS
  c1 = c1
  g1 = g1
  g2 = g2
  n1 = n1
  s1 = s1
  s2 = s2
  NoConn = NoConn
  NoClient = NoClient
  NoStream = NoStream
  Conns = {c1}
  Clients = {g1, g2}
  Names = {n1}
  Streams = {s1, s2}
  OutCapacity = 1
  MaxNotes = 0
PROPERTY SharesRunningQuery
CHECK_DEADLOCK FALSE
