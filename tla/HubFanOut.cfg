\* Two requests share a live query that notifies once.
SPECIFICATION HSpec
CONSTANTS
  c1 = c1
  g1 = g1
  g2 = g2
  n1 = n1
  s1 = s1
  NoConn = NoConn
  NoClient = NoClient
  NoStream = NoStream
  Conns = {c1}
  Clients = {g1, g2}
  Names = {n1}
  Streams = {s1}
  OutCapacity = 2
  MaxNotes = 1
PROPERTY FanOut
CHECK_DEADLOCK FALSE
