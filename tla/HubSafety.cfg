\* Two requests, a live query that reconnects, more notifications than fit.
SPECIFICATION Spec
CONSTANTS
  c1 = c1
  c2 = c2
  g1 = g1
  g2 = g2
  n1 = n1
  s1 = s1
  s2 = s2
  NoConn = NoConn
  NoClient = NoClient
  NoStream = NoStream
  Conns = {c1, c2}
  Clients = {g1, g2}
  Names = {n1}
  Streams = {s1, s2}
  OutCapacity = 2
  MaxNotes = 3
SYMMETRY Symmetry
INVARIANTS RefsExact AttachedRegistered KillsOnlyUnused ShownInOrder
PROPERTY OrphansOnlyByFailure
CHECK_DEADLOCK FALSE
