\* Two requests, one schema statement and the writer over two handles.
SPECIFICATION Spec
CONSTANTS
  c1 = c1
  c2 = c2
  r1 = r1
  r2 = r2
  NoConn = NoConn
  Conns = {c1, c2}
  Requests = {r1, r2}
  Statements = 1
  LogTable = TRUE
INVARIANT CleanupComplete
PROPERTIES SetUpAndCleanUpEnd RequestsAnswered GoneRequestsEnd
CHECK_DEADLOCK FALSE
