\* Four requests, channels that block or drop; safety, fairness and the
\* refinement of RequestLog.
SPECIFICATION Spec
CONSTANTS
  c1 = c1
  r1 = r1
  r2 = r2
  r3 = r3
  r4 = r4
  NoConn = NoConn
  Conns = {c1}
  Requests = {r1, r2, r3, r4}
  BatchSize = 2
  BufferSize = 1
INVARIANT EveryRecordOnce
PROPERTIES QuietAfterClose RecordsSettle CloseReturns BlockedWritesReturn
           ImplementsRequestLog
CHECK_DEADLOCK FALSE
