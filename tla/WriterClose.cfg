\* A request still served while Cleanup closes the writer.
SPECIFICATION Spec
CONSTANTS
  c1 = c1
  r1 = r1
  r2 = r2
  NoConn = NoConn
  Conns = {c1}
  Requests = {r1, r2}
  BatchSize = 2
  BufferSize = 2
INVARIANT CloseDrains
