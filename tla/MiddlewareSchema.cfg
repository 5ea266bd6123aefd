\* A database that is reached only after Provision has waited for it.
SPECIFICATION Spec
CONSTANTS
  c1 = c1
  r1 = r1
  NoConn = NoConn
  Conns = {c1}
  Requests = {r1}
  Statements = 1
  LogTable = FALSE
PROPERTY SchemaAppliedOnReconnect
CHECK_DEADLOCK FALSE
