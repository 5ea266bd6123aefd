\* Tokens whose whole lifetime is within the refresh threshold.
SPECIFICATION Spec
CONSTANTS
  c1 = c1
  c2 = c2
  g1 = g1
  NoConn = NoConn
  Conns = {c1, c2}
  Clients = {g1}
  Auth = "credentials"
  HeartbeatTable = TRUE
  IssuedExps = {"due"}
PROPERTY PingKeepsFiring
