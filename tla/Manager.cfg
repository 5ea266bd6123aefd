\* The supervisor against two callers of Get, three handles; safety, fairness
\* and the refinement of ConnectionService.
SPECIFICATION HSpec
CONSTANTS
  c1 = c1
  c2 = c2
  c3 = c3
  g1 = g1
  g2 = g2
  NoConn = NoConn
  Conns = {c1, c2, c3}
  Clients = {g1, g2}
  Auth = "credentials"
  HeartbeatTable = TRUE
  IssuedExps = {"zero", "later"}
INVARIANTS IInv NoLeak OnlyScopedHandles StoppedClean
           GivenUpAfterThreeMisses BackoffFollowsSchedule
PROPERTIES ImplementsService
           Reconnects StopReturns GetAnswered DueTokenRenewed
