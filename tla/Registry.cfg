\* Two clients of a route of two requests in a tick, one of them by two paths;
\* int64 of four bits and float64 with a significand up to four.
SPECIFICATION ServeSpec
CONSTANTS
  Keys <- MCKeys
  Limit = 2
  Window = 1
  MaxTime = 3
  IntLimit = 8
  Significand = 4
  Scenarios <- MCScenarios
  Requests <- MCRequests
  Columns = {"a", "b"}
  Results <- MCResults
  MaxRows = 2
INVARIANTS ClientSpanBounded RefusedOnlyWhenFull ParamsHonoured ShapeFollowsConfig
CHECK_DEADLOCK FALSE
