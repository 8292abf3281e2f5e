SPECIFICATION FairSpec
CONSTANTS
  a = a
  b = b
  c = c
  RunIDs = {r1, r2, r3}
  Tasks = {a, b, c}
  Roots = {a, c}
  Edges = {}
  FailTo <- NoFail
  Scope <- Own
  Calls <- ACallsB
  Providers <- BNeedsC
  Suspending = {c}
  Fires = 1
  Clients = {w}
  Limit = 0
  PerTask = 1
  Global = 1
  MaxFail = 1
  MaxSuccess = 1
  StormRate = 0
  Callers = {w}
  Scenarios = {{"kill", "sweep"}, {"resume", "sweep"}, {"refuse", "sweep", "stop"}}
  NoRun = NoRun
  NoTask = NoTask
  NoClient = NoClient
CHECK_DEADLOCK FALSE
INVARIANTS WaitersSeeTheEnd
PROPERTIES RowsSettle ClientsReturn
