SPECIFICATION Spec
CONSTANTS
  a = a
  b = b
  c = c
  RunIDs = {r1, r2, r3}
  Tasks = {a, b}
  Roots = {a, b}
  Edges <- LoopEdges
  FailTo <- LoopFail
  Scope <- OneScope
  Calls <- None
  Providers <- None
  Suspending = {}
  Fires = 2
  Clients = {}
  Limit = 1
  PerTask = 1
  Global = 2
  MaxFail = 2
  MaxSuccess = 1
  StormRate = 1
  Callers = {NoClient}
  Scenarios = {{"refuse", "replay", "sync", "time", "kill"}, {"stop", "noexec"}}
  NoRun = NoRun
  NoTask = NoTask
  NoClient = NoClient
CHECK_DEADLOCK FALSE
INVARIANTS ChainSlotsExact HopsBounded ChainsFollowTheEnd NothingLeaks
