SPECIFICATION Spec
CONSTANTS
  Daemon = daemon
  Keys = {daemon}
  Entries = {e1, e2}
  RunIDs = {r1, r2, r3}
  ManualRuns = {r3}
  Registrars = {reg}
  Resumers = {}
  Sweepers = {}
  Callers = {reg, r1, r2, r3}
  NoEntry = NoEntry
  NoRun = NoRun
  NoSpec = NoSpec
  NoThread = NoThread
  Policies = {"always"}
  CrashloopThreshold = 1
  MaxReloads = 2
  Events = {"db", "refuse", "kill", "stop"}
INVARIANTS OneBody GoneWhenUnregistered DrainedStaysDrained
CONSTRAINT ManualEarly
SYMMETRY Symmetry
CHECK_DEADLOCK FALSE
