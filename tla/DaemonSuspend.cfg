SPECIFICATION Spec
CONSTANTS
  Daemon = daemon
  Keys = {daemon}
  Entries = {e1, e2}
  RunIDs = {r1, r2}
  ManualRuns = {}
  Registrars = {reg}
  Resumers = {api}
  Sweepers = {sweep}
  Callers = {reg, api, sweep, r1, r2}
  NoEntry = NoEntry
  NoRun = NoRun
  NoSpec = NoSpec
  NoThread = NoThread
  Policies = {"on-failure"}
  CrashloopThreshold = 1
  MaxReloads = 2
  Events = {}
INVARIANTS NoPinnedSlot OneContinuation
PROPERTIES HandedOverOnResume
SYMMETRY Symmetry
CHECK_DEADLOCK FALSE
