SPECIFICATION FairSpec
CONSTANTS
  Daemon = daemon
  Keys = {daemon}
  Entries = {e1, e2, e3}
  RunIDs = {r1, r2}
  ManualRuns = {}
  Registrars = {reg}
  Resumers = {}
  Sweepers = {}
  Callers = {reg, r1, r2}
  NoEntry = NoEntry
  NoRun = NoRun
  NoSpec = NoSpec
  NoThread = NoThread
  Policies = {"always"}
  CrashloopThreshold = 1
  MaxReloads = 2
  Events = {}
PROPERTIES EvictedBodyEnds AlwaysComesBack
CHECK_DEADLOCK FALSE
