SPECIFICATION Spec
CONSTANTS
  Tasks = {"t1"}
  Pipes = {}
  StageOf <- MCStageOf
  Versions <- MCVersions
  Relay = None
  Reserved = None
  None = None
  MaxChanges = 1
  MaxTicks = 0
INVARIANTS MissedAreCaughtUp
CHECK_DEADLOCK FALSE
