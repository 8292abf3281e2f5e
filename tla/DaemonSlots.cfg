SPECIFICATION SlotSpec
CONSTANTS
  Keys = {daemon, pipeline}
  Entries = {e1, e2, e3}
  RunIDs = {r1, r2}
  Callers = {c1, c2}
  NoEntry = NoEntry
  NoRun = NoRun
INVARIANTS SlotInv
PROPERTIES InertHandles ImplementsOwnership
CHECK_DEADLOCK FALSE
