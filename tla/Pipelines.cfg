SPECIFICATION FairSpec
CONSTANTS
  Parents = {p1}
  Runs = {r1, r2, r3, r4, r5, r6}
  Plans <- Mixed
  NoParent = NoParent
  NoRun = NoRun
CHECK_DEADLOCK FALSE
INVARIANTS NothingLeftRunning
PROPERTIES KilledEnds
