SPECIFICATION FairSpec
CONSTANTS
  p = p
  c = c
  s1 = s1
  s2 = s2
  Tasks = {p, c}
  Sources = {s1, s2}
  Called = {s1}
  SourceOf <- OneSource
  Provider <- ConsumerNeedsProvider
  Versions = {v1}
  NoTask = NoTask
  NoVersion = NoVersion
  Broken = Broken
  SourceCapacity = 2
  Capacity = 2
  MaxEdits = 1
  MaxCalls = 1
  MaxRetriers = 4
INVARIANTS ReadyMeansSynced
PROPERTIES OnlyRemovedIsUnregistered Quiesces QueuedIsRetried
CHECK_DEADLOCK FALSE
