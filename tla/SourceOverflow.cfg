SPECIFICATION Spec
CONSTANTS
  p = p
  c = c
  s1 = s1
  s2 = s2
  Tasks = {p, c}
  Sources = {s1, s2}
  Called = {s1}
  SourceOf <- OneSource
  Provider <- ConsumerNeedsProvider
  Versions = {v1}
  NoTask = NoTask
  NoVersion = NoVersion
  Broken = Broken
  SourceCapacity = 1
  Capacity = 2
  MaxEdits = 0
  MaxCalls = 0
  MaxRetriers = 4
INVARIANTS OnDiskIsLive
CHECK_DEADLOCK FALSE
