SPECIFICATION FairSpec
CONSTANTS
  b1 = b1
  b2 = b2
  n0 = n0
  n1 = n1
  n2 = n2
  Bh = {b1, b2}
  Notifier = n0
  Node = {n0, n1, n2}
  Fd = {1, 2}
  Null = Null
  MaxOps = 4
  MaxDepth = 2
INVARIANTS TypeOK NoDangling WokenByBh
PROPERTIES NoCallAfterRemoval FalseMeansIdle ScheduledRuns
CHECK_DEADLOCK FALSE
