SPECIFICATION FairSpec
CONSTANTS
  Co = {c1, c2, c3, c4}
  c1 = c1
  c2 = c2
  c3 = c3
  c4 = c4
  Work = 5
  EventLoop = EventLoop
  Bh = Bh
CHECK_DEADLOCK FALSE
INVARIANTS TypeOK Exclusion LinkedOnce
PROPERTIES WaitersRun
