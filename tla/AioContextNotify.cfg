SPECIFICATION Spec
CONSTANTS
  b1 = b1
  b2 = b2
  n0 = n0
  n1 = n1
  n2 = n2
  Bh = {b1, b2}
  Notifier = n0
  Node = {n0, n1, n2}
  Fd = {1}
  Null = Null
  MaxOps = 4
  MaxDepth = 2
INVARIANTS NotifyEndsWait
CHECK_DEADLOCK FALSE
