SPECIFICATION Spec
CONSTANTS
  NChunk = 2
  Writer = {w1}
  w1 = w1
  MaxWrites = 2
  Policies = {"report"}
PROPERTIES
  ReopenedPivotIsClean
