SPECIFICATION Spec
CONSTANTS
  NChunk = 2
  Writer = {w1}
  w1 = w1
  MaxWrites = 1
  Policies = {"ignore"}
PROPERTIES
  ReadyAtPivot
