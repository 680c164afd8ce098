SPECIFICATION FairSpec
CONSTANTS
  NChunk = 2
  Writer = {w1, w2}
  w1 = w1
  w2 = w2
  MaxWrites = 2
  Policies = {"report", "ignore", "enospc"}
INVARIANTS TypeOK NoChangeForgotten
PROPERTIES PivotIsClean CancelEnds Converges CompleteEnds
