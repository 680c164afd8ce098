SPECIFICATION FairSpec
CONSTANTS
  r1 = r1
  r2 = r2
  r3 = r3
  Req <- MCReq
  Setups <- MCSetups
  NSectors = 3
  Cluster = 2
  MaxAdmin = 2
CHECK_DEADLOCK FALSE
INVARIANTS TypeOK CorIsAlone NoneLost TimerIsThere
PROPERTIES CorWriteIsInvisible DrainIsComplete RequestsEnd
