SPECIFICATION FairSpec
CONSTANTS
  NPages = 2
  MaxEvents = 2
  MaxMig = 2
  MaxIov = 2
  CacheSlots = 1
  MayFail = TRUE
CHECK_DEADLOCK FALSE
INVARIANTS TypeOK NoDirtyForgotten NoPageLost CacheIsReceivers OneSideRuns
PROPERTIES MigrationEnds
