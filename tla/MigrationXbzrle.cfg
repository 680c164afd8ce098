SPECIFICATION Spec
CONSTANTS
  NPages = 2
  MaxEvents = 2
  MaxMig = 1
  MaxIov = 2
  CacheSlots = 1
  MayFail = FALSE
CHECK_DEADLOCK FALSE
INVARIANT RamArrives
