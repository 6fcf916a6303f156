SPECIFICATION FairSpec
CONSTANTS
  a = a
  b = b
  AP <- OnlyA
  Reach <- OnlyA
  None = None
  Torn = Torn
  Verbose = TRUE
  Roles = {TRUE}
PROPERTIES
  EverySlotTried
  LinkRecovers
  HeartbeatsFlow
  WatcherEndsUnlessMutexLost
CHECK_DEADLOCK FALSE
