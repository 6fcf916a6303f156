SPECIFICATION Spec
CONSTANTS
  a = a
  b = b
  AP <- OnlyA
  Reach <- OnlyA
  None = None
  Torn = Torn
  Verbose = TRUE
  Roles = {TRUE}
INVARIANT
  NotJoinedDuringScan
CHECK_DEADLOCK FALSE
