SPECIFICATION FairSpec
CONSTANTS
  a = a
  b = b
  AP <- OnlyA
  Reach <- OnlyA
  None = None
  Torn = Torn
  Verbose = TRUE
  Roles = {TRUE}
PROPERTY
  ShutdownCompletes
CHECK_DEADLOCK FALSE
