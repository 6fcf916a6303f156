SPECIFICATION Spec
CONSTANTS
  a = a
  b = b
  AP <- Both
  Reach <- Both
  None = None
  Torn = Torn
  Verbose = TRUE
  Roles = {TRUE, FALSE}
INVARIANTS
  TypeOK
  NoAttemptAfterFlagOff
  NoAttemptOverLiveLink
  FirstAttemptIsTheLostOne
  HistoryKept
  TornOnlyWhileUp
CHECK_DEADLOCK FALSE
