CONSTANTS
  Bodies <- AllBodies
  Networks <- MCNetworks
  Drift <- MCDrift
  Budgets <- MCBudgets
  Absent = Absent
SPECIFICATION Spec
INVARIANTS
  TypeOK
  InterfaceRestored
  BandwidthFits
  SetNodeApplied
  AcknowledgedSurvives
PROPERTY ChannelAgrees
CHECK_DEADLOCK FALSE
