SPECIFICATION Spec
CONSTANTS
  full = full
  part = part
  bad = bad
  Pkg <- Packages
  Header <- Headers
  Machine = "arm64"
  Archive <- Archives
  Factory = Factory
  None = None
  Broken = Broken
  Proc = {p1, p2}
  MaxRequests = 3
  MaxFaults = 1
SYMMETRY AnyOrder
INVARIANT RollbackRestarts
CHECK_DEADLOCK FALSE
