CONSTANTS
  c1 = c1
  c2 = c2
  k1 = k1
  k2 = k2
  v1 = v1
  v2 = v2
  long = long
  Absent = Absent
  Comment = Comment
  Caller <- MCCaller
  Key <- MCKey
  Value <- MCValue
  BadValue <- MCBadValue
  Files <- MCFiles
  Faults = {"tmp", "rename"}
SPECIFICATION Spec
INVARIANT StoreInv
PROPERTIES
  ImplementsMap
  CallsReturn
