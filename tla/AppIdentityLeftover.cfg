CONSTANTS
  i1 = i1
  i2 = i2
  r1 = r1
  r2 = r2
  None = None
  Isolates = {i1}
  ResetIds = {r1}
  Lease = 1
  Skew = 0
  MaxVersion = 2
  MaxFaults = 0
SPECIFICATION Spec
CHECK_DEADLOCK FALSE
INVARIANT NoneRetained
