CONSTANTS
  i1 = i1
  i2 = i2
  r1 = r1
  r2 = r2
  None = None
  Isolates = {i1, i2}
  ResetIds = {r1, r2}
  Lease = 1
  Skew = 0
  MaxVersion = 2
  MaxFaults = 1
SPECIFICATION FairSpec
CHECK_DEADLOCK FALSE
INVARIANTS
  TypeOK
  BlockedHasNoLease
  DestroyedIsGone
  OneKeyPerVersion
  ActiveIsOpen
PROPERTY ResetResumes
