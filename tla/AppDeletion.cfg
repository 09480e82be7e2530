CONSTANTS
  e1 = e1
  r1 = r1
  r2 = r2
  g1 = g1
  g2 = g2
  None = None
  Entities = {e1}
  Requests = {r1, r2}
  Generations = {g1, g2}
  MaxAttempts = 2
  MaxFaults = 1
  Dies = TRUE
SPECIFICATION FairSpec
CHECK_DEADLOCK FALSE
INVARIANTS
  TypeOK
  CompletedIsEmpty
  OwnedIsArmed
  FreezeHasSaga
PROPERTIES
  CancelConverges
  DrainConverges
