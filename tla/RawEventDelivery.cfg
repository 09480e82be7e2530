CONSTANTS
  m1 = m1
  e1 = e1
  NoEntity = NoEntity
  Messages = {m1}
  Entities = {e1}
  MaxDeliveries = 3
  MaxNow = 2
  MaxVersion = 2
  MaxResetAborts = 1
SPECIFICATION FairSpec
CHECK_DEADLOCK FALSE
INVARIANTS
  OnlyRefusedIsResent
  AckedIsAccountedFor
  NoAttendedAppendAfterProof
  AckedHoldsNoPermit
PROPERTIES
  MessageSettles
  ResetConverges
