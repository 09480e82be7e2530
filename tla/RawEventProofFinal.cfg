CONSTANTS
  m1 = m1
  e1 = e1
  NoEntity = NoEntity
  Messages = {m1}
  Entities = {e1}
  MaxDeliveries = 1
  MaxNow = 1
  MaxVersion = 1
  MaxResetAborts = 0
SPECIFICATION Spec
CHECK_DEADLOCK FALSE
INVARIANT
  NoAppendAfterProof
