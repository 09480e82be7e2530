CONSTANTS
  r1 = r1
  r2 = r2
  w1 = w1
  w2 = w2
  w3 = w3
  Shared <- MCShared
  Exclusive <- MCExclusive
SPECIFICATION FairSpec
INVARIANTS
  RunsAlone
  WritersInOrder
PROPERTIES
  ResetNotStarved
  DeliveryResumes
