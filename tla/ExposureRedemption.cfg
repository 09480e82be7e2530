CONSTANTS
  r1 = r1
  r2 = r2
  Redemptions <- MCRedemptions
  Exposures <- MCExposures
  Tickets <- MCTickets
  Items <- MCItems
  Lease = 1
  ClaimTTL = 2
  TicketTTL = 1
  PageSize = 2
  MaxNow = 3
  MaxFaults = 2
SYMMETRY Symmetry
SPECIFICATION Spec
INVARIANTS
  NothingLost
  SuccessOwnsHoldover
  OneAppender
PROPERTIES
  SealedAppendsOnce
CHECK_DEADLOCK FALSE
