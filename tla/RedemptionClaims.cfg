CONSTANTS
  Exposures <- MCExposures
  Tickets <- MCTickets
  Lease = 1
  ClaimTTL = 2
  PageSize = 2
  MaxNow = 5
SPECIFICATION FairClaimsSpec
INVARIANTS
  ClaimHasItsTicket
  SealedIsOwned
PROPERTIES
  SealedIsCollected
