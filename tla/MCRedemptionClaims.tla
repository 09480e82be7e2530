------------------------- MODULE MCRedemptionClaims -------------------------
(* Two exposureIds and two tickets, in pages of two keys. *)
EXTENDS RedemptionClaims

MCExposures == {1, 2}
MCTickets == {4, 5}
=============================================================================
