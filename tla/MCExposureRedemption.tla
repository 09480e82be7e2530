----------------------- MODULE MCExposureRedemption -----------------------
(* Two exposureIds that share one ticket, redeemed by two redemptions. *)
EXTENDS ExposureRedemption, TLC

CONSTANTS r1, r2

MCRedemptions == {r1, r2}
MCExposures == {1, 2}
MCTickets == {3}
MCItems == {[exposureId |-> 1, ticket |-> 3], [exposureId |-> 2, ticket |-> 3]}
Symmetry == Permutations(MCRedemptions)
=============================================================================
