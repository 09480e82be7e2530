------------------------ MODULE MCDeliveryResetLock ------------------------
(* Two delivery slots that keep issuing requests, three resets. *)
EXTENDS DeliveryResetLock

CONSTANTS r1, r2, w1, w2, w3

MCShared == {r1, r2}
MCExclusive == {w1, w2, w3}
=============================================================================
