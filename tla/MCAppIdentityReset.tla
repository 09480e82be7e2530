------------------------- MODULE MCAppIdentityReset -------------------------
(* Two isolates of the data plane, two reset operations of one App. *)
EXTENDS AppIdentityReset

CONSTANTS i1, i2, r1, r2
=============================================================================
