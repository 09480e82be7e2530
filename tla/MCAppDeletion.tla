--------------------------- MODULE MCAppDeletion ---------------------------
(* One Entity with a holdover to write, two slots of DELETE requests.    *)
EXTENDS AppDeletion

CONSTANTS e1, r1, r2, g1, g2
=============================================================================
