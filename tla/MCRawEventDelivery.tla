------------------------- MODULE MCRawEventDelivery ------------------------
(* One message, with an Exposure row of the Entity e1 or a usage row.      *)
EXTENDS RawEventDelivery

CONSTANTS m1, e1
=============================================================================
