------------------------- MODULE MCAssignmentStore -------------------------
(* q1 and q2 evaluate Experiment x, q3 evaluates y, for the same Entity.   *)
EXTENDS AssignmentStore

CONSTANTS q1, q2, q3, x, y

MCExperimentOf == [q \in Requests |-> IF q = q3 THEN y ELSE x]
=============================================================================
