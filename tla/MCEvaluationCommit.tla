------------------------ MODULE MCEvaluationCommit -------------------------
(* Two requests with the same key: q1 carries the Exposure row a, q2 none. *)
EXTENDS EvaluationCommit

CONSTANTS q1, q2, a, e1

MCRowsOf == [q \in Requests |-> IF q = q1 THEN Rows ELSE {}]
MCEntityOf == [x \in Rows |-> e1]
=============================================================================
