----------------------------- MODULE FirstTouch ----------------------------
(***************************************************************************)
(* What the Assignment Store promises of one Entity (ADR-0006, holdover    *)
(* write contract): an Experiment's holdover is written once, by the first *)
(* touch, after an Exposure of the Experiment was accepted; a later touch  *)
(* never replaces it, and only a privacy operation takes it away.          *)
(***************************************************************************)
EXTENDS Naturals

CONSTANTS Experiments, Runs

VARIABLES holdover, exposed

Absent == 0

Init == holdover = [x \in Experiments |-> Absent] /\ exposed = {}

\* An Exposure of the Experiment is accepted by Event Ingest.
Expose(x) ==
  /\ exposed' = exposed \cup {x}
  /\ UNCHANGED holdover

\* The first touch wins.
Touch(x, r) ==
  /\ holdover[x] = Absent /\ x \in exposed
  /\ holdover' = [holdover EXCEPT ![x] = r]
  /\ UNCHANGED exposed

\* An Entity deletion or an App reset.
Forget(gone) ==
  /\ holdover' = [x \in Experiments |-> IF x \in gone THEN Absent ELSE holdover[x]]
  /\ UNCHANGED exposed

Next ==
  \/ \E x \in Experiments : Expose(x) \/ \E r \in Runs : Touch(x, r)
  \/ \E gone \in SUBSET Experiments : Forget(gone)

Spec == Init /\ [][Next]_<<holdover, exposed>>
=============================================================================
