----------------------- MODULE RawEventDeliveryProofs ----------------------
(***************************************************************************)
(* Safety of the raw event delivery, for every set of messages and         *)
(* Entities and every bound.                                               *)
(*                                                                         *)
(*   TypeInv      the shapes, and what keeps the counters in their bounds  *)
(*   AttemptInv   what the attempt state says of Tinybird                  *)
(*   LedgerInv    who answers for a row that is about to be acknowledged   *)
(*   PermitInv    which permits a message holds at each point              *)
(*   ProofInv     permits and versions keep proofs away from open appends  *)
(***************************************************************************)
EXTENDS RawEventDelivery, TLAPS

\* What bounds deliveries and versions.
CountersBounded ==
  /\ \A m \in Messages : queue[m] = "queued" => deliveries[m] < MaxDeliveries
  /\ \A m \in Messages : queue[m] = "unsent" => deliveries[m] = 0
  /\ suppression # 0 => version < MaxVersion
  /\ suppression \in {0, version}
  /\ active \in {0, version} /\ (active = 0 => version = 1)
  /\ resetPc = "purging" => suppression # 0
  /\ \A m \in Messages : queue[m] # "unsent" => rowVersion[m] \in 1..version

\* An outcome is there to be recorded, a settlement to be carried out.
ArgFits ==
  \A m \in Messages :
    /\ pc[m] = "mark" => arg[m] \in Outcomes
    /\ pc[m] \in {"complete", "release"} => arg[m] \in Settlements

\* An invocation holds exactly the messages that are in flight.
HeldInFlight == \A m \in Messages : pc[m] = "idle" <=> queue[m] # "inflight"

TypeInv == TypeOK /\ CountersBounded /\ HeldInFlight /\ ArgFits

\* Whether a message may still be delivered again.
Live(m) == queue[m] \notin {"acked", "dead"}

(***************************************************************************)
(* Every request that may have left, or may yet leave, a row at Tinybird   *)
(* was refused, but for one: the one that is out, or that ended the        *)
(* attempt.  There is no such one while another request may be sent.       *)
(***************************************************************************)
AllRefused(m) == tinybird[m] + abandoned[m] <= refused[m]

AttemptOK(m) ==
  /\ tinybird[m] + abandoned[m] <= 1 + refused[m]
  /\ pc[m] \in {"send", "wait", "mark"} => attempt[m] = "attempting"
  /\ pc[m] \in {"send", "wait"} => AllRefused(m)
  /\ pc[m] = "mark" /\ arg[m] = "retryable" => AllRefused(m)
  /\ Live(m) /\ attempt[m] \in {"none", "retryable"} => AllRefused(m)

AttemptInv == \A m \in Messages : AttemptOK(m)

(***************************************************************************)
(* The states that lead to an acknowledgement remember why it is due.      *)
(***************************************************************************)
LedgerInv ==
  \A m \in Messages :
    /\ (pc[m] = "mark" /\ arg[m] = "delivered") \/ attempt[m] = "delivered" => tinybird[m] > 0
    /\ pc[m] = "transferred" \/ attempt[m] = "transferred" => m \in deadLetter
    /\ pc[m] \in {"complete", "release"} /\ arg[m] = "ack" => tinybird[m] > 0 \/ m \in deadLetter
    /\ queue[m] = "acked" => tinybird[m] > 0 \/ m \in deadLetter \/ m \in suppressed

(***************************************************************************)
(* A message about to be acknowledged has given its Entity permit back.    *)
(***************************************************************************)
PermitInv ==
  \A m \in Messages :
    /\ queue[m] = "unsent" => m \notin entityPermits
    /\ pc[m] = "entity" \/ m \in entityPermits => IsExposure(m)
    /\ pc[m] = "release" /\ arg[m] \in {"ack", "refuse"} => m \notin entityPermits
    /\ queue[m] = "acked" => m \notin appPermits /\ m \notin entityPermits

(***************************************************************************)
(* From its admission to the answer of Tinybird a row is covered by its    *)
(* permits and by no proof; a purge finds no App permit; a proved version  *)
(* is no longer the one that is admitted.                                  *)
(***************************************************************************)
ProofInv ==
  /\ \A m \in Messages :
       /\ pc[m] \in {"entity", "begin", "send", "wait"} =>
            m \in appPermits /\ rowVersion[m] \notin resetProof
       /\ pc[m] \in {"begin", "send", "wait"} /\ IsExposure(m) =>
            m \in entityPermits /\ received[m] > deletionProof[rowEntity[m]]
  /\ resetPc = "purging" => appPermits = {}
  /\ \A v \in resetProof : v < version \/ (v = version /\ suppression = version)
  /\ \A e \in Entities : deletionProof[e] <= cutoff[e] /\ cutoff[e] <= now
  /\ late = {}

\* The shapes hold at the start.
LEMMA TypeInit == Init => TypeInv
BY DeliveryAssumption DEF Init, TypeInv, TypeOK, CountersBounded, HeldInFlight, ArgFits,
   Attempts, Outcomes, Settlements

\* Every step of the consumer, the authorities and Tinybird keeps the shapes.
LEMMA TypeStep == TypeInv /\ [Next]_vars => TypeInv'
<1> SUFFICES ASSUME TypeInv, [Next]_vars PROVE TypeInv'
  OBVIOUS
<1> USE DeliveryAssumption DEF TypeInv, TypeOK, CountersBounded, HeldInFlight, ArgFits,
        Attempts, Outcomes, Settlements, queueVars, rowVars, consumerVars, permitVars, appVars,
        clockVars, sinkVars,
        historyVars, proofVars
<1>1. ASSUME NEW m \in Messages, Enqueue(m) PROVE TypeInv'
  <2>1. PICK v \in 1..version : rowVersion' = [rowVersion EXCEPT ![m] = v]
    BY <1>1 DEF Enqueue
  <2>2. PICK e \in Entities \cup {NoEntity} : rowEntity' = [rowEntity EXCEPT ![m] = e]
    BY <1>1 DEF Enqueue
  <2> QED BY <1>1, <2>1, <2>2 DEF Enqueue
<1>2. ASSUME NEW m \in Messages, Deliver(m) PROVE TypeInv'
  BY <1>2 DEF Deliver
<1>3. ASSUME NEW m \in Messages, AdmitAtApp(m) PROVE TypeInv'
  <2>1. CASE AdmitApp(m)
    BY <1>3, <2>1 DEF AdmitAtApp, AdmitApp, AdmitsVersion, Goto, GotoWith, IsExposure
  <2>2. CASE RefuseApp(m)
    BY <1>3, <2>2 DEF AdmitAtApp, RefuseApp, AdmitsVersion, CompleteThen, Ack, GotoWith, IsExposure
  <2> QED BY <1>3, <2>1, <2>2 DEF AdmitAtApp
<1>4. ASSUME NEW m \in Messages, AdmitAtEntity(m) PROVE TypeInv'
  BY <1>4 DEF AdmitAtEntity, CompleteThen, Goto, GotoWith, Suppressed
<1>5. ASSUME NEW m \in Messages, CompleteAtEntity(m) PROVE TypeInv'
  BY <1>5 DEF CompleteAtEntity, GotoWith
<1>6. ASSUME NEW m \in Messages, ReleaseAtApp(m) PROVE TypeInv'
  BY <1>6 DEF ReleaseAtApp, Ack, Retry, CompleteThen, GotoWith
<1>7. ASSUME NEW m \in Messages, BeginAttempt(m) PROVE TypeInv'
  <2>1. NextAttempt(m) \in Attempts
    BY DEF NextAttempt
  <2> QED BY <1>7, <2>1 DEF BeginAttempt, CompleteThen, Goto, GotoWith
<1>8. ASSUME NEW m \in Messages, Send(m) PROVE TypeInv'
  BY <1>8 DEF Send, Goto, GotoWith
<1>9. ASSUME NEW m \in Messages, TinybirdAnswers(m) PROVE TypeInv'
  BY <1>9 DEF TinybirdAnswers, Append, GotoWith
<1>10. ASSUME NEW m \in Messages, RecordOutcome(m) PROVE TypeInv'
  <2>1. arg[m] \in Outcomes /\ attempt' = [attempt EXCEPT ![m] = arg[m]]
    BY <1>10 DEF RecordOutcome
  <2>2. CASE Retry(m)
    BY <1>10, <2>1, <2>2 DEF RecordOutcome, Retry
  <2>3. CASE CompleteThen(m, "ack") \/ CompleteThen(m, "retry") \/ Goto(m, "deadletter")
    BY <1>10, <2>1, <2>3 DEF RecordOutcome, CompleteThen, Goto, GotoWith
  <2> QED BY <1>10, <2>2, <2>3 DEF RecordOutcome
<1>11. ASSUME NEW m \in Messages, TransferTerminal(m) PROVE TypeInv'
  <2>1. CASE Goto(m, "transferred")
    BY <1>11, <2>1 DEF TransferTerminal, Goto, GotoWith
  <2>2. CASE Retry(m)
    BY <1>11, <2>2 DEF TransferTerminal, Retry
  <2> QED BY <1>11, <2>1, <2>2 DEF TransferTerminal
<1>12. ASSUME NEW m \in Messages, MarkTransferred(m) PROVE TypeInv'
  <2>1. CASE CompleteThen(m, "ack")
    BY <1>12, <2>1 DEF MarkTransferred, CompleteThen, GotoWith
  <2>2. CASE Retry(m)
    BY <1>12, <2>2 DEF MarkTransferred, Retry
  <2> QED BY <1>12, <2>1, <2>2 DEF MarkTransferred
<1>13. ASSUME NEW m \in Messages, ConsumerFault(m) PROVE TypeInv'
  <2>1. CASE AdmissionFails(m)
    BY <2>1 DEF AdmissionFails, CompleteThen, GotoWith
  <2>2. CASE BeginFails(m)
    BY <2>2 DEF BeginFails, CompleteThen, GotoWith
  <2>3. CASE CompletionFails(m)
    BY <2>3 DEF CompletionFails, Retry
  <2>4. CASE RecordFails(m)
    BY <2>4 DEF RecordFails, Retry
  <2>5. CASE ConsumerDies(m)
    BY <2>5 DEF ConsumerDies, Retry
  <2> QED BY <1>13, <2>1, <2>2, <2>3, <2>4, <2>5 DEF ConsumerFault
<1>14. ASSUME NEW m \in Messages, LandAbandoned(m) PROVE TypeInv'
  BY <1>14 DEF LandAbandoned, Append
<1>15. ASSUME NEW m \in Messages, CleanupAttempt(m) PROVE TypeInv'
  BY <1>15 DEF CleanupAttempt
<1>16. ASSUME NEW e \in Entities, NEW c \in 1..now, Suppress(e, c) PROVE TypeInv'
  BY <1>16 DEF Suppress
<1>17. ASSUME NEW e \in Entities, Delete(e) PROVE TypeInv'
  BY <1>17 DEF Delete
<1>18. CASE ResetApp
  BY <1>18 DEF ResetApp
<1>19. ASSUME NEW e \in Entities, PurgeEntity(e) PROVE TypeInv'
  BY <1>19 DEF PurgeEntity
<1>20. CASE ProveReset
  BY <1>20 DEF ProveReset
<1>21. CASE AbortReset
  BY <1>21 DEF AbortReset
<1>22. CASE CompleteReset
  BY <1>22 DEF CompleteReset
<1>23. CASE Tick
  BY <1>23 DEF Tick
<1>24. CASE UNCHANGED vars
  BY <1>24 DEF vars
<1> QED
  BY <1>1, <1>2, <1>3, <1>4, <1>5, <1>6, <1>7, <1>8, <1>9, <1>10, <1>11, <1>12, <1>13, <1>14,
     <1>15, <1>16, <1>17, <1>18, <1>19, <1>20, <1>21, <1>22, <1>23, <1>24
     DEF Next, ConsumerStep, ResetStep

\* A request goes out only when Tinybird refused the ones before.
LEMMA AttemptStep == TypeInv /\ AttemptInv /\ [Next]_vars => AttemptInv'
<1> SUFFICES ASSUME TypeInv, AttemptInv, [Next]_vars PROVE AttemptInv'
  OBVIOUS
<1> USE DeliveryAssumption DEF TypeInv, TypeOK, HeldInFlight, ArgFits, Attempts, Outcomes,
        Settlements, AttemptInv, AttemptOK, AllRefused, Live, queueVars, rowVars, consumerVars,
        permitVars, appVars, clockVars, sinkVars, historyVars, proofVars
<1>1. ASSUME NEW m \in Messages, Enqueue(m) PROVE AttemptInv'
  BY <1>1 DEF Enqueue
<1>2. ASSUME NEW m \in Messages, Deliver(m) PROVE AttemptInv'
  BY <1>2 DEF Deliver
<1>3. ASSUME NEW m \in Messages, AdmitAtApp(m) PROVE AttemptInv'
  <2>1. CASE AdmitApp(m)
    BY <1>3, <2>1 DEF AdmitAtApp, AdmitApp, Goto, GotoWith
  <2>2. CASE RefuseApp(m)
    BY <1>3, <2>2 DEF AdmitAtApp, RefuseApp, CompleteThen, Ack, GotoWith
  <2> QED BY <1>3, <2>1, <2>2 DEF AdmitAtApp
<1>4. ASSUME NEW m \in Messages, AdmitAtEntity(m) PROVE AttemptInv'
  BY <1>4 DEF AdmitAtEntity, CompleteThen, Goto, GotoWith
<1>5. ASSUME NEW m \in Messages, CompleteAtEntity(m) PROVE AttemptInv'
  BY <1>5 DEF CompleteAtEntity, GotoWith
<1>6. ASSUME NEW m \in Messages, ReleaseAtApp(m) PROVE AttemptInv'
  <2>1. CASE Ack(m)
    BY <1>6, <2>1 DEF ReleaseAtApp, Ack, Retry, CompleteThen, GotoWith
  <2>2. CASE CompleteThen(m, "retry")
    BY <1>6, <2>2 DEF ReleaseAtApp, Ack, CompleteThen, GotoWith
  <2>3. CASE Retry(m)
    BY <1>6, <2>3 DEF ReleaseAtApp, Retry
  <2> QED BY <1>6, <2>1, <2>2, <2>3 DEF ReleaseAtApp
<1>7. ASSUME NEW m \in Messages, BeginAttempt(m) PROVE AttemptInv'
  <2> SUFFICES ASSUME NEW n \in Messages PROVE AttemptOK(n)'
    OBVIOUS
  <2>1. CASE n = m
    BY <1>7, <2>1 DEF BeginAttempt, NextAttempt, CompleteThen, Goto, GotoWith
  <2>2. CASE n # m
    BY <1>7, <2>2 DEF BeginAttempt, NextAttempt, CompleteThen, Goto, GotoWith
  <2> QED BY <2>1, <2>2
<1>8. ASSUME NEW m \in Messages, Send(m) PROVE AttemptInv'
  BY <1>8 DEF Send, Goto, GotoWith
<1>9. ASSUME NEW m \in Messages, TinybirdAnswers(m) PROVE AttemptInv'
  BY <1>9 DEF TinybirdAnswers, Append, GotoWith
<1>10. ASSUME NEW m \in Messages, RecordOutcome(m) PROVE AttemptInv'
  <2> SUFFICES ASSUME NEW n \in Messages PROVE AttemptOK(n)'
    OBVIOUS
  <2>1. CASE n = m
    BY <1>10, <2>1 DEF RecordOutcome, Retry, CompleteThen, Goto, GotoWith
  <2>2. CASE n # m
    BY <1>10, <2>2 DEF RecordOutcome, Retry, CompleteThen, Goto, GotoWith
  <2> QED BY <2>1, <2>2
<1>11. ASSUME NEW m \in Messages, TransferTerminal(m) PROVE AttemptInv'
  <2> SUFFICES ASSUME NEW n \in Messages PROVE AttemptOK(n)'
    OBVIOUS
  <2>1. CASE n = m
    BY <1>11, <2>1 DEF TransferTerminal, Retry, Goto, GotoWith
  <2>2. CASE n # m
    BY <1>11, <2>2 DEF TransferTerminal, Retry, Goto, GotoWith
  <2> QED BY <2>1, <2>2
<1>12. ASSUME NEW m \in Messages, MarkTransferred(m) PROVE AttemptInv'
  <2> SUFFICES ASSUME NEW n \in Messages PROVE AttemptOK(n)'
    OBVIOUS
  <2>1. CASE n = m
    BY <1>12, <2>1 DEF MarkTransferred, Retry, CompleteThen, GotoWith
  <2>2. CASE n # m
    BY <1>12, <2>2 DEF MarkTransferred, Retry, CompleteThen, GotoWith
  <2> QED BY <2>1, <2>2
<1>13. ASSUME NEW m \in Messages, AdmissionFails(m) PROVE AttemptInv'
  BY <1>13 DEF AdmissionFails, CompleteThen, GotoWith
<1>14. ASSUME NEW m \in Messages, BeginFails(m) PROVE AttemptInv'
  BY <1>14 DEF BeginFails, CompleteThen, GotoWith
<1>15. ASSUME NEW m \in Messages, CompletionFails(m) PROVE AttemptInv'
  BY <1>15 DEF CompletionFails, Retry
<1>16. ASSUME NEW m \in Messages, RecordFails(m) PROVE AttemptInv'
  BY <1>16 DEF RecordFails, Retry
<1>17. ASSUME NEW m \in Messages, ConsumerDies(m) PROVE AttemptInv'
  <2> SUFFICES ASSUME NEW n \in Messages PROVE AttemptOK(n)'
    OBVIOUS
  <2>1. CASE n = m
    BY <1>17, <2>1 DEF ConsumerDies, Retry
  <2>2. CASE n # m
    BY <1>17, <2>2 DEF ConsumerDies, Retry
  <2> QED BY <2>1, <2>2
<1>18. ASSUME NEW m \in Messages, LandAbandoned(m) PROVE AttemptInv'
  BY <1>18 DEF LandAbandoned, Append
<1>19. ASSUME NEW m \in Messages, CleanupAttempt(m) PROVE AttemptInv'
  <2> SUFFICES ASSUME NEW n \in Messages PROVE AttemptOK(n)'
    OBVIOUS
  <2>1. CASE n = m
    BY <1>19, <2>1 DEF CleanupAttempt
  <2>2. CASE n # m
    BY <1>19, <2>2 DEF CleanupAttempt
  <2> QED BY <2>1, <2>2
<1>20. ASSUME UNCHANGED <<tinybird, abandoned, refused, pc, arg, attempt, queue>> PROVE AttemptInv'
  BY <1>20
<1>21. ASSUME NEW e \in Entities, NEW c \in 1..now, Suppress(e, c) PROVE AttemptInv'
  BY <1>20, <1>21 DEF Suppress
<1>22. ASSUME NEW e \in Entities, Delete(e) PROVE AttemptInv'
  BY <1>20, <1>22 DEF Delete
<1>23. ASSUME ResetStep PROVE AttemptInv'
  BY <1>20, <1>23 DEF ResetStep, ResetApp, PurgeEntity, ProveReset, CompleteReset
<1>24. CASE AbortReset \/ Tick \/ UNCHANGED vars
  BY <1>20, <1>24 DEF AbortReset, Tick, vars
<1> QED
  BY <1>1, <1>2, <1>3, <1>4, <1>5, <1>6, <1>7, <1>8, <1>9, <1>10, <1>11, <1>12, <1>13, <1>14,
     <1>15, <1>16, <1>17, <1>18, <1>19, <1>21, <1>22, <1>23, <1>24
     DEF Next, ConsumerStep, ConsumerFault

\* Every way to an acknowledgement has its reason on record.
LEMMA LedgerStep == TypeInv /\ LedgerInv /\ [Next]_vars => LedgerInv'
<1> SUFFICES ASSUME TypeInv, LedgerInv, [Next]_vars PROVE LedgerInv'
  OBVIOUS
<1> USE DeliveryAssumption DEF TypeInv, TypeOK, HeldInFlight, ArgFits, Attempts, Outcomes,
        Settlements, LedgerInv, queueVars, rowVars, consumerVars, permitVars, appVars,
        clockVars, sinkVars, historyVars, proofVars
<1>1. ASSUME NEW m \in Messages, Enqueue(m) PROVE LedgerInv'
  BY <1>1 DEF Enqueue
<1>2. ASSUME NEW m \in Messages, Deliver(m) PROVE LedgerInv'
  BY <1>2 DEF Deliver
<1>3. ASSUME NEW m \in Messages, AdmitAtApp(m) PROVE LedgerInv'
  <2>1. CASE AdmitApp(m)
    BY <1>3, <2>1 DEF AdmitAtApp, AdmitApp, Goto, GotoWith
  <2>2. CASE RefuseApp(m)
    BY <1>3, <2>2 DEF AdmitAtApp, RefuseApp, CompleteThen, Ack, GotoWith
  <2> QED BY <1>3, <2>1, <2>2 DEF AdmitAtApp
<1>4. ASSUME NEW m \in Messages, AdmitAtEntity(m) PROVE LedgerInv'
  BY <1>4 DEF AdmitAtEntity, CompleteThen, Goto, GotoWith
<1>5. ASSUME NEW m \in Messages, CompleteAtEntity(m) PROVE LedgerInv'
  BY <1>5 DEF CompleteAtEntity, GotoWith
<1>6. ASSUME NEW m \in Messages, ReleaseAtApp(m) PROVE LedgerInv'
  <2>1. CASE Ack(m)
    BY <1>6, <2>1 DEF ReleaseAtApp, Ack, Retry, CompleteThen, GotoWith
  <2>2. CASE CompleteThen(m, "retry")
    BY <1>6, <2>2 DEF ReleaseAtApp, Ack, CompleteThen, GotoWith
  <2>3. CASE Retry(m)
    BY <1>6, <2>3 DEF ReleaseAtApp, Retry
  <2> QED BY <1>6, <2>1, <2>2, <2>3 DEF ReleaseAtApp
<1>7. ASSUME NEW m \in Messages, BeginAttempt(m) PROVE LedgerInv'
  <2>1. attempt'[m] = NextAttempt(m) /\ \A n \in Messages \ {m} : attempt'[n] = attempt[n]
    BY <1>7 DEF BeginAttempt
  <2> QED BY <1>7, <2>1 DEF BeginAttempt, NextAttempt, CompleteThen, Goto, GotoWith
<1>8. ASSUME NEW m \in Messages, Send(m) PROVE LedgerInv'
  BY <1>8 DEF Send, Goto, GotoWith
<1>9. ASSUME NEW m \in Messages, TinybirdAnswers(m) PROVE LedgerInv'
  BY <1>9 DEF TinybirdAnswers, Append, GotoWith
<1>10. ASSUME NEW m \in Messages, RecordOutcome(m) PROVE LedgerInv'
  <2>1. CASE Retry(m)
    BY <1>10, <2>1 DEF RecordOutcome, Retry
  <2>2. CASE CompleteThen(m, "ack") \/ CompleteThen(m, "retry") \/ Goto(m, "deadletter")
    BY <1>10, <2>2 DEF RecordOutcome, CompleteThen, Goto, GotoWith, Retry
  <2> QED BY <1>10, <2>1, <2>2 DEF RecordOutcome
<1>11. ASSUME NEW m \in Messages, TransferTerminal(m) PROVE LedgerInv'
  BY <1>11 DEF TransferTerminal, Retry, Goto, GotoWith
<1>12. ASSUME NEW m \in Messages, MarkTransferred(m) PROVE LedgerInv'
  BY <1>12 DEF MarkTransferred, Retry, CompleteThen, GotoWith
<1>13. ASSUME NEW m \in Messages, AdmissionFails(m) PROVE LedgerInv'
  BY <1>13 DEF AdmissionFails, CompleteThen, GotoWith
<1>14. ASSUME NEW m \in Messages, BeginFails(m) PROVE LedgerInv'
  BY <1>14 DEF BeginFails, CompleteThen, GotoWith
<1>15. ASSUME NEW m \in Messages, CompletionFails(m) PROVE LedgerInv'
  BY <1>15 DEF CompletionFails, Retry
<1>16. ASSUME NEW m \in Messages, RecordFails(m) PROVE LedgerInv'
  BY <1>16 DEF RecordFails, Retry
<1>17. ASSUME NEW m \in Messages, ConsumerDies(m) PROVE LedgerInv'
  BY <1>17 DEF ConsumerDies, Retry
<1>18. ASSUME NEW m \in Messages, LandAbandoned(m) PROVE LedgerInv'
  BY <1>18 DEF LandAbandoned, Append
<1>19. ASSUME NEW m \in Messages, CleanupAttempt(m) PROVE LedgerInv'
  BY <1>19 DEF CleanupAttempt
<1>20. ASSUME UNCHANGED <<tinybird, pc, arg, attempt, queue, deadLetter, suppressed>>
       PROVE LedgerInv'
  BY <1>20
<1>21. ASSUME NEW e \in Entities, NEW c \in 1..now, Suppress(e, c) PROVE LedgerInv'
  BY <1>20, <1>21 DEF Suppress
<1>22. ASSUME NEW e \in Entities, Delete(e) PROVE LedgerInv'
  BY <1>20, <1>22 DEF Delete
<1>23. ASSUME ResetStep PROVE LedgerInv'
  BY <1>20, <1>23 DEF ResetStep, ResetApp, PurgeEntity, ProveReset, CompleteReset
<1>24. CASE AbortReset \/ Tick \/ UNCHANGED vars
  BY <1>20, <1>24 DEF AbortReset, Tick, vars
<1> QED
  BY <1>1, <1>2, <1>3, <1>4, <1>5, <1>6, <1>7, <1>8, <1>9, <1>10, <1>11, <1>12, <1>13, <1>14,
     <1>15, <1>16, <1>17, <1>18, <1>19, <1>21, <1>22, <1>23, <1>24
     DEF Next, ConsumerStep, ConsumerFault

\* A message is acknowledged after its permits are back.
LEMMA PermitStep == TypeInv /\ PermitInv /\ [Next]_vars => PermitInv'
<1> SUFFICES ASSUME TypeInv, PermitInv, [Next]_vars PROVE PermitInv'
  OBVIOUS
<1> USE DeliveryAssumption DEF TypeInv, TypeOK, HeldInFlight, ArgFits, Attempts, Outcomes,
        Settlements, PermitInv, IsExposure, queueVars, rowVars, consumerVars, permitVars,
        appVars, clockVars, sinkVars, historyVars, proofVars
<1>1. ASSUME NEW m \in Messages, Enqueue(m) PROVE PermitInv'
  BY <1>1 DEF Enqueue
<1>2. ASSUME NEW m \in Messages, Deliver(m) PROVE PermitInv'
  BY <1>2 DEF Deliver
<1>3. ASSUME NEW m \in Messages, AdmitAtApp(m) PROVE PermitInv'
  <2>1. CASE AdmitApp(m)
    BY <1>3, <2>1 DEF AdmitAtApp, AdmitApp, Goto, GotoWith
  <2>2. CASE RefuseApp(m)
    BY <1>3, <2>2 DEF AdmitAtApp, RefuseApp, CompleteThen, Ack, GotoWith
  <2> QED BY <1>3, <2>1, <2>2 DEF AdmitAtApp
<1>4. ASSUME NEW m \in Messages, AdmitAtEntity(m) PROVE PermitInv'
  BY <1>4 DEF AdmitAtEntity, CompleteThen, Goto, GotoWith
<1>5. ASSUME NEW m \in Messages, CompleteAtEntity(m) PROVE PermitInv'
  BY <1>5 DEF CompleteAtEntity, GotoWith
<1>6. ASSUME NEW m \in Messages, ReleaseAtApp(m) PROVE PermitInv'
  <2>1. CASE Ack(m)
    BY <1>6, <2>1 DEF ReleaseAtApp, Ack, Retry, CompleteThen, GotoWith
  <2>2. CASE CompleteThen(m, "retry")
    BY <1>6, <2>2 DEF ReleaseAtApp, Ack, CompleteThen, GotoWith
  <2>3. CASE Retry(m)
    BY <1>6, <2>3 DEF ReleaseAtApp, Retry
  <2> QED BY <1>6, <2>1, <2>2, <2>3 DEF ReleaseAtApp
<1>7. ASSUME NEW m \in Messages, BeginAttempt(m) PROVE PermitInv'
  <2>1. attempt'[m] = NextAttempt(m) /\ \A n \in Messages \ {m} : attempt'[n] = attempt[n]
    BY <1>7 DEF BeginAttempt
  <2> QED BY <1>7, <2>1 DEF BeginAttempt, NextAttempt, CompleteThen, Goto, GotoWith
<1>8. ASSUME NEW m \in Messages, Send(m) PROVE PermitInv'
  BY <1>8 DEF Send, Goto, GotoWith
<1>9. ASSUME NEW m \in Messages, TinybirdAnswers(m) PROVE PermitInv'
  BY <1>9 DEF TinybirdAnswers, Append, GotoWith
<1>10. ASSUME NEW m \in Messages, RecordOutcome(m) PROVE PermitInv'
  <2>1. CASE Retry(m)
    BY <1>10, <2>1 DEF RecordOutcome, Retry
  <2>2. CASE CompleteThen(m, "ack") \/ CompleteThen(m, "retry") \/ Goto(m, "deadletter")
    BY <1>10, <2>2 DEF RecordOutcome, CompleteThen, Goto, GotoWith, Retry
  <2> QED BY <1>10, <2>1, <2>2 DEF RecordOutcome
<1>11. ASSUME NEW m \in Messages, TransferTerminal(m) PROVE PermitInv'
  BY <1>11 DEF TransferTerminal, Retry, Goto, GotoWith
<1>12. ASSUME NEW m \in Messages, MarkTransferred(m) PROVE PermitInv'
  BY <1>12 DEF MarkTransferred, Retry, CompleteThen, GotoWith
<1>13. ASSUME NEW m \in Messages, AdmissionFails(m) PROVE PermitInv'
  BY <1>13 DEF AdmissionFails, CompleteThen, GotoWith
<1>14. ASSUME NEW m \in Messages, BeginFails(m) PROVE PermitInv'
  BY <1>14 DEF BeginFails, CompleteThen, GotoWith
<1>15. ASSUME NEW m \in Messages, CompletionFails(m) PROVE PermitInv'
  BY <1>15 DEF CompletionFails, Retry
<1>16. ASSUME NEW m \in Messages, RecordFails(m) PROVE PermitInv'
  BY <1>16 DEF RecordFails, Retry
<1>17. ASSUME NEW m \in Messages, ConsumerDies(m) PROVE PermitInv'
  BY <1>17 DEF ConsumerDies, Retry
<1>18. ASSUME NEW m \in Messages, LandAbandoned(m) PROVE PermitInv'
  BY <1>18 DEF LandAbandoned, Append
<1>19. ASSUME NEW m \in Messages, CleanupAttempt(m) PROVE PermitInv'
  BY <1>19 DEF CleanupAttempt
<1>20. ASSUME UNCHANGED <<pc, arg, queue, rowEntity, appPermits, entityPermits>>
       PROVE PermitInv'
  BY <1>20
<1>21. ASSUME NEW e \in Entities, NEW c \in 1..now, Suppress(e, c) PROVE PermitInv'
  BY <1>20, <1>21 DEF Suppress
<1>22. ASSUME NEW e \in Entities, Delete(e) PROVE PermitInv'
  BY <1>20, <1>22 DEF Delete
<1>23. ASSUME ResetStep PROVE PermitInv'
  BY <1>20, <1>23 DEF ResetStep, ResetApp, PurgeEntity, ProveReset, CompleteReset
<1>24. CASE AbortReset \/ Tick \/ UNCHANGED vars
  BY <1>20, <1>24 DEF AbortReset, Tick, vars
<1> QED
  BY <1>1, <1>2, <1>3, <1>4, <1>5, <1>6, <1>7, <1>8, <1>9, <1>10, <1>11, <1>12, <1>13, <1>14,
     <1>15, <1>16, <1>17, <1>18, <1>19, <1>21, <1>22, <1>23, <1>24
     DEF Next, ConsumerStep, ConsumerFault

\* Permits and versions keep a proof away from every open append.
LEMMA ProofStep == TypeInv /\ PermitInv /\ ProofInv /\ [Next]_vars => ProofInv'
<1> SUFFICES ASSUME TypeInv, PermitInv, ProofInv, [Next]_vars PROVE ProofInv'
  OBVIOUS
<1> USE DeliveryAssumption DEF TypeInv, TypeOK, CountersBounded, HeldInFlight, ArgFits,
        Attempts, Outcomes, Settlements, PermitInv, ProofInv, IsExposure, queueVars, rowVars,
        consumerVars, permitVars, appVars, clockVars, sinkVars, historyVars, proofVars
<1>1. ASSUME NEW m \in Messages, Enqueue(m) PROVE ProofInv'
  BY <1>1 DEF Enqueue
<1>2. ASSUME NEW m \in Messages, Deliver(m) PROVE ProofInv'
  BY <1>2 DEF Deliver
<1>3. ASSUME NEW m \in Messages, AdmitAtApp(m) PROVE ProofInv'
  <2>1. CASE AdmitApp(m)
    BY <1>3, <2>1 DEF AdmitAtApp, AdmitApp, Goto, GotoWith, AdmitsVersion
  <2>2. CASE RefuseApp(m)
    BY <1>3, <2>2 DEF AdmitAtApp, RefuseApp, CompleteThen, Ack, GotoWith, AdmitsVersion
  <2> QED BY <1>3, <2>1, <2>2 DEF AdmitAtApp
<1>4. ASSUME NEW m \in Messages, AdmitAtEntity(m) PROVE ProofInv'
  BY <1>4 DEF AdmitAtEntity, CompleteThen, Goto, GotoWith, Suppressed
<1>5. ASSUME NEW m \in Messages, CompleteAtEntity(m) PROVE ProofInv'
  BY <1>5 DEF CompleteAtEntity, GotoWith
<1>6. ASSUME NEW m \in Messages, ReleaseAtApp(m) PROVE ProofInv'
  <2>1. CASE Ack(m)
    BY <1>6, <2>1 DEF ReleaseAtApp, Ack, Retry, CompleteThen, GotoWith
  <2>2. CASE CompleteThen(m, "retry")
    BY <1>6, <2>2 DEF ReleaseAtApp, Ack, CompleteThen, GotoWith
  <2>3. CASE Retry(m)
    BY <1>6, <2>3 DEF ReleaseAtApp, Retry
  <2> QED BY <1>6, <2>1, <2>2, <2>3 DEF ReleaseAtApp
<1>7. ASSUME NEW m \in Messages, BeginAttempt(m) PROVE ProofInv'
  <2>1. attempt'[m] = NextAttempt(m) /\ \A n \in Messages \ {m} : attempt'[n] = attempt[n]
    BY <1>7 DEF BeginAttempt
  <2> QED BY <1>7, <2>1 DEF BeginAttempt, NextAttempt, CompleteThen, Goto, GotoWith
<1>8. ASSUME NEW m \in Messages, Send(m) PROVE ProofInv'
  BY <1>8 DEF Send, Goto, GotoWith
<1>9. ASSUME NEW m \in Messages, TinybirdAnswers(m) PROVE ProofInv'
  BY <1>9 DEF TinybirdAnswers, Append, GotoWith, Proved
<1>10. ASSUME NEW m \in Messages, RecordOutcome(m) PROVE ProofInv'
  <2>1. CASE Retry(m)
    BY <1>10, <2>1 DEF RecordOutcome, Retry
  <2>2. CASE CompleteThen(m, "ack") \/ CompleteThen(m, "retry") \/ Goto(m, "deadletter")
    BY <1>10, <2>2 DEF RecordOutcome, CompleteThen, Goto, GotoWith, Retry
  <2> QED BY <1>10, <2>1, <2>2 DEF RecordOutcome
<1>11. ASSUME NEW m \in Messages, TransferTerminal(m) PROVE ProofInv'
  BY <1>11 DEF TransferTerminal, Retry, Goto, GotoWith
<1>12. ASSUME NEW m \in Messages, MarkTransferred(m) PROVE ProofInv'
  BY <1>12 DEF MarkTransferred, Retry, CompleteThen, GotoWith
<1>13. ASSUME NEW m \in Messages, AdmissionFails(m) PROVE ProofInv'
  BY <1>13 DEF AdmissionFails, CompleteThen, GotoWith
<1>14. ASSUME NEW m \in Messages, BeginFails(m) PROVE ProofInv'
  BY <1>14 DEF BeginFails, CompleteThen, GotoWith
<1>15. ASSUME NEW m \in Messages, CompletionFails(m) PROVE ProofInv'
  BY <1>15 DEF CompletionFails, Retry
<1>16. ASSUME NEW m \in Messages, RecordFails(m) PROVE ProofInv'
  BY <1>16 DEF RecordFails, Retry
<1>17. ASSUME NEW m \in Messages, ConsumerDies(m) PROVE ProofInv'
  BY <1>17 DEF ConsumerDies, Retry
<1>18. ASSUME NEW m \in Messages, LandAbandoned(m) PROVE ProofInv'
  BY <1>18 DEF LandAbandoned, Append
<1>19. ASSUME NEW m \in Messages, CleanupAttempt(m) PROVE ProofInv'
  BY <1>19 DEF CleanupAttempt
<1>20. ASSUME NEW e \in Entities, NEW c \in 1..now, Suppress(e, c) PROVE ProofInv'
  BY <1>20 DEF Suppress
<1>21. ASSUME NEW e \in Entities, Delete(e) PROVE ProofInv'
  BY <1>21 DEF Delete, PermitsOf
<1>22. ASSUME ResetApp PROVE ProofInv'
  BY <1>22 DEF ResetApp
<1>23. ASSUME NEW e \in Entities, PurgeEntity(e) PROVE ProofInv'
  BY <1>23 DEF PurgeEntity, PermitsOf
<1>24. ASSUME ProveReset PROVE ProofInv'
  BY <1>24 DEF ProveReset
<1>25. ASSUME CompleteReset PROVE ProofInv'
  BY <1>25 DEF CompleteReset
<1>26. ASSUME AbortReset PROVE ProofInv'
  BY <1>26 DEF AbortReset
<1>27. ASSUME Tick PROVE ProofInv'
  BY <1>27 DEF Tick
<1>28. ASSUME UNCHANGED vars PROVE ProofInv'
  BY <1>28 DEF vars
<1> QED
  BY <1>1, <1>2, <1>3, <1>4, <1>5, <1>6, <1>7, <1>8, <1>9, <1>10, <1>11, <1>12, <1>13, <1>14,
     <1>15, <1>16, <1>17, <1>18, <1>19, <1>20, <1>21, <1>22, <1>23, <1>24, <1>25, <1>26, <1>27,
     <1>28
     DEF Next, ConsumerStep, ConsumerFault, ResetStep

\* The inductive invariant.
Inv == TypeInv /\ AttemptInv /\ LedgerInv /\ PermitInv /\ ProofInv

\* It holds at the start.
LEMMA InvInit == Init => Inv
<1> SUFFICES ASSUME Init PROVE Inv
  OBVIOUS
<1>1. TypeInv
  BY TypeInit
<1>2. AttemptInv /\ LedgerInv /\ PermitInv /\ ProofInv
  BY DeliveryAssumption DEF Init, AttemptInv, AttemptOK, AllRefused, Live, LedgerInv, PermitInv, ProofInv
<1> QED BY <1>1, <1>2 DEF Inv

\* It holds always.
LEMMA InvInductive == Spec => []Inv
<1>1. Inv /\ [Next]_vars => Inv'
  BY TypeStep, AttemptStep, LedgerStep, PermitStep, ProofStep DEF Inv
<1> QED BY InvInit, <1>1, PTL DEF Spec

(***************************************************************************)
(* The consumer, the attempt object and the authorities keep the shapes    *)
(* of their state; no message is delivered more than MaxDeliveries times.  *)
(***************************************************************************)
THEOREM DeliveryTypeOK == Spec => []TypeOK
<1>1. Inv => TypeOK
  BY DEF Inv, TypeInv
<1> QED BY InvInductive, <1>1, PTL

(***************************************************************************)
(* No sequence of redeliveries, lost answers, timeouts and dying consumers *)
(* makes the consumer send a row again that Tinybird has not refused:      *)
(* raw-event-queue.ts resends only after a durable retryable outcome.      *)
(***************************************************************************)
THEOREM DeliveryOnlyRefusedIsResent == Spec => []OnlyRefusedIsResent
<1>1. Inv => OnlyRefusedIsResent
  BY DEF Inv, AttemptInv, AttemptOK, OnlyRefusedIsResent
<1> QED BY InvInductive, <1>1, PTL

(***************************************************************************)
(* A message the consumer acknowledges was appended, copied to the DLQ or  *)
(* withheld for privacy, whatever calls failed on the way.                 *)
(***************************************************************************)
THEOREM DeliveryAckedIsAccountedFor == Spec => []AckedIsAccountedFor
<1>1. Inv => AckedIsAccountedFor
  BY DEF Inv, LedgerInv, AckedIsAccountedFor
<1> QED BY InvInductive, <1>1, PTL

(***************************************************************************)
(* The consumer acknowledges a message only when both authorities have     *)
(* released the permits of all its deliveries.                             *)
(***************************************************************************)
THEOREM DeliveryAckedHoldsNoPermit == Spec => []AckedHoldsNoPermit
<1>1. Inv => AckedHoldsNoPermit
  BY DEF Inv, PermitInv, AckedHoldsNoPermit
<1> QED BY InvInductive, <1>1, PTL

(***************************************************************************)
(* Between its admission and Tinybird's answer a row is protected by its   *)
(* permits: neither /delete nor /reset-app hands out a proof over it.      *)
(***************************************************************************)
THEOREM DeliveryNoAttendedAppendAfterProof == Spec => []NoAttendedAppendAfterProof
<1>1. Inv => NoAttendedAppendAfterProof
  BY DEF Inv, ProofInv, NoAttendedAppendAfterProof
<1> QED BY InvInductive, <1>1, PTL
=============================================================================
