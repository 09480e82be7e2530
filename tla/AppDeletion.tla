---------------------------- MODULE AppDeletion ----------------------------
(***************************************************************************)
(* Deletion of an App: the DELETE requests of the Control Plane, the D1    *)
(* recovery record, the deletion saga of the App inventory Durable Object  *)
(* and the Entity outboxes it freezes, resumes or drains (HoldoverOutbox). *)
(*                                                                         *)
(*   request    deleteAppRowsWithHoldoverSaga and                          *)
(*              resumeHoldoverFinalizeAfterAppGone                         *)
(*   D1         app_deletion_sagas, one row per App                        *)
(*   inventory  HoldoverWriteAppInventoryDurableObject: storage steps are  *)
(*              serialized, the calls of an outbox run between two of them *)
(*                                                                         *)
(* A driver is whoever moves the saga: a request or the inventory's alarm. *)
(* A request that is over leaves its slot to another one, and a generation *)
(* that nobody remembers is fresh again.  Only the presence of the cutoff  *)
(* matters, because the drain purges every job.                            *)
(***************************************************************************)
EXTENDS HoldoverOutbox

CONSTANTS
  Requests,   \* slots of DELETE calls for the App by its owner
  Generations, \* saga generations, minted with the recovery record
  None,       \* no generation, no Entity
  Dies        \* may a request die between two calls?  TRUE or FALSE

ASSUME DeletionAssumption ==
  /\ None \notin Generations \cup Entities
  /\ "alarm" \notin Requests /\ Dies \in BOOLEAN

VARIABLES
  d1,                \* the recovery record: its phase and generation
  saga,              \* SAGA_KEY: phase, generation, Entities to resume, tombstone cleared
  cutoff,            \* DELETE_BEFORE_TS_KEY is set
  alarm,             \* the inventory's alarm is set
  drv                \* what each driver is doing

sagaVars == <<saga, cutoff, alarm>>
inventoryVars == <<registered, refusalVars, sagaVars>>
vars == <<outboxVars, inventoryVars, kvVars, faults, d1, drv>>

Alarm == "alarm"
Drivers == Requests \cup {Alarm}
NoSaga == [phase |-> "idle", gen |-> None, pending |-> {}, cleared |-> FALSE]
NoRecord == [phase |-> "none", gen |-> None]
CrossedPhases == {"d1_deleted", "finalizing", "completed"}

\* A driver: where it is, its generation, the phase an alarm read, the Entity it
\* calls, and whether it came after the App row was gone and so passes no cutoff.
AtRest(label) == [at |-> label, gen |-> None, seen |-> "idle", step |-> None, resumes |-> FALSE]
Idle == AtRest("idle")

At(d) == drv[d].at
Gen(d) == drv[d].gen
Entity(d) == drv[d].step

Goto(d, label) == drv' = [drv EXCEPT ![d].at = label]
GotoWith(d, label, e) == drv' = [drv EXCEPT ![d].at = label, ![d].step = e]
\* The alarm's handler returns, a request is answered.
Stop(d) == drv' = [drv EXCEPT ![d] = Idle]

Init ==
  /\ OutboxInit
  /\ d1 = NoRecord
  /\ saga = NoSaga /\ cutoff = FALSE /\ alarm = FALSE
  /\ drv = [d \in Drivers |-> Idle]

Of(phase, g, pending, cleared) ==
  [phase |-> phase, gen |-> g, pending |-> pending, cleared |-> cleared]

----------------------------------------------------------------------------
(* The request, at D1.                                                     *)

Remembered(g) == g \in {d1.gen, saga.gen} \/ \E d \in Drivers : Gen(d) = g
Forgotten == {g \in Generations : ~Remembered(g)}

\* beginAppDeletionSaga: one record per App, shared by the owner's requests.
Start(r) ==
  /\ At(r) = "idle"
  /\ \/ d1.phase = "started" /\ UNCHANGED d1
     \/ /\ d1.phase = "none" /\ Forgotten # {}
        /\ d1' = [phase |-> "started", gen |-> CHOOSE g \in Forgotten : TRUE]
  /\ drv' = [drv EXCEPT ![r].at = "prepare", ![r].gen = d1'.gen]
  /\ UNCHANGED <<outboxVars, inventoryVars, kvVars, faults>>

\* The App row is gone: resumeHoldoverFinalizeAfterAppGone.
Resume(r) ==
  /\ At(r) = "idle" /\ d1.phase \in {"d1_deleted", "complete"}
  /\ IF d1.phase = "complete" THEN Stop(r)
     ELSE drv' = [drv EXCEPT ![r].at = "mark", ![r].gen = d1.gen, ![r].resumes = TRUE]
  /\ UNCHANGED <<outboxVars, inventoryVars, kvVars, faults, d1>>

Crossable(r) == d1 = [phase |-> "started", gen |-> Gen(r)]

\* deleteAppCascade: the App row and the record change in one batch.
Cascade(r) ==
  /\ At(r) = "cascade" /\ Crossable(r)
  /\ d1' = [d1 EXCEPT !.phase = "d1_deleted"]
  /\ Goto(r, "mark")
  /\ UNCHANGED <<outboxVars, inventoryVars, kvVars, faults>>

\* The batch aborts, or a credential could not be revoked, or the answer is lost.
CascadeFails(r) ==
  /\ At(r) = "cascade"
  /\ \/ ~Crossable(r) /\ UNCHANGED <<d1, faults>>
     \/ Fault /\ (d1' = d1 \/ (Crossable(r) /\ d1' = [d1 EXCEPT !.phase = "d1_deleted"]))
  /\ Goto(r, "recover")
  /\ UNCHANGED <<outboxVars, inventoryVars, kvVars>>

\* recoverFailedAppDeletionBoundary: the record decides between cancel and finish.
Recover(r) ==
  /\ At(r) = "recover"
  /\ d1' = IF Crossable(r) THEN NoRecord ELSE d1
  /\ CASE d1.phase \in {"d1_deleted", "complete"} -> Goto(r, "mark")
       [] d1'.phase = "none" -> Goto(r, "cancel")
       [] OTHER -> Stop(r)
  /\ UNCHANGED <<outboxVars, inventoryVars, kvVars, faults>>

\* completeAppDeletionSaga, after the drain.
Complete(r) ==
  /\ At(r) = "complete"
  /\ IF d1.gen = Gen(r) /\ d1.phase \in {"d1_deleted", "complete"}
     THEN d1' = [d1 EXCEPT !.phase = "complete"]
     ELSE UNCHANGED d1
  /\ Stop(r)
  /\ UNCHANGED <<outboxVars, inventoryVars, kvVars, faults>>

\* A request that has been let past prepare and has not marked the boundary.
Crossing(r) == At(r) \in {"cascade", "recover", "mark"}

\* The request is lost between two calls (or cancelAppDeletionSaga fails unheard).
RequestDies(r) ==
  /\ Dies /\ (Crossing(r) \/ At(r) \in {"prepare", "cancel", "finalize", "complete"})
  /\ Fault
  /\ drv' = [drv EXCEPT ![r] = AtRest(IF Crossing(r) THEN "lost" ELSE "idle")]
  /\ UNCHANGED <<outboxVars, inventoryVars, kvVars, d1>>

----------------------------------------------------------------------------
(* Cancelling the saga.                                                    *)

\* buildCancelingSaga.
Canceling(g) ==
  LET again == saga.phase = "canceling"
  IN  Of("canceling", IF saga = NoSaga THEN g ELSE saga.gen,
         IF again THEN saga.pending ELSE registered, again /\ saga.cleared)

\* The saga is over and the App is live again.
Restore == saga' = NoSaga /\ suppressed' = FALSE /\ cutoff' = FALSE

\* advanceAppDeletionCancelSaga without a resume port, in one storage step.
AdvanceCancel(g) ==
  /\ IF Canceling(g).cleared THEN UNCHANGED kvVars ELSE KvSet(FALSE)
  /\ IF Canceling(g).pending # {}
     THEN saga' = [Canceling(g) EXCEPT !.cleared = TRUE] /\ UNCHANGED <<suppressed, cutoff>>
     ELSE Restore

\* The tombstone's delete fails, with or without effect.
CancelBlocked(g) ==
  /\ ~Canceling(g).cleared
  /\ KvSet(FALSE) \/ UNCHANGED kvVars
  /\ saga' = Canceling(g)
  /\ UNCHANGED <<suppressed, cutoff>>

----------------------------------------------------------------------------
(* beginDeletion, in one storage step; it arms the alarm before anything.  *)

\* Another generation is past the boundary.
BeginRefused(r) ==
  /\ At(r) = "prepare"
  /\ saga # NoSaga /\ saga.gen # Gen(r) /\ saga.phase \in CrossedPhases
  /\ alarm' = TRUE
  /\ Goto(r, "recover")
  /\ UNCHANGED <<outboxVars, registered, refusalVars, saga, cutoff, kvVars, faults, d1>>

\* The answer reaches the request, or is lost.
Answered(r) ==
  \/ Goto(r, "cascade") /\ UNCHANGED faults
  \/ Fault /\ Goto(r, "recover")

\* sameGenerationPrepareEarlyReturn; the alarm goes whatever the phase.
BeginReplayed(r) ==
  /\ At(r) = "prepare"
  /\ saga.gen = Gen(r) /\ saga.phase \in CrossedPhases \cup {"prepared"}
  /\ suppressed' = (suppressed \/ saga.phase = "completed")
  /\ complete' = (complete \/ saga.phase = "completed")
  /\ alarm' = FALSE
  /\ Answered(r)
  /\ UNCHANGED <<outboxVars, registered, saga, cutoff, kvVars, d1>>

\* A cancel that has to end before this generation may freeze.
PriorCancel(r) ==
  saga.phase = "canceling" \/ (saga.phase = "preparing" /\ saga.gen # Gen(r))

\* It does not end here: the request is refused, the alarm goes on with it.
BeginWaits(r) ==
  /\ At(r) = "prepare" /\ PriorCancel(r)
  /\ \/ Canceling(Gen(r)).pending # {} /\ AdvanceCancel(Gen(r)) /\ UNCHANGED faults
     \/ CancelBlocked(Gen(r)) /\ Fault
  /\ alarm' = TRUE
  /\ Goto(r, "recover")
  /\ UNCHANGED <<outboxVars, registered, complete, d1>>

\* writePreparingFreeze is reached.
MayFreeze(r) ==
  /\ At(r) = "prepare"
  /\ saga.gen = Gen(r) => saga.phase \notin CrossedPhases \cup {"prepared"}
  /\ saga.gen # Gen(r) => saga.phase \notin CrossedPhases
  /\ PriorCancel(r) => Canceling(Gen(r)).pending = {}

Freeze == suppressed' = TRUE /\ cutoff' = TRUE /\ complete' = FALSE

\* The put of the tombstone, after the delete that a prior cancel owes.
FreezeKv(r) == kv' = TRUE /\ kvStale' = (kvStale \/ ~kv \/ PriorCancel(r))

\* The freeze is stored, the tombstone is put, the saga is prepared.
Prepare(r) ==
  /\ MayFreeze(r)
  /\ Freeze /\ saga' = Of("prepared", Gen(r), {}, FALSE)
  /\ FreezeKv(r)
  /\ alarm' = FALSE
  /\ Answered(r)
  /\ UNCHANGED <<outboxVars, registered, d1>>

\* The put fails: failPrepareIntoCancel, whose own delete may fail too.
PrepareFails(r) ==
  /\ MayFreeze(r) /\ Fault
  /\ complete' = FALSE
  /\ \/ /\ kv' = FALSE /\ kvStale' = TRUE
        /\ IF registered = {} THEN Restore
           ELSE /\ saga' = Of("canceling", Gen(r), registered, TRUE)
                /\ suppressed' = TRUE /\ cutoff' = TRUE
     \/ /\ kv' \in {kv, TRUE} /\ kvStale' = TRUE
        /\ saga' = Of("canceling", Gen(r), registered, FALSE)
        /\ suppressed' = TRUE /\ cutoff' = TRUE
  /\ alarm' = TRUE
  /\ Goto(r, "recover")
  /\ UNCHANGED <<outboxVars, registered, d1>>

\* Labels of a driver that runs in the inventory object.
Inside == {"inert", "resume", "resumed", "cancelEnds", "purge", "purged", "finalizeEnds"}

\* A restart of the inventory: its handlers are lost, the alarm is delivered again.
HandlersLost(r) ==
  drv' = [d \in Drivers |->
            IF d = r THEN [drv[r] EXCEPT !.at = "recover"]
            ELSE IF At(d) \in Inside \/ d = Alarm THEN Idle ELSE drv[d]]

\* It restarts while the tombstone is being put.
PrepareCrashes(r) ==
  /\ MayFreeze(r) /\ Fault
  /\ Freeze /\ saga' = Of("preparing", Gen(r), registered, FALSE)
  /\ kv' \in {kv, TRUE} /\ kvStale' = TRUE
  /\ alarm' = TRUE
  /\ HandlersLost(r)
  /\ UNCHANGED <<outboxVars, registered, d1>>

----------------------------------------------------------------------------
(* markD1Deleted.                                                          *)

OtherGeneration(g) == saga # NoSaga /\ saga.gen # g

CutoffKnown(d) == (d # Alarm /\ ~drv[d].resumes) \/ saga # NoSaga \/ cutoff

MarkRefused(r) ==
  /\ At(r) = "mark"
  /\ \/ OtherGeneration(Gen(r))
     \/ saga.phase = "canceling"
     \/ saga.phase \in {"idle", "preparing", "prepared"} /\ ~CutoffKnown(r)
  /\ Stop(r)
  /\ UNCHANGED <<outboxVars, inventoryVars, kvVars, faults, d1>>

\* Mutant: the boundary is recorded without an alarm.
MarkUnarmed(r) ==
  /\ At(r) = "mark" /\ ~OtherGeneration(Gen(r)) /\ saga.phase # "canceling"
  /\ IF saga.phase \in CrossedPhases
     THEN UNCHANGED <<saga, suppressed, cutoff>>
     ELSE /\ CutoffKnown(r)
          /\ saga' = Of("d1_deleted", Gen(r), {}, FALSE)
          /\ suppressed' = TRUE /\ cutoff' = TRUE
  /\ Goto(r, "finalize")
  /\ UNCHANGED <<outboxVars, registered, complete, alarm, kvVars, faults, d1>>

\* The boundary is recorded with its alarm, once.
MarkD1Deleted(r) ==
  /\ At(r) = "mark" /\ ~OtherGeneration(Gen(r)) /\ saga.phase # "canceling"
  /\ IF saga.phase \in CrossedPhases
     THEN UNCHANGED <<saga, suppressed, cutoff>>
     ELSE /\ CutoffKnown(r)
          /\ saga' = Of("d1_deleted", Gen(r), {}, FALSE)
          /\ suppressed' = TRUE /\ cutoff' = TRUE
  /\ alarm' = (saga.phase # "completed")
  /\ Goto(r, "finalize")
  /\ UNCHANGED <<outboxVars, registered, complete, kvVars, faults, d1>>

----------------------------------------------------------------------------
(* The alarm of the inventory.                                             *)

Handler(phase) ==
  CASE phase = "idle" -> "idle"
    [] phase \in {"preparing", "canceling"} -> "cancel"
    [] phase \in {"d1_deleted", "finalizing"} -> "finalize"
    [] OTHER -> "inert"

\* handleAlarm reads the saga; what it does about it is a later storage step.
AlarmFires ==
  /\ alarm /\ At(Alarm) = "idle"
  /\ alarm' = FALSE
  /\ drv' = [drv EXCEPT ![Alarm].at = Handler(saga.phase), ![Alarm].gen = saga.gen,
                        ![Alarm].seen = saga.phase]
  /\ UNCHANGED <<outboxVars, registered, refusalVars, saga, cutoff, kvVars, faults, d1>>

\* clearInertAlarm: only if the saga is still what the handler read.
ClearInertAlarm ==
  /\ At(Alarm) = "inert"
  /\ alarm' = (alarm /\ ~(saga.gen = Gen(Alarm) /\ saga.phase = drv[Alarm].seen))
  /\ Stop(Alarm)
  /\ UNCHANGED <<outboxVars, registered, refusalVars, saga, cutoff, kvVars, faults, d1>>

----------------------------------------------------------------------------
(* advanceCancel.                                                          *)

CancelVoid(d) == OtherGeneration(Gen(d)) \/ complete \/ saga.phase \in CrossedPhases

\* Not this generation's saga, or past the boundary.  A request asks for the status first.
CancelSkipped(d) ==
  /\ At(d) = "cancel" /\ CancelVoid(d)
  /\ alarm' = (alarm \/ (d = Alarm /\ ~OtherGeneration(Gen(d))))
  /\ Stop(d)
  /\ UNCHANGED <<outboxVars, registered, refusalVars, saga, cutoff, kvVars, faults, d1>>

\* planAppDeletionCancelStep: the saga is canceling, and one outbox is to be resumed.
PlanCancel(d) ==
  /\ At(d) = "cancel" /\ ~CancelVoid(d)
  /\ alarm' = TRUE
  /\ IF saga = NoSaga /\ ~suppressed
     THEN UNCHANGED <<saga, suppressed, cutoff, kvVars>>
     ELSE AdvanceCancel(Gen(d))
  /\ IF saga'.pending = {}
     THEN Goto(d, "cancelEnds")
     ELSE \E e \in saga'.pending : GotoWith(d, "resume", e)
  /\ UNCHANGED <<outboxVars, registered, complete, faults, d1>>

\* Mutant: the retry is armed when the plan has gone well.
PlanCancelFailsUnarmed(d) ==
  /\ At(d) = "cancel" /\ ~CancelVoid(d) /\ (saga # NoSaga \/ suppressed)
  /\ CancelBlocked(Gen(d))
  /\ Stop(d)
  /\ UNCHANGED <<outboxVars, registered, complete, alarm, faults, d1>>

\* The tombstone stays; KV may fail any number of times.
PlanCancelFails(d) ==
  /\ At(d) = "cancel" /\ ~CancelVoid(d) /\ (saga # NoSaga \/ suppressed)
  /\ CancelBlocked(Gen(d))
  /\ alarm' = TRUE
  /\ Stop(d)
  /\ UNCHANGED <<outboxVars, registered, complete, faults, d1>>

\* /resume-alarms at the outbox, outside the inventory's section.
ResumeAlarms(d) ==
  /\ At(d) = "resume" /\ ob[Entity(d)] = "free"
  /\ Reschedule(Entity(d))
  /\ Goto(d, "resumed")
  /\ UNCHANGED <<job, tries, acked, ob, inventoryVars, kvVars, faults, d1>>

\* Mutant: the checkpoint keeps the Entity that was resumed.
CheckpointCancelKeeps(d) ==
  /\ At(d) = "resumed"
  /\ GotoWith(d, "cancelEnds", None)
  /\ UNCHANGED <<outboxVars, registered, refusalVars, sagaVars, kvVars, faults, d1>>

\* checkpointAppDeletionCancelStep.
CheckpointCancel(d) ==
  /\ At(d) = "resumed"
  /\ IF saga.phase = "canceling" /\ saga.gen = Gen(d)
     THEN IF saga.pending \ {Entity(d)} # {}
          THEN saga' = [saga EXCEPT !.pending = @ \ {Entity(d)}] /\ UNCHANGED <<suppressed, cutoff>>
          ELSE Restore
     ELSE UNCHANGED <<saga, suppressed, cutoff>>
  /\ GotoWith(d, "cancelEnds", None)
  /\ UNCHANGED <<outboxVars, registered, complete, alarm, kvVars, faults, d1>>

CancelEnds(d) ==
  /\ At(d) = "cancelEnds"
  /\ alarm' = (alarm /\ saga # NoSaga)
  /\ Stop(d)
  /\ UNCHANGED <<outboxVars, registered, refusalVars, saga, cutoff, kvVars, faults, d1>>

----------------------------------------------------------------------------
(* advanceFinalize.                                                        *)

\* The plan throws.  It never does: nothing leaves the phases past the boundary.
FinalizeVoid(d) ==
  \/ OtherGeneration(Gen(d))
  \/ ~complete /\ \/ saga.phase = "canceling"
                  \/ saga.phase \in {"idle", "preparing", "prepared"} /\ ~CutoffKnown(d)

\* completeAppDeletionFinalizeSaga.
Finish(g) == saga' = Of("completed", g, {}, TRUE) /\ suppressed' = TRUE /\ complete' = TRUE

\* planAppDeletionFinalizeStep: one outbox to drain, or none is left.
PlanFinalize(d) ==
  /\ At(d) = "finalize" /\ ~FinalizeVoid(d)
  /\ alarm' = TRUE
  /\ IF complete \/ saga.phase = "completed"
     THEN Goto(d, "finalizeEnds") /\ UNCHANGED <<saga, suppressed, complete, cutoff>>
     ELSE /\ cutoff' = TRUE
          /\ IF registered = {}
             THEN Finish(Gen(d)) /\ Goto(d, "finalizeEnds")
             ELSE /\ saga' = Of("finalizing", Gen(d), {}, FALSE)
                  /\ suppressed' = TRUE /\ UNCHANGED complete
                  /\ \E e \in registered : GotoWith(d, "purge", e)
  /\ UNCHANGED <<outboxVars, registered, kvVars, faults, d1>>

\* /purge at the outbox, outside the inventory's section.
Purge(d) ==
  /\ At(d) = "purge" /\ ob[Entity(d)] = "free"
  /\ PurgeJob(Entity(d))
  /\ Goto(d, "purged")
  /\ UNCHANGED <<ob, inventoryVars, kvVars, faults, d1>>

\* checkpointAppDeletionFinalizeStep.
CheckpointFinalize(d) ==
  /\ At(d) = "purged"
  /\ IF saga.phase = "finalizing" /\ saga.gen = Gen(d)
     THEN /\ registered' = registered \ {Entity(d)}
          /\ IF registered' = {} THEN Finish(saga.gen) ELSE UNCHANGED <<saga, suppressed, complete>>
     ELSE UNCHANGED <<registered, saga, suppressed, complete>>
  /\ GotoWith(d, "finalizeEnds", None)
  /\ UNCHANGED <<outboxVars, cutoff, alarm, kvVars, faults, d1>>

FinalizeEnds(d) ==
  /\ At(d) = "finalizeEnds"
  /\ alarm' = (alarm /\ saga.phase # "completed")
  /\ IF d # Alarm /\ saga.phase = "completed" THEN Goto(d, "complete") ELSE Stop(d)
  /\ UNCHANGED <<outboxVars, registered, refusalVars, saga, cutoff, kvVars, faults, d1>>

\* The call of an outbox fails: the saga's alarm, armed by the plan, tries again.
ChildFails(d) ==
  /\ At(d) \in {"resume", "purge"} /\ Fault
  /\ alarm' = (alarm \/ d = Alarm)
  /\ Stop(d)
  /\ UNCHANGED <<outboxVars, registered, refusalVars, saga, cutoff, kvVars, d1>>

----------------------------------------------------------------------------
RequestStep(r) ==
  \/ Start(r) \/ Resume(r) \/ Cascade(r) \/ CascadeFails(r) \/ Recover(r) \/ Complete(r)
  \/ BeginRefused(r) \/ BeginReplayed(r) \/ BeginWaits(r)
  \/ Prepare(r) \/ PrepareFails(r) \/ PrepareCrashes(r)
  \/ MarkRefused(r) \/ MarkD1Deleted(r)

DriverStep(d) ==
  \/ CancelSkipped(d) \/ PlanCancel(d) \/ CheckpointCancel(d) \/ CancelEnds(d)
  \/ PlanFinalize(d) \/ CheckpointFinalize(d) \/ FinalizeEnds(d)

ChildCall(d) == ResumeAlarms(d) \/ Purge(d)

OutboxActs(e) == OutboxNext(e) /\ UNCHANGED <<sagaVars, d1, drv>>

Next ==
  \/ \E r \in Requests : RequestStep(r) \/ RequestDies(r)
  \/ \E d \in Drivers : DriverStep(d) \/ ChildCall(d) \/ PlanCancelFails(d) \/ ChildFails(d)
  \/ AlarmFires \/ ClearInertAlarm
  \/ \E e \in Entities : OutboxActs(e)
  \/ KvPropagates /\ UNCHANGED <<sagaVars, d1, drv>>

Spec == Init /\ [][Next]_vars

(***************************************************************************)
(* The alarm fires and its handler goes on; KV does not fail for ever; an  *)
(* outbox finishes what it holds, and a call that waits for it is served   *)
(* in turn.  Nothing is assumed of the requests.                           *)
(***************************************************************************)
Fairness ==
  /\ WF_vars(AlarmFires \/ ClearInertAlarm \/ DriverStep(Alarm))
  /\ SF_vars(PlanCancel(Alarm)) /\ SF_vars(ChildCall(Alarm))
  /\ \A e \in Entities : WF_vars(OutboxStep(e) /\ UNCHANGED <<sagaVars, d1, drv>>)

FairSpec == Spec /\ Fairness

----------------------------------------------------------------------------
SagaPhases == {"idle", "preparing", "prepared", "canceling"} \cup CrossedPhases

RequestLabels ==
  {"prepare", "cascade", "recover", "mark", "complete", "lost"}

\* The shapes of the variables.
TypeOK ==
  /\ OutboxTypeOK
  /\ d1 \in [phase : {"none", "started", "d1_deleted", "complete"}, gen : Generations \cup {None}]
  /\ saga \in [phase : SagaPhases, gen : Generations \cup {None}, pending : SUBSET Entities,
               cleared : BOOLEAN]
  /\ cutoff \in BOOLEAN /\ alarm \in BOOLEAN
  /\ drv \in [Drivers -> [at : {"idle", "cancel", "finalize"} \cup Inside \cup RequestLabels,
                           gen : Generations \cup {None}, seen : SagaPhases,
                           step : Entities \cup {None}, resumes : BOOLEAN]]

(***************************************************************************)
(* "A register-versus-complete race cannot leave an unindexed Entity       *)
(* outbox after the App deletion coordinator reports complete"             *)
(* (holdover-write-app-inventory.ts): once the inventory, or the D1        *)
(* record, says complete, no outbox holds a job.                           *)
(***************************************************************************)
CompletedIsEmpty ==
  (complete \/ d1.phase = "complete") =>
    complete /\ \A e \in Entities : job[e] = "none" /\ ~Attempting(e)

(***************************************************************************)
(* "Never leave a live App registration-suppressed without a saga"         *)
(* (holdover-write-app-deletion-saga.ts): a freeze has a saga, and one     *)
(* that is half prepared or half cancelled has an alarm, or the alarm's    *)
(* handler, to end it.  The tombstone may be left without a saga: a late   *)
(* checkpoint ends a newer cancel of its generation that has not cleared   *)
(* it yet (CheckpointCancel).                                              *)
(***************************************************************************)
FreezeHasSaga ==
  /\ suppressed => saga # NoSaga
  /\ saga.phase \in {"preparing", "canceling"} => (alarm \/ At(Alarm) # "idle")

(***************************************************************************)
(* A saga that is half prepared or half cancelled does not stay so: with   *)
(* no request to help, the alarm ends it.                                  *)
(***************************************************************************)
CancelConverges ==
  saga.phase \in {"preparing", "canceling"} ~> saga.phase \notin {"preparing", "canceling"}

(***************************************************************************)
(* "accepted means ... owned for Durable Object alarm retry" (holdover-    *)
(* write-contract.md): a job that ensure answered for keeps an alarm,      *)
(* through every freeze, cancel, Entity deletion and restart.              *)
(***************************************************************************)
OwnedIsArmed == \A e \in acked : job[e] = "pending" /\ armed[e]

(***************************************************************************)
(* "Never cancel/rollback past the D1 boundary" (app-delete-holdover.ts):  *)
(* when the App row is gone its inventory refuses new work.                *)
(***************************************************************************)
GoneStaysFrozen == d1.phase \in {"d1_deleted", "complete"} => suppressed

(***************************************************************************)
(* The saga lives in Durable Object storage so that "prepare/cancel/       *)
(* finalize can resume without request-local compensation" (holdover-      *)
(* write-app-deletion-saga.ts): past the boundary the alarm ends the       *)
(* drain.  The exception is a request that replays begin, which disarms    *)
(* the alarm, and stalls or dies before it marks the boundary.             *)
(***************************************************************************)
DrainConverges ==
  saga.phase \in {"d1_deleted", "finalizing"} ~>
    \/ saga.phase = "completed"
    \/ \E r \in Requests : Crossing(r) \/ At(r) = "lost"
=============================================================================
