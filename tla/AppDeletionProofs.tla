------------------------- MODULE AppDeletionProofs -------------------------
(***************************************************************************)
(* Proofs about the deletion of an App, for every set of Entities, of      *)
(* requests and of generations, every number of attempts and of faults,    *)
(* whether or not a request may die between two calls.                     *)
(***************************************************************************)
EXTENDS AppDeletion, TLAPS

Crossed == saga.phase \in CrossedPhases
HalfWay == saga.phase \in {"preparing", "canceling"}

(* A job is attempted while it has attempts left, and is gone when its     *)
(* Entity is taken out of the inventory.                                   *)
JobInv ==
  \A e \in Entities :
    /\ Attempting(e) => job[e] = "pending"
    /\ job[e] = "pending" => tries[e] < MaxAttempts
    /\ job[e] = "none" => tries[e] = 0
    /\ ob[e] = "unregister" => job[e] = "none"

(* Registered before anything is stored: the inventory knows every job.    *)
RegisteredInv ==
  \A e \in Entities : (job[e] # "none" \/ ob[e] = "registered") => e \in registered

(* The saga and the keys that refuse new work; the phases past the         *)
(* boundary are never left.                                                *)
SagaInv ==
  /\ suppressed => saga.phase # "idle"
  /\ Crossed => suppressed
  /\ complete <=> saga.phase = "completed"
  /\ complete => registered = {}
  /\ d1.phase = "complete" => complete

(* The alarm of an unfinished freeze or cancel is set, or its handler has  *)
(* just read this very saga.                                               *)
HalfWayArmed ==
  HalfWay => alarm \/ (At(Alarm) = "cancel" /\ Gen(Alarm) = saga.gen)

(* What a driver that drains knows of the Entity it calls.                 *)
DriverInv ==
  /\ \A d \in Drivers :
       /\ At(d) \in {"purge", "purged"} => Crossed /\ Entity(d) \in Entities
       /\ At(d) = "purged" => job[Entity(d)] = "none" /\ ob[Entity(d)] # "registered"
       /\ At(d) = "complete" => complete
  /\ At(Alarm) = "inert" => drv[Alarm].seen \in {"prepared", "completed"}

DeletionInv ==
  /\ TypeOK /\ JobInv /\ RegisteredInv /\ OwnedIsArmed /\ SagaInv /\ HalfWayArmed /\ DriverInv

-----------------------------------------------------------------------------
(* The shapes of the variables, one group at a time. *)
OutboxPart ==
  /\ job \in [Entities -> {"none", "pending", "poisoned"}]
  /\ tries \in [Entities -> 0..MaxAttempts]
  /\ armed \in [Entities -> BOOLEAN]
  /\ ob \in [Entities -> {"free", "register", "registered", "attempt", "retry", "unregister"}]
  /\ acked \subseteq Entities
KeyPart ==
  /\ registered \subseteq Entities /\ suppressed \in BOOLEAN /\ complete \in BOOLEAN
  /\ kv \in BOOLEAN /\ kvStale \in BOOLEAN /\ faults \in 0..MaxFaults
  /\ cutoff \in BOOLEAN /\ alarm \in BOOLEAN

Gens == Generations \cup {None}
Records == [phase : {"none", "started", "d1_deleted", "complete"}, gen : Gens]
Sagas == [phase : SagaPhases, gen : Gens, pending : SUBSET Entities, cleared : BOOLEAN]
Labels == {"idle", "cancel", "finalize"} \cup Inside \cup RequestLabels
Driving == [at : Labels, gen : Gens, seen : SagaPhases, step : Entities \cup {None}, resumes : BOOLEAN]

LEMMA TypeParts ==
  TypeOK <=> /\ OutboxPart /\ KeyPart /\ d1 \in Records /\ saga \in Sagas
             /\ drv \in [Drivers -> Driving]
BY DEF TypeOK, OutboxTypeOK, OutboxPart, KeyPart, Gens, Records, Sagas, Labels, Driving

(* The records that the steps write. *)
LEMMA SagaShape ==
  ASSUME NEW p \in SagaPhases, NEW g \in Gens, NEW s \in SUBSET Entities, NEW c \in BOOLEAN
  PROVE  /\ Of(p, g, s, c) \in Sagas
         /\ Of(p, g, s, c).phase = p /\ Of(p, g, s, c).gen = g /\ Of(p, g, s, c).pending = s
BY DEF Of, Sagas

LEMMA CancelingShape ==
  ASSUME TypeOK, NEW g \in Gens
  PROVE  /\ Canceling(g) \in Sagas /\ Canceling(g).phase = "canceling"
         /\ Canceling(g).gen = (IF saga = NoSaga THEN g ELSE saga.gen)
<1>1. saga \in Sagas /\ registered \subseteq Entities
  BY TypeParts DEF KeyPart
<1>2. saga.pending \subseteq Entities /\ saga.cleared \in BOOLEAN /\ saga.gen \in Gens
  BY <1>1 DEF Sagas
<1> DEFINE again == saga.phase = "canceling"
           pending == IF again THEN saga.pending ELSE registered
           owner == IF saga = NoSaga THEN g ELSE saga.gen
           cleared == again /\ saga.cleared
<1>3. owner \in Gens /\ pending \in SUBSET Entities /\ cleared \in BOOLEAN
  BY <1>1, <1>2
<1>4. Canceling(g) = Of("canceling", owner, pending, cleared)
  BY DEF Canceling
<1>5. "canceling" \in SagaPhases
  BY DEF SagaPhases
<1> HIDE DEF again, pending, owner, cleared
<1>6. Canceling(g) \in Sagas /\ Canceling(g).phase = "canceling" /\ Canceling(g).gen = owner
  BY <1>3, <1>4, <1>5, SagaShape
<1> QED BY <1>6 DEF owner

LEMMA InitDeletion == ASSUME Init PROVE DeletionInv
<1> USE OutboxAssumption, DeletionAssumption DEF Init, OutboxInit
<1>1. \A d \in Drivers : drv[d] = Idle
  OBVIOUS
<1>2. Idle \in Driving /\ Idle.at = "idle" /\ NoSaga \in Sagas /\ NoRecord \in Records
  BY DEF Idle, AtRest, Driving, Labels, SagaPhases, Gens, NoSaga, Sagas, NoRecord, Records
<1>3. TypeOK
  <2>1. OutboxPart
    BY DEF OutboxPart
  <2>2. KeyPart
    <3>1. 0 \in 0..MaxFaults /\ {} \subseteq Entities
      OBVIOUS
    <3> QED BY <3>1 DEF KeyPart
  <2>3. drv \in [Drivers -> Driving] /\ d1 \in Records /\ saga \in Sagas
    BY <1>2
  <2> QED BY <2>1, <2>2, <2>3, TypeParts
<1>4. JobInv /\ RegisteredInv /\ OwnedIsArmed
  BY DEF JobInv, RegisteredInv, OwnedIsArmed, Attempting
<1>5. SagaInv /\ HalfWayArmed
  BY DEF SagaInv, HalfWayArmed, HalfWay, Crossed, CrossedPhases, NoSaga, NoRecord
<1>6. DriverInv
  BY <1>1, <1>2 DEF DriverInv, At, Drivers
<1> QED BY <1>3, <1>4, <1>5, <1>6 DEF DeletionInv

-----------------------------------------------------------------------------
(* What the steps of an outbox leave alone, and what the others do to one. *)
InventoryStep ==
  \/ \E r \in Requests : RequestStep(r) \/ RequestDies(r)
  \/ \E d \in Drivers : DriverStep(d) \/ PlanCancelFails(d) \/ ChildFails(d)
  \/ AlarmFires \/ ClearInertAlarm

LEMMA StepKinds ==
  ASSUME Next
  PROVE  \/ InventoryStep
         \/ \E d \in Drivers : ResumeAlarms(d) \/ Purge(d)
         \/ \E e \in Entities : OutboxActs(e)
         \/ KvPropagates /\ UNCHANGED <<sagaVars, d1, drv>>
BY DEF Next, InventoryStep, ChildCall

LEMMA InventoryFrame == ASSUME InventoryStep PROVE UNCHANGED outboxVars
<1>1. ASSUME NEW r \in Requests, RequestStep(r) \/ RequestDies(r) PROVE UNCHANGED outboxVars
  BY <1>1 DEF RequestStep, Start, Resume, Cascade, CascadeFails, Recover, Complete, BeginRefused,
     BeginReplayed, BeginWaits, Prepare, PrepareFails, PrepareCrashes, MarkRefused, MarkD1Deleted,
     RequestDies
<1>2. ASSUME NEW d \in Drivers, DriverStep(d) \/ PlanCancelFails(d) \/ ChildFails(d)
      PROVE  UNCHANGED outboxVars
  BY <1>2 DEF DriverStep, CancelSkipped, PlanCancel, CheckpointCancel, CancelEnds, PlanFinalize,
     CheckpointFinalize, FinalizeEnds, PlanCancelFails, ChildFails
<1>3. AlarmFires \/ ClearInertAlarm => UNCHANGED outboxVars
  BY DEF AlarmFires, ClearInertAlarm
<1> QED BY <1>1, <1>2, <1>3 DEF InventoryStep

LEMMA OutboxFrame ==
  ASSUME NEW e \in Entities, OutboxActs(e)
  PROVE  /\ UNCHANGED <<refusalVars, sagaVars, kvVars, d1, drv>>
         /\ faults' = faults \/ Fault
         /\ \A x \in Entities \ {e} : x \in registered' <=> x \in registered
BY DEF OutboxActs, OutboxNext, OutboxStep, EnsureRegisters, EnsureDefers, EnsureSeals, AttemptSuppressed,
   AttemptWrites, AttemptFails, Unregister, EnsureBegins, OutboxAlarm, EntityDeletion, AttemptReadFails,
   OutboxRestarts

-----------------------------------------------------------------------------
(* The outboxes. *)
Others(e) ==
  \A x \in Entities \ {e} :
    /\ job'[x] = job[x] /\ tries'[x] = tries[x] /\ armed'[x] = armed[x] /\ ob'[x] = ob[x]
    /\ x \in acked' <=> x \in acked

\* Only a job with attempts left is attempted, so that tries stays within its bound.
LEMMA OutboxType ==
  ASSUME OutboxPart, JobInv, NEW e \in Entities, OutboxNext(e)
  PROVE  OutboxPart' /\ Others(e)
<1> USE OutboxAssumption
<1>0. /\ tries[e] \in 0..MaxAttempts /\ 0 \in 0..MaxAttempts
      /\ job[e] \in {"none", "pending", "poisoned"} /\ armed[e] \in BOOLEAN
  BY DEF OutboxPart
<1>1. CASE EnsureBegins(e) \/ EnsureRegisters(e) \/ Unregister(e) \/ OutboxRestarts(e)
  <2>1. UNCHANGED jobVars /\ \E v \in {"free", "register", "registered"} : ob' = [ob EXCEPT ![e] = v]
    BY <1>1 DEF EnsureBegins, EnsureRegisters, Unregister, OutboxRestarts, Takes, Frees
  <2> QED BY <2>1 DEF OutboxPart, Others, jobVars
<1>2. CASE EnsureDefers(e)
  <2>1. /\ job' = job /\ tries' = tries /\ ob' = [ob EXCEPT ![e] = "free"]
        /\ acked' = acked \/ acked' = acked \cup {e}
        /\ armed' = armed \/ \E b \in BOOLEAN : armed' = [armed EXCEPT ![e] = b]
    BY <1>2 DEF EnsureDefers, Takes, Frees, Reschedule, Arm
  <2> QED BY <2>1 DEF OutboxPart, Others
<1>3. CASE EnsureSeals(e)
  BY <1>3 DEF EnsureSeals, Takes, OutboxPart, Others
<1>4. CASE AttemptSuppressed(e) \/ AttemptReadFails(e)
  <2>1. /\ job' = job /\ tries' = tries /\ ob' = [ob EXCEPT ![e] = "free"] /\ acked' = acked
        /\ \E b \in BOOLEAN : armed' = [armed EXCEPT ![e] = b]
    BY <1>0, <1>4 DEF AttemptSuppressed, AttemptReadFails, Takes, Frees, Arm
  <2> QED BY <2>1 DEF OutboxPart, Others
<1>5. CASE AttemptWrites(e)
  BY <1>5 DEF AttemptWrites, PurgeJob, NoJob, Arm, Takes, Frees, OutboxPart, Others
<1>6. CASE AttemptFails(e)
  <2>1. tries[e] + 1 \in 0..MaxAttempts
    BY <1>0, <1>6 DEF AttemptFails, JobInv
  <2>2. /\ job' = job \/ job' = [job EXCEPT ![e] = "poisoned"]
        /\ tries' = [tries EXCEPT ![e] = tries[e] + 1] /\ ob' = [ob EXCEPT ![e] = "free"]
        /\ acked' = acked \/ acked' = acked \cup {e} \/ acked' = acked \ {e}
        /\ \E b \in BOOLEAN : armed' = [armed EXCEPT ![e] = b]
    BY <1>6 DEF AttemptFails, Takes, Frees, Arm, Owns
  <2> QED BY <2>1, <2>2 DEF OutboxPart, Others
<1>7. CASE OutboxAlarm(e)
  BY <1>7 DEF OutboxAlarm, Takes, Arm, OutboxPart, Others
<1>8. CASE EntityDeletion(e)
  <2>1. CASE PurgeJob(e) /\ Takes(e, "unregister")
    BY <1>0, <2>1 DEF PurgeJob, NoJob, Arm, Takes, OutboxPart, Others
  <2>2. CASE Reschedule(e) /\ UNCHANGED <<job, tries, acked, ob>>
    BY <2>2 DEF Reschedule, Arm, OutboxPart, Others
  <2> QED BY <1>8, <2>1, <2>2 DEF EntityDeletion
<1> QED BY <1>1, <1>2, <1>3, <1>4, <1>5, <1>6, <1>7, <1>8 DEF OutboxNext, OutboxStep

\* What a step of its own leaves of an outbox: JobInv, RegisteredInv and OwnedIsArmed for it.
OutboxInv(e) ==
  /\ Attempting(e) => job[e] = "pending"
  /\ job[e] = "pending" => tries[e] < MaxAttempts
  /\ job[e] = "none" => tries[e] = 0
  /\ ob[e] = "unregister" => job[e] = "none"
  /\ (job[e] # "none" \/ ob[e] = "registered") => e \in registered
  /\ e \in acked => job[e] = "pending" /\ armed[e]

LEMMA OutboxParts ==
  ASSUME OutboxPart
  PROVE  JobInv /\ RegisteredInv /\ OwnedIsArmed <=> \A e \in Entities : OutboxInv(e)
BY DEF JobInv, RegisteredInv, OwnedIsArmed, OutboxInv, OutboxPart

LEMMA OutboxKeeps ==
  ASSUME OutboxPart, JobInv, NEW e \in Entities, OutboxInv(e), OutboxNext(e)
  PROVE  OutboxInv(e)'
<1> USE OutboxAssumption
<1>0. /\ tries[e] \in 0..MaxAttempts /\ 0 \in 0..MaxAttempts /\ 0 < MaxAttempts
      /\ job[e] \in {"none", "pending", "poisoned"} /\ armed[e] \in BOOLEAN
      /\ ob[e] \in {"free", "register", "registered", "attempt", "retry", "unregister"}
  BY DEF OutboxPart
<1>1. CASE EnsureBegins(e) \/ OutboxRestarts(e)
  <2>1. UNCHANGED <<jobVars, registered>> /\ ob'[e] \in {"free", "register"}
    BY <1>1 DEF EnsureBegins, OutboxRestarts, Takes, Frees, OutboxPart
  <2> QED BY <2>1 DEF OutboxInv, Attempting, jobVars
<1>2. CASE EnsureRegisters(e)
  <2>1. UNCHANGED jobVars /\ registered \subseteq registered'
        /\ (ob'[e] = "free" \/ (ob'[e] = "registered" /\ e \in registered'))
    BY <1>2 DEF EnsureRegisters, Takes, Frees, OutboxPart
  <2> QED BY <2>1 DEF OutboxInv, Attempting, jobVars
<1>3. CASE Unregister(e)
  <2>1. UNCHANGED jobVars /\ ob[e] = "unregister" /\ ob'[e] = "free"
    BY <1>3 DEF Unregister, Takes, Frees, OutboxPart
  <2> QED BY <2>1 DEF OutboxInv, Attempting, jobVars
<1>4. CASE EnsureDefers(e)
  <2>1. /\ job' = job /\ tries' = tries /\ registered' = registered /\ ob'[e] = "free" /\ job[e] # "none"
        /\ IF job[e] = "poisoned" THEN armed' = armed /\ acked' = acked ELSE armed'[e] /\ job[e] = "pending"
    BY <1>0, <1>4 DEF EnsureDefers, Takes, Frees, Reschedule, Arm, OutboxPart
  <2> QED BY <2>1 DEF OutboxInv, Attempting
<1>5. CASE EnsureSeals(e)
  <2>1. /\ job'[e] = "pending" /\ UNCHANGED <<tries, armed, acked, registered>> /\ ob'[e] = "attempt"
        /\ job[e] # "poisoned" /\ ob[e] = "registered"
    BY <1>5 DEF EnsureSeals, Takes, OutboxPart
  <2> QED BY <1>0, <2>1 DEF OutboxInv, Attempting
<1>6. CASE AttemptSuppressed(e) \/ AttemptReadFails(e)
  <2>1. /\ UNCHANGED <<job, tries, acked, registered>> /\ ob'[e] = "free"
        /\ armed[e] => armed'[e]
    BY <1>6 DEF AttemptSuppressed, AttemptReadFails, Takes, Frees, Arm, OutboxPart
  <2> QED BY <2>1 DEF OutboxInv, Attempting
<1>7. CASE AttemptWrites(e)
  <2>1. job'[e] = "none" /\ tries'[e] = 0 /\ e \notin acked' /\ ob'[e] = "free"
    BY <1>7 DEF AttemptWrites, PurgeJob, NoJob, Takes, Frees, OutboxPart
  <2> QED BY <2>1 DEF OutboxInv, Attempting
<1>8. CASE AttemptFails(e)
  <2>1. /\ job[e] = "pending" /\ ob'[e] = "free" /\ registered \subseteq registered'
        /\ tries'[e] = tries[e] + 1
    BY <1>8 DEF AttemptFails, Takes, Frees, OutboxInv, OutboxPart
  <2>2. CASE tries[e] + 1 >= MaxAttempts
    <3>1. job'[e] = "poisoned" /\ e \notin acked'
      BY <1>8, <2>2 DEF AttemptFails, OutboxPart
    <3> QED BY <2>1, <3>1 DEF OutboxInv, Attempting
  <2>3. CASE ~(tries[e] + 1 >= MaxAttempts)
    <3>1. job' = job /\ armed'[e] /\ tries[e] + 1 < MaxAttempts
      BY <1>0, <1>8, <2>3 DEF AttemptFails, Arm, OutboxPart
    <3> QED BY <2>1, <3>1 DEF OutboxInv, Attempting
  <2> QED BY <2>2, <2>3
<1>9. CASE OutboxAlarm(e)
  <2>1. CASE job[e] = "pending" /\ Takes(e, "retry") /\ UNCHANGED armed
    <3>1. UNCHANGED <<job, tries, acked, registered>> /\ ob'[e] = "retry"
      BY <1>9, <2>1 DEF OutboxAlarm, Takes, OutboxPart
    <3> QED BY <2>1, <3>1 DEF OutboxInv, Attempting
  <2>2. CASE job[e] # "pending" /\ UNCHANGED ob
    <3>1. UNCHANGED <<job, tries, acked, registered>>
      BY <1>9 DEF OutboxAlarm
    <3> QED BY <2>2, <3>1 DEF OutboxInv, Attempting
  <2> QED BY <1>9, <2>1, <2>2 DEF OutboxAlarm
<1>10. CASE EntityDeletion(e)
  <2>1. CASE PurgeJob(e) /\ Takes(e, "unregister")
    <3>1. job'[e] = "none" /\ tries'[e] = 0 /\ e \notin acked' /\ ob'[e] = "unregister"
      BY <2>1 DEF PurgeJob, NoJob, Takes, OutboxPart
    <3> QED BY <3>1 DEF OutboxInv, Attempting
  <2>2. CASE Reschedule(e) /\ UNCHANGED <<job, tries, acked, ob>>
    <3>1. registered' = registered /\ (job[e] = "pending" => armed'[e])
      BY <1>10, <2>2 DEF EntityDeletion, Reschedule, Arm, OutboxPart
    <3> QED BY <2>2, <3>1 DEF OutboxInv, Attempting
  <2> QED BY <1>10, <2>1, <2>2 DEF EntityDeletion
<1> QED BY <1>1, <1>2, <1>3, <1>4, <1>5, <1>6, <1>7, <1>8, <1>9, <1>10 DEF OutboxNext, OutboxStep

\* Only the checkpoint of a drain takes an Entity out of the inventory.
LEMMA RegisteredFrame ==
  ASSUME InventoryStep
  PROVE  \/ registered' = registered
         \/ \E d \in Drivers : At(d) = "purged" /\ registered' = registered \ {Entity(d)}
<1>1. ASSUME NEW r \in Requests, RequestStep(r) \/ RequestDies(r) PROVE registered' = registered
  BY <1>1 DEF RequestStep, Start, Resume, Cascade, CascadeFails, Recover, Complete, BeginRefused,
     BeginReplayed, BeginWaits, Prepare, PrepareFails, PrepareCrashes, MarkRefused, MarkD1Deleted,
     RequestDies, inventoryVars
<1>2. ASSUME NEW d \in Drivers, DriverStep(d) \/ PlanCancelFails(d) \/ ChildFails(d)
      PROVE  registered' = registered \/ (At(d) = "purged" /\ registered' = registered \ {Entity(d)})
  BY <1>2 DEF DriverStep, CancelSkipped, PlanCancel, CheckpointCancel, CancelEnds, PlanFinalize,
     CheckpointFinalize, FinalizeEnds, PlanCancelFails, ChildFails
<1>3. AlarmFires \/ ClearInertAlarm => registered' = registered
  BY DEF AlarmFires, ClearInertAlarm
<1> QED BY <1>1, <1>2, <1>3 DEF InventoryStep

LEMMA OutboxesStep ==
  ASSUME DeletionInv, Next
  PROVE  OutboxPart' /\ JobInv' /\ RegisteredInv' /\ OwnedIsArmed'
<1> USE OutboxAssumption
<1>0. OutboxPart /\ JobInv /\ RegisteredInv /\ OwnedIsArmed /\ DriverInv
  BY TypeParts DEF DeletionInv
<1>0a. \A e \in Entities : OutboxInv(e)
  BY <1>0, OutboxParts
<1>1. SUFFICES OutboxPart' /\ \A e \in Entities : OutboxInv(e)'
  BY DEF JobInv, RegisteredInv, OwnedIsArmed, OutboxInv, OutboxPart
<1>2. ASSUME NEW e \in Entities, OutboxActs(e) PROVE OutboxPart' /\ \A x \in Entities : OutboxInv(x)'
  <2>1. OutboxNext(e)
    BY <1>2 DEF OutboxActs
  <2>2. OutboxPart' /\ Others(e) /\ OutboxInv(e)'
    BY <1>0, <1>0a, <2>1, OutboxType, OutboxKeeps
  <2>3. ASSUME NEW x \in Entities \ {e} PROVE OutboxInv(x)'
    BY <1>0a, <1>2, <2>2, OutboxFrame DEF Others, OutboxInv, Attempting
  <2> QED BY <2>2, <2>3
<1>3. ASSUME NEW d \in Drivers, ResumeAlarms(d) PROVE OutboxPart' /\ \A e \in Entities : OutboxInv(e)'
  <2>1. /\ UNCHANGED <<job, tries, acked, ob, registered>>
        /\ armed' = [armed EXCEPT ![Entity(d)] = (job[Entity(d)] = "pending")]
    BY <1>3 DEF ResumeAlarms, Reschedule, Arm, inventoryVars
  <2>2. \A e \in Entities : armed'[e] = armed[e] \/ armed'[e] = (job[e] = "pending")
    BY <1>0, <2>1 DEF OutboxPart
  <2> QED BY <1>0, <1>0a, <2>1, <2>2 DEF OutboxPart, OutboxInv, Attempting
<1>4. ASSUME NEW d \in Drivers, Purge(d) PROVE OutboxPart' /\ \A e \in Entities : OutboxInv(e)'
  <2>1. PICK e \in Entities : e = Entity(d)
    BY <1>0, <1>4 DEF Purge, DriverInv
  <2>2. /\ UNCHANGED <<ob, registered>> /\ ob[e] = "free"
        /\ job' = [job EXCEPT ![e] = "none"] /\ tries' = [tries EXCEPT ![e] = 0]
        /\ armed' = [armed EXCEPT ![e] = FALSE] /\ acked' = acked \ {e}
    BY <1>4, <2>1 DEF Purge, PurgeJob, NoJob, Arm, inventoryVars
  <2>3. OutboxPart'
    BY <1>0, <2>2 DEF OutboxPart
  <2>4. OutboxInv(e)'
    BY <1>0, <2>2 DEF OutboxPart, OutboxInv, Attempting
  <2>5. ASSUME NEW x \in Entities \ {e} PROVE OutboxInv(x)'
    BY <1>0, <1>0a, <2>2 DEF OutboxPart, OutboxInv, Attempting
  <2> QED BY <2>3, <2>4, <2>5
<1>5. CASE InventoryStep
  <2>1. UNCHANGED outboxVars
    BY <1>5, InventoryFrame
  <2>2. OutboxPart'
    BY <1>0, <2>1 DEF OutboxPart, outboxVars, jobVars
  <2>3. ASSUME NEW e \in Entities, job[e] # "none" \/ ob[e] = "registered", e \in registered
        PROVE  e \in registered'
    BY <1>0, <1>5, <2>3, RegisteredFrame DEF DriverInv
  <2> QED BY <1>0a, <2>1, <2>2, <2>3 DEF OutboxInv, Attempting, outboxVars, jobVars
<1>6. CASE KvPropagates
  BY <1>0, <1>0a, <1>6 DEF KvPropagates, outboxVars, jobVars, OutboxPart, OutboxInv, Attempting
<1> QED BY <1>2, <1>3, <1>4, <1>5, <1>6, StepKinds

-----------------------------------------------------------------------------
(* The keys of the inventory, the saga, the record and the drivers keep    *)
(* their shapes.                                                           *)
LEMMA KeyType == ASSUME DeletionInv, Next PROVE KeyPart'
<1> USE OutboxAssumption, DeletionAssumption
<1>0. TypeOK /\ KeyPart /\ saga \in Sagas
  BY TypeParts DEF DeletionInv
<1>1. Fault => faults' \in 0..MaxFaults
  BY <1>0 DEF Fault, KeyPart
<1>2. ASSUME NEW r \in Requests, RequestStep(r) \/ RequestDies(r) PROVE KeyPart'
  <2>1. CASE Start(r) \/ Resume(r) \/ Cascade(r) \/ CascadeFails(r) \/ Recover(r) \/ Complete(r)
             \/ MarkRefused(r) \/ RequestDies(r)
    BY <1>0, <1>1, <2>1 DEF Start, Resume, Cascade, CascadeFails, Recover, Complete, MarkRefused,
       RequestDies, inventoryVars, refusalVars, sagaVars, kvVars, KeyPart
  <2>2. CASE BeginRefused(r) \/ MarkD1Deleted(r)
    BY <1>0, <2>2 DEF BeginRefused, MarkD1Deleted, refusalVars, kvVars, KeyPart
  <2>3. CASE BeginReplayed(r)
    BY <1>0, <1>1, <2>3 DEF BeginReplayed, Answered, kvVars, KeyPart
  <2>4. CASE BeginWaits(r)
    BY <1>0, <1>1, <2>4 DEF BeginWaits, AdvanceCancel, CancelBlocked, Restore, KvSet, kvVars, KeyPart
  <2>5. CASE Prepare(r)
    BY <1>0, <1>1, <2>5 DEF Prepare, Answered, Freeze, FreezeKv, KeyPart
  <2>6. CASE PrepareFails(r)
    BY <1>0, <1>1, <2>6 DEF PrepareFails, Restore, KeyPart
  <2>7. CASE PrepareCrashes(r)
    BY <1>0, <1>1, <2>7 DEF PrepareCrashes, Freeze, KeyPart
  <2> QED BY <1>2, <2>1, <2>2, <2>3, <2>4, <2>5, <2>6, <2>7 DEF RequestStep
<1>3. ASSUME NEW d \in Drivers, DriverStep(d) \/ PlanCancelFails(d) \/ ChildFails(d) PROVE KeyPart'
  <2>1. CASE CancelSkipped(d) \/ CancelEnds(d) \/ FinalizeEnds(d) \/ ChildFails(d)
    BY <1>0, <1>1, <2>1 DEF CancelSkipped, CancelEnds, FinalizeEnds, ChildFails, refusalVars, kvVars, KeyPart
  <2>2. CASE PlanCancel(d)
    BY <1>0, <2>2 DEF PlanCancel, AdvanceCancel, Restore, KvSet, kvVars, KeyPart
  <2>3. CASE PlanCancelFails(d)
    BY <1>0, <2>3 DEF PlanCancelFails, CancelBlocked, KvSet, kvVars, KeyPart
  <2>4. CASE CheckpointCancel(d)
    BY <1>0, <2>4 DEF CheckpointCancel, Restore, kvVars, KeyPart
  <2>5. CASE PlanFinalize(d)
    BY <1>0, <2>5 DEF PlanFinalize, Finish, kvVars, KeyPart
  <2>6. CASE CheckpointFinalize(d)
    BY <1>0, <2>6 DEF CheckpointFinalize, Finish, kvVars, KeyPart
  <2> QED BY <1>3, <2>1, <2>2, <2>3, <2>4, <2>5, <2>6 DEF DriverStep
<1>4. CASE AlarmFires \/ ClearInertAlarm
  BY <1>0, <1>4 DEF AlarmFires, ClearInertAlarm, refusalVars, kvVars, KeyPart
<1>5. ASSUME NEW d \in Drivers, ResumeAlarms(d) \/ Purge(d) PROVE KeyPart'
  BY <1>0, <1>5 DEF ResumeAlarms, Purge, inventoryVars, refusalVars, sagaVars, kvVars, KeyPart
<1>6. ASSUME NEW e \in Entities, OutboxActs(e) PROVE KeyPart'
  <2>1. registered' \subseteq registered \cup {e}
    BY <1>6 DEF OutboxActs, OutboxNext, OutboxStep, EnsureRegisters, EnsureDefers, EnsureSeals,
       AttemptSuppressed, AttemptWrites, AttemptFails, Unregister, EnsureBegins, OutboxAlarm,
       EntityDeletion, AttemptReadFails, OutboxRestarts
  <2> QED BY <1>0, <1>1, <1>6, <2>1, OutboxFrame DEF refusalVars, sagaVars, kvVars, KeyPart
<1>7. CASE KvPropagates /\ UNCHANGED <<sagaVars, d1, drv>>
  BY <1>0, <1>7 DEF KvPropagates, refusalVars, sagaVars, KeyPart
<1> QED BY <1>2, <1>3, <1>4, <1>5, <1>6, <1>7, StepKinds DEF InventoryStep

\* Where a driver goes.
LEMMA DriverShapes ==
  ASSUME drv \in [Drivers -> Driving], NEW d \in Drivers, NEW l \in Labels,
         NEW e \in Entities \cup {None}
  PROVE  /\ Goto(d, l) => drv' \in [Drivers -> Driving]
         /\ GotoWith(d, l, e) => drv' \in [Drivers -> Driving]
         /\ Stop(d) => drv' \in [Drivers -> Driving]
<1>1. drv[d] \in Driving
  OBVIOUS
<1>2. [drv[d] EXCEPT !.at = l] \in Driving /\ [drv[d] EXCEPT !.at = l, !.step = e] \in Driving
  BY <1>1 DEF Driving
<1>3. Idle \in Driving
  BY DEF Idle, AtRest, Driving, Labels, SagaPhases, Gens
<1>4. Goto(d, l) => drv' = [drv EXCEPT ![d] = [drv[d] EXCEPT !.at = l]]
  BY <1>1 DEF Goto
<1>5. GotoWith(d, l, e) => drv' = [drv EXCEPT ![d] = [drv[d] EXCEPT !.at = l, !.step = e]]
  BY <1>1 DEF GotoWith
<1> QED BY <1>2, <1>3, <1>4, <1>5 DEF Stop

LEMMA DriverFields ==
  ASSUME DeletionInv, NEW d \in Drivers
  PROVE  /\ At(d) \in Labels /\ Gen(d) \in Gens /\ Entity(d) \in Entities \cup {None}
         /\ drv[d].seen \in SagaPhases /\ drv[d] \in Driving /\ saga.phase \in SagaPhases
         /\ saga.gen \in Gens /\ saga.pending \subseteq Entities /\ saga \in Sagas
         /\ d1 \in Records /\ d1.gen \in Gens
<1>1. drv \in [Drivers -> Driving] /\ saga \in Sagas /\ d1 \in Records
  BY TypeParts DEF DeletionInv
<1> QED BY <1>1 DEF Driving, Sagas, Records, At, Gen, Entity

\* A request that starts gets a generation: the record's, or one that nobody remembers.
LEMMA RecordType == ASSUME DeletionInv, Next PROVE d1' \in Records
<1>0. d1 \in Records
  BY TypeParts DEF DeletionInv
<1>1. ASSUME NEW r \in Requests, RequestStep(r) \/ RequestDies(r) PROVE d1' \in Records
  <2>1. CASE Start(r)
    <3>1. CASE d1' = d1
      BY <1>0, <3>1
    <3>2. ASSUME Forgotten # {}, d1' = [phase |-> "started", gen |-> CHOOSE g \in Forgotten : TRUE]
          PROVE  d1' \in Records
      <4> DEFINE fresh == CHOOSE g \in Forgotten : TRUE
      <4>1. fresh \in Gens
        BY <3>2 DEF Forgotten, Gens
      <4>2. d1' = [phase |-> "started", gen |-> fresh]
        BY <3>2
      <4> HIDE DEF fresh
      <4> QED BY <4>1, <4>2 DEF Records
    <3> QED BY <2>1, <3>1, <3>2 DEF Start
  <2>2. CASE Cascade(r) \/ CascadeFails(r) \/ Complete(r)
    BY <1>0, <2>2 DEF Cascade, CascadeFails, Complete, Records
  <2>3. CASE Recover(r)
    BY <1>0, <2>3 DEF Recover, NoRecord, Records, Gens
  <2> QED BY <1>0, <1>1, <2>1, <2>2, <2>3
          DEF RequestStep, Resume, BeginRefused, BeginReplayed, BeginWaits, Prepare, PrepareFails,
              PrepareCrashes, MarkRefused, MarkD1Deleted, RequestDies
<1>2. ASSUME NEW d \in Drivers, DriverStep(d) \/ PlanCancelFails(d) \/ ChildFails(d) PROVE d1' = d1
  BY <1>2 DEF DriverStep, CancelSkipped, PlanCancel, CheckpointCancel, CancelEnds, PlanFinalize,
     CheckpointFinalize, FinalizeEnds, PlanCancelFails, ChildFails
<1>3. ASSUME NEW d \in Drivers, ResumeAlarms(d) \/ Purge(d) PROVE d1' = d1
  BY <1>3 DEF ResumeAlarms, Purge
<1>4. AlarmFires \/ ClearInertAlarm => d1' = d1
  BY DEF AlarmFires, ClearInertAlarm
<1> QED BY <1>0, <1>1, <1>2, <1>3, <1>4, StepKinds, OutboxFrame DEF InventoryStep

\* The saga's phases, generations and Entities.
LEMMA SagaType == ASSUME DeletionInv, Next PROVE saga' \in Sagas
<1> USE DriverFields
<1>0. TypeOK /\ saga \in Sagas /\ registered \subseteq Entities /\ Requests \subseteq Drivers
  BY TypeParts DEF DeletionInv, KeyPart, Drivers
<1>0a. /\ NoSaga \in Sagas
       /\ \A p \in SagaPhases, g \in Gens, s \in SUBSET Entities, c \in BOOLEAN : Of(p, g, s, c) \in Sagas
       /\ \A g \in Gens : Canceling(g) \in Sagas /\ [Canceling(g) EXCEPT !.cleared = TRUE] \in Sagas
  <2>1. NoSaga \in Sagas
    BY DEF NoSaga, Sagas, SagaPhases, Gens
  <2>2. ASSUME NEW g \in Gens
        PROVE Canceling(g) \in Sagas /\ [Canceling(g) EXCEPT !.cleared = TRUE] \in Sagas
    BY <1>0, CancelingShape DEF Sagas
  <2> QED BY <2>1, <2>2, SagaShape
<1>0b. {"preparing", "prepared", "canceling", "d1_deleted", "finalizing", "completed"} \subseteq SagaPhases
  BY DEF SagaPhases, CrossedPhases
<1>1. ASSUME NEW r \in Requests, RequestStep(r) \/ RequestDies(r) PROVE saga' \in Sagas
  <2>0. Gen(r) \in Gens /\ {} \in SUBSET Entities
    BY <1>0
  <2>1. CASE BeginWaits(r)
    BY <1>0, <1>0a, <2>0, <2>1 DEF BeginWaits, AdvanceCancel, CancelBlocked, Restore
  <2>2. CASE Prepare(r) \/ PrepareFails(r) \/ PrepareCrashes(r)
    BY <1>0, <1>0a, <1>0b, <2>0, <2>2 DEF Prepare, PrepareFails, PrepareCrashes, Restore
  <2>3. CASE MarkD1Deleted(r)
    BY <1>0, <1>0a, <1>0b, <2>0, <2>3 DEF MarkD1Deleted
  <2> QED BY <1>0, <1>1, <2>1, <2>2, <2>3
          DEF RequestStep, RequestDies, Start, Resume, Cascade, CascadeFails, Recover, Complete, BeginRefused,
              BeginReplayed, MarkRefused, inventoryVars, sagaVars
<1>2. ASSUME NEW d \in Drivers, DriverStep(d) \/ PlanCancelFails(d) \/ ChildFails(d) PROVE saga' \in Sagas
  <2>1. CASE PlanCancel(d) \/ PlanCancelFails(d)
    BY <1>0, <1>0a, <2>1 DEF PlanCancel, PlanCancelFails, AdvanceCancel, CancelBlocked, Restore
  <2>2. CASE CheckpointCancel(d)
    <3>1. [saga EXCEPT !.pending = @ \ {Entity(d)}] \in Sagas
      BY <1>0 DEF Sagas
    <3> QED BY <1>0, <1>0a, <2>2, <3>1 DEF CheckpointCancel, Restore
  <2>3. CASE PlanFinalize(d) \/ CheckpointFinalize(d)
    <3>1. {} \in SUBSET Entities /\ Gen(d) \in Gens /\ saga.gen \in Gens
      OBVIOUS
    <3> QED BY <1>0, <1>0a, <1>0b, <2>3, <3>1 DEF PlanFinalize, CheckpointFinalize, Finish
  <2> QED BY <1>0, <1>2, <2>1, <2>2, <2>3
          DEF DriverStep, CancelSkipped, CancelEnds, FinalizeEnds, ChildFails
<1>3. ASSUME NEW d \in Drivers, ResumeAlarms(d) \/ Purge(d) PROVE saga' = saga
  BY <1>3 DEF ResumeAlarms, Purge, inventoryVars, sagaVars
<1>4. AlarmFires \/ ClearInertAlarm => saga' = saga
  BY DEF AlarmFires, ClearInertAlarm
<1>5. ASSUME NEW e \in Entities, OutboxActs(e) PROVE saga' = saga
  BY <1>5, OutboxFrame DEF sagaVars
<1> QED BY <1>0, <1>1, <1>2, <1>3, <1>4, <1>5, StepKinds DEF InventoryStep, sagaVars

LEMMA DriverType == ASSUME DeletionInv, Next PROVE drv' \in [Drivers -> Driving]
<1> USE DeletionAssumption, DriverFields
<1>0. drv \in [Drivers -> Driving] /\ saga \in Sagas /\ Requests \subseteq Drivers /\ Alarm \in Drivers
  BY TypeParts DEF DeletionInv, Drivers
<1>0a. Labels = {"idle", "cancel", "finalize", "inert", "resume", "resumed", "cancelEnds", "purge", "purged",
                 "finalizeEnds", "prepare", "cascade", "recover", "mark", "complete", "lost"}
  BY DEF Labels, Inside, RequestLabels
<1>1. ASSUME NEW r \in Requests, RequestStep(r) \/ RequestDies(r) PROVE drv' \in [Drivers -> Driving]
  <2>0. r \in Drivers /\ None \in Entities \cup {None}
    BY <1>0
  <2>1. CASE Start(r)
    <3>1. d1'.gen \in Gens
      BY <1>1, RecordType DEF Records
    <3>2. [drv[r] EXCEPT !.at = "prepare", !.gen = d1'.gen] \in Driving
      BY <1>0a, <2>0, <3>1 DEF Driving
    <3> QED BY <1>0, <2>0, <2>1, <3>2 DEF Start
  <2>2. CASE Resume(r)
    <3>1. [drv[r] EXCEPT !.at = "mark", !.gen = d1.gen, !.resumes = TRUE] \in Driving
      BY <1>0a, <2>0 DEF Driving
    <3> QED BY <1>0, <1>0a, <2>0, <2>2, <3>1, DriverShapes DEF Resume
  <2>3. CASE Cascade(r) \/ CascadeFails(r) \/ Recover(r) \/ Complete(r) \/ BeginRefused(r)
             \/ BeginReplayed(r) \/ BeginWaits(r) \/ Prepare(r) \/ PrepareFails(r)
             \/ MarkRefused(r) \/ MarkD1Deleted(r)
    <3>1. \/ Stop(r)
          \/ \E l \in {"mark", "recover", "cancel", "cascade", "finalize"} : Goto(r, l)
      BY <2>3 DEF Cascade, CascadeFails, Recover, Complete, BeginRefused, BeginReplayed, BeginWaits,
         Prepare, PrepareFails, MarkRefused, MarkD1Deleted, Answered
    <3> QED BY <1>0, <1>0a, <2>0, <3>1, DriverShapes
  <2>4. CASE PrepareCrashes(r)
    <3>1. [drv[r] EXCEPT !.at = "recover"] \in Driving
      BY <1>0a, <2>0 DEF Driving
    <3>2. Idle \in Driving
      BY <1>0a DEF Idle, AtRest, Driving, SagaPhases, Gens
    <3> QED BY <1>0, <2>4, <3>1, <3>2 DEF PrepareCrashes, HandlersLost
  <2>5. CASE RequestDies(r)
    <3>1. AtRest("lost") \in Driving /\ AtRest("idle") \in Driving
      BY <1>0a DEF AtRest, Driving, SagaPhases, Gens
    <3> QED BY <1>0, <2>5, <3>1 DEF RequestDies
  <2> QED BY <1>1, <2>1, <2>2, <2>3, <2>4, <2>5 DEF RequestStep
<1>2. ASSUME NEW d \in Drivers, DriverStep(d) \/ PlanCancelFails(d) \/ ChildFails(d) \/ ResumeAlarms(d)
                                 \/ Purge(d)
      PROVE  drv' \in [Drivers -> Driving]
  <2>1. CASE PlanCancel(d)
    <3>1. saga'.pending \subseteq Entities
      BY <1>2, SagaType DEF Sagas
    <3>2. Goto(d, "cancelEnds") \/ \E e \in Entities : GotoWith(d, "resume", e)
      BY <2>1, <3>1 DEF PlanCancel
    <3> QED BY <1>0, <1>0a, <3>2, DriverShapes
  <2>2. CASE PlanFinalize(d)
    <3>1. Goto(d, "finalizeEnds") \/ \E e \in Entities : GotoWith(d, "purge", e)
      BY <2>2, TypeParts DEF PlanFinalize, DeletionInv, KeyPart
    <3> QED BY <1>0, <1>0a, <3>1, DriverShapes
  <2>3. CASE CancelSkipped(d) \/ CheckpointCancel(d) \/ CancelEnds(d) \/ CheckpointFinalize(d)
             \/ FinalizeEnds(d) \/ PlanCancelFails(d) \/ ChildFails(d) \/ ResumeAlarms(d) \/ Purge(d)
    <3>1. \/ Stop(d)
          \/ \E l \in {"resumed", "purged", "complete"} : Goto(d, l)
          \/ \E l \in {"cancelEnds", "finalizeEnds"} : GotoWith(d, l, None)
      BY <2>3 DEF CancelSkipped, CheckpointCancel, CancelEnds, CheckpointFinalize, FinalizeEnds,
         PlanCancelFails, ChildFails, ResumeAlarms, Purge
    <3> QED BY <1>0, <1>0a, <3>1, DriverShapes
  <2> QED BY <1>2, <2>1, <2>2, <2>3 DEF DriverStep
<1>3. CASE AlarmFires
  <2>1. Handler(saga.phase) \in Labels
    BY <1>0a DEF Handler
  <2>2. [drv[Alarm] EXCEPT !.at = Handler(saga.phase), !.gen = saga.gen, !.seen = saga.phase] \in Driving
    BY <1>0, <2>1 DEF Driving
  <2> QED BY <1>0, <1>3, <2>2 DEF AlarmFires
<1>4. CASE ClearInertAlarm
  BY <1>0, <1>0a, <1>4, DriverShapes DEF ClearInertAlarm
<1> QED BY <1>0, <1>1, <1>2, <1>3, <1>4, StepKinds, OutboxFrame DEF InventoryStep

-----------------------------------------------------------------------------
(* The saga: what is past the boundary stays there, refusing new work.     *)
LEMMA SagaStep ==
  ASSUME DeletionInv, Next
  PROVE  SagaInv' /\ (Crossed => Crossed') /\ (complete => complete')
<1> USE DeletionAssumption DEF Crossed
<1>0. /\ TypeOK /\ SagaInv /\ DriverInv /\ saga \in Sagas /\ d1 \in Records
      /\ saga.phase \in SagaPhases /\ complete \in BOOLEAN /\ suppressed \in BOOLEAN
      /\ Requests \subseteq Drivers
  BY TypeParts DEF DeletionInv, Sagas, KeyPart, Drivers
<1>0a. /\ NoSaga.phase = "idle" /\ NoRecord.phase = "none"
       /\ \A g \in Gens : Canceling(g).phase = "canceling"
       /\ \A g \in Gens : [Canceling(g) EXCEPT !.cleared = TRUE].phase = "canceling"
  <2>1. ASSUME NEW g \in Gens
        PROVE  Canceling(g).phase = "canceling" /\ [Canceling(g) EXCEPT !.cleared = TRUE].phase = "canceling"
    BY <1>0, CancelingShape DEF Sagas
  <2> QED BY <2>1 DEF NoSaga, NoRecord
<1> DEFINE Same == saga' = saga /\ suppressed' = suppressed /\ complete' = complete
           Goal == SagaInv' /\ (Crossed => Crossed') /\ (complete => complete')
<1>1. ASSUME Same, registered' \subseteq registered, d1'.phase = "complete" => d1.phase = "complete"
      PROVE  Goal
  BY <1>0, <1>1 DEF SagaInv
\* A cancel that is not past the boundary ends, or goes on.
<1>2. ASSUME ~Crossed, complete' = complete, registered' = registered, d1' = d1,
             \/ saga'.phase = "idle" /\ suppressed' = FALSE
             \/ saga'.phase = "canceling"
      PROVE  Goal
  BY <1>0, <1>2 DEF SagaInv, CrossedPhases
<1>3. ASSUME NEW g \in Gens, AdvanceCancel(g) \/ CancelBlocked(g)
      PROVE  (saga'.phase = "idle" /\ suppressed' = FALSE) \/ saga'.phase = "canceling"
  BY <1>0a, <1>3 DEF AdvanceCancel, CancelBlocked, Restore
<1>4. ASSUME NEW r \in Requests, RequestStep(r) \/ RequestDies(r) PROVE Goal
  <2>0. r \in Drivers /\ Gen(r) \in Gens
    BY <1>0, DriverFields
  <2>1. CASE Start(r) \/ Resume(r) \/ Cascade(r) \/ CascadeFails(r) \/ Recover(r) \/ MarkRefused(r)
             \/ RequestDies(r)
    <3>1. Same /\ registered' = registered
      BY <2>1 DEF Start, Resume, Cascade, CascadeFails, Recover, MarkRefused, RequestDies, inventoryVars,
         refusalVars, sagaVars
    <3>2. d1'.phase = "complete" => d1.phase = "complete"
      BY <1>0, <1>0a, <2>1 DEF Start, Resume, Cascade, CascadeFails, Recover, MarkRefused, RequestDies, Records
    <3> QED BY <1>1, <3>1, <3>2
  <2>2. CASE Complete(r)
    <3>1. complete
      BY <1>0, <2>0, <2>2 DEF Complete, DriverInv
    <3>2. Same /\ registered' = registered
      BY <2>2 DEF Complete, inventoryVars, refusalVars, sagaVars
    <3> QED BY <1>0, <3>1, <3>2 DEF SagaInv
  <2>3. CASE BeginRefused(r)
    <3>1. Same /\ registered' = registered /\ d1' = d1
      BY <2>3 DEF BeginRefused, refusalVars
    <3> QED BY <1>1, <3>1
  <2>4. CASE BeginReplayed(r)
    <3>1. /\ saga' = saga /\ registered' = registered /\ d1' = d1 /\ complete' = (complete \/ saga.phase = "completed")
          /\ suppressed' = (suppressed \/ saga.phase = "completed")
      BY <2>4 DEF BeginReplayed
    <3> QED BY <1>0, <3>1 DEF SagaInv, CrossedPhases
  <2>5. CASE BeginWaits(r)
    <3>1. ~Crossed /\ complete' = complete /\ registered' = registered /\ d1' = d1
      BY <2>5 DEF BeginWaits, PriorCancel, CrossedPhases
    <3> QED BY <1>2, <1>3, <2>0, <2>5, <3>1 DEF BeginWaits
  <2>6. CASE Prepare(r) \/ PrepareFails(r) \/ PrepareCrashes(r)
    <3>1. ~Crossed /\ registered' = registered /\ d1' = d1 /\ complete' = FALSE
      BY <2>6 DEF Prepare, PrepareFails, PrepareCrashes, Freeze, MayFreeze
    <3>2. \/ saga'.phase \in {"prepared", "canceling", "preparing"}
          \/ saga'.phase = "idle" /\ suppressed' = FALSE
      <4>1. CASE Prepare(r) \/ PrepareCrashes(r)
        <5>1. saga' = Of("prepared", Gen(r), {}, FALSE) \/ saga' = Of("preparing", Gen(r), registered, FALSE)
          BY <4>1 DEF Prepare, PrepareCrashes
        <5> QED BY <5>1 DEF Of
      <4>2. CASE PrepareFails(r)
        <5>1. \/ Restore
              \/ \E c \in BOOLEAN : saga' = Of("canceling", Gen(r), registered, c)
          BY <4>2 DEF PrepareFails
        <5> QED BY <1>0a, <5>1 DEF Restore, Of
      <4> QED BY <2>6, <4>1, <4>2
    <3> QED BY <1>0, <3>1, <3>2 DEF SagaInv, CrossedPhases
  <2>7. CASE MarkD1Deleted(r)
    <3>1. CASE saga.phase \in CrossedPhases
      BY <1>1, <2>7, <3>1 DEF MarkD1Deleted
    <3>2. CASE saga.phase \notin CrossedPhases
      <4>1. /\ saga'.phase = "d1_deleted" /\ suppressed' = TRUE /\ complete' = complete /\ registered' = registered
            /\ d1' = d1
        BY <2>7, <3>2 DEF MarkD1Deleted, Of
      <4> QED BY <1>0, <3>2, <4>1 DEF SagaInv, CrossedPhases
    <3> QED BY <3>1, <3>2
  <2> QED BY <1>4, <2>1, <2>2, <2>3, <2>4, <2>5, <2>6, <2>7 DEF RequestStep
<1>5. ASSUME NEW d \in Drivers, DriverStep(d) \/ PlanCancelFails(d) \/ ChildFails(d) PROVE Goal
  <2>0. Gen(d) \in Gens
    BY DriverFields
  <2>1. CASE CancelSkipped(d) \/ CancelEnds(d) \/ FinalizeEnds(d) \/ ChildFails(d)
    <3>1. Same /\ registered' = registered /\ d1' = d1
      BY <2>1 DEF CancelSkipped, CancelEnds, FinalizeEnds, ChildFails, refusalVars
    <3> QED BY <1>1, <3>1
  <2>2. CASE PlanCancel(d) \/ PlanCancelFails(d)
    <3>1. ~Crossed /\ complete' = complete /\ registered' = registered /\ d1' = d1
      BY <2>2 DEF PlanCancel, PlanCancelFails, CancelVoid
    <3>2. CASE saga' = saga /\ suppressed' = suppressed
      BY <1>1, <3>1, <3>2
    <3>3. CASE AdvanceCancel(Gen(d)) \/ CancelBlocked(Gen(d))
      BY <1>2, <1>3, <2>0, <3>1, <3>3
    <3> QED BY <2>2, <3>2, <3>3 DEF PlanCancel, PlanCancelFails
  <2>3. CASE CheckpointCancel(d)
    <3>1. complete' = complete /\ registered' = registered /\ d1' = d1
      BY <2>3 DEF CheckpointCancel
    <3>2. CASE saga.phase = "canceling" /\ saga.gen = Gen(d)
      <4>1. [saga EXCEPT !.pending = @ \ {Entity(d)}].phase = "canceling"
        BY <1>0, <3>2 DEF Sagas
      <4>2. (saga'.phase = "idle" /\ suppressed' = FALSE) \/ saga'.phase = "canceling"
        BY <1>0a, <2>3, <3>2, <4>1 DEF CheckpointCancel, Restore
      <4> QED BY <1>2, <3>1, <3>2, <4>2 DEF CrossedPhases
    <3>3. CASE ~(saga.phase = "canceling" /\ saga.gen = Gen(d))
      BY <1>1, <2>3, <3>1, <3>3 DEF CheckpointCancel
    <3> QED BY <3>2, <3>3
  <2>4. CASE PlanFinalize(d)
    <3>1. registered' = registered /\ d1' = d1
      BY <2>4 DEF PlanFinalize
    <3>2. CASE complete \/ saga.phase = "completed"
      BY <1>1, <2>4, <3>1, <3>2 DEF PlanFinalize
    <3>3. CASE ~(complete \/ saga.phase = "completed")
      <4>1. \/ registered = {} /\ saga'.phase = "completed" /\ suppressed' = TRUE /\ complete' = TRUE
            \/ saga'.phase = "finalizing" /\ suppressed' = TRUE /\ complete' = complete
        BY <2>4, <3>3 DEF PlanFinalize, Finish, Of
      <4> QED BY <1>0, <3>1, <3>3, <4>1 DEF SagaInv, CrossedPhases
    <3> QED BY <3>2, <3>3
  <2>5. CASE CheckpointFinalize(d)
    <3>1. d1' = d1
      BY <2>5 DEF CheckpointFinalize
    <3>2. CASE saga.phase = "finalizing" /\ saga.gen = Gen(d)
      <4>1. \/ registered' = {} /\ saga'.phase = "completed" /\ suppressed' = TRUE /\ complete' = TRUE
            \/ Same
        BY <2>5, <3>2 DEF CheckpointFinalize, Finish, Of
      <4>2. CASE Same
        BY <1>0, <3>1, <3>2, <4>2 DEF SagaInv, CrossedPhases
      <4>3. CASE ~Same
        BY <1>0, <3>1, <4>1, <4>3 DEF SagaInv, CrossedPhases
      <4> QED BY <4>2, <4>3
    <3>3. CASE ~(saga.phase = "finalizing" /\ saga.gen = Gen(d))
      BY <1>1, <2>5, <3>1, <3>3 DEF CheckpointFinalize
    <3> QED BY <3>2, <3>3
  <2> QED BY <1>5, <2>1, <2>2, <2>3, <2>4, <2>5 DEF DriverStep
<1>6. CASE AlarmFires \/ ClearInertAlarm
  BY <1>1, <1>6 DEF AlarmFires, ClearInertAlarm, refusalVars
<1>7. ASSUME NEW d \in Drivers, ResumeAlarms(d) \/ Purge(d) PROVE Goal
  BY <1>1, <1>7 DEF ResumeAlarms, Purge, inventoryVars, refusalVars, sagaVars
<1>8. ASSUME NEW e \in Entities, OutboxActs(e) PROVE Goal
  <2>1. suppressed \/ complete => registered' \subseteq registered
    BY <1>8 DEF OutboxActs, OutboxNext, OutboxStep, EnsureRegisters, EnsureDefers, EnsureSeals,
       AttemptSuppressed, AttemptWrites, AttemptFails, Unregister, EnsureBegins, OutboxAlarm,
       EntityDeletion, AttemptReadFails, OutboxRestarts, Refuses
  <2>2. Same /\ d1' = d1
    BY <1>8, OutboxFrame DEF refusalVars, sagaVars
  <2> QED BY <1>0, <2>1, <2>2 DEF SagaInv
<1>9. CASE KvPropagates /\ UNCHANGED <<sagaVars, d1, drv>>
  BY <1>1, <1>9 DEF KvPropagates, refusalVars, sagaVars
<1> QED BY <1>4, <1>5, <1>6, <1>7, <1>8, <1>9, StepKinds DEF InventoryStep

-----------------------------------------------------------------------------
(* Where the steps of a driver leave it, and the other drivers.            *)
Rest(d) == \A x \in Drivers \ {d} : drv'[x] = drv[x]

LEMMA DriverMoves ==
  ASSUME drv \in [Drivers -> Driving], NEW d \in Drivers, NEW l, NEW e
  PROVE  /\ Goto(d, l) => Rest(d) /\ drv'[d].at = l /\ drv'[d].step = drv[d].step
         /\ GotoWith(d, l, e) => Rest(d) /\ drv'[d].at = l /\ drv'[d].step = e
         /\ Stop(d) => Rest(d) /\ drv'[d].at = "idle"
<1>1. drv[d] \in Driving
  OBVIOUS
<1>2. /\ [drv[d] EXCEPT !.at = l].at = l /\ [drv[d] EXCEPT !.at = l].step = drv[d].step
      /\ [drv[d] EXCEPT !.at = l, !.step = e].at = l /\ [drv[d] EXCEPT !.at = l, !.step = e].step = e
  BY <1>1 DEF Driving
<1>3. Goto(d, l) => drv' = [drv EXCEPT ![d] = [drv[d] EXCEPT !.at = l]]
  BY <1>1 DEF Goto
<1>4. GotoWith(d, l, e) => drv' = [drv EXCEPT ![d] = [drv[d] EXCEPT !.at = l, !.step = e]]
  BY <1>1 DEF GotoWith
<1> DEFINE r1 == [drv[d] EXCEPT !.at = l]
           r2 == [drv[d] EXCEPT !.at = l, !.step = e]
<1>5. r1.at = l /\ r1.step = drv[d].step /\ r2.at = l /\ r2.step = e /\ Idle.at = "idle"
  BY <1>2 DEF Idle, AtRest
<1>6. \A v : drv' = [drv EXCEPT ![d] = v] => Rest(d) /\ drv'[d] = v
  BY DEF Rest
<1>7. Goto(d, l) => Rest(d) /\ drv'[d] = r1
  BY <1>3, <1>6
<1>8. GotoWith(d, l, e) => Rest(d) /\ drv'[d] = r2
  BY <1>4, <1>6
<1>9. Stop(d) => Rest(d) /\ drv'[d] = Idle
  BY <1>6 DEF Stop
<1> HIDE DEF r1, r2
<1> QED BY <1>5, <1>7, <1>8, <1>9

\* The labels that say something of the inventory or of an outbox, and the steps that lead to them.
Telling == {"inert", "purge", "purged", "complete"}
Arrives(d) ==
  \/ drv'[d] = drv[d] \/ drv'[d].at \notin Telling
  \/ drv'[d].at = "purge" /\ drv'[d].step \in registered /\ saga'.phase = "finalizing"
  \/ drv'[d].at = "purged" /\ Purge(d) /\ drv'[d].step = drv[d].step
  \/ drv'[d].at = "complete" /\ saga.phase = "completed"
  \/ d = Alarm /\ AlarmFires /\ drv'[d].at = "inert" /\ drv'[d].seen \in {"prepared", "completed"}

LEMMA RequestArrives ==
  ASSUME DeletionInv, NEW r \in Requests, RequestStep(r) \/ RequestDies(r)
  PROVE  drv'[r].at \notin Telling /\ (Rest(r) \/ PrepareCrashes(r))
<1>0. drv \in [Drivers -> Driving] /\ r \in Drivers /\ drv[r] \in Driving
  BY TypeParts DEF DeletionInv, Drivers
<1>1. CASE Start(r)
  <2>1. [drv[r] EXCEPT !.at = "prepare", !.gen = d1'.gen].at = "prepare"
    BY <1>0 DEF Driving
  <2>2. drv' = [drv EXCEPT ![r] = [drv[r] EXCEPT !.at = "prepare", !.gen = d1'.gen]]
    BY <1>0, <1>1 DEF Start
  <2> QED BY <1>0, <2>1, <2>2 DEF Rest, Telling
<1>2. CASE Resume(r)
  <2>1. CASE Stop(r)
    BY <1>0, <2>1, DriverMoves DEF Telling
  <2>2. CASE drv' = [drv EXCEPT ![r].at = "mark", ![r].gen = d1.gen, ![r].resumes = TRUE]
    <3>1. [drv[r] EXCEPT !.at = "mark", !.gen = d1.gen, !.resumes = TRUE].at = "mark"
      BY <1>0 DEF Driving
    <3>2. drv' = [drv EXCEPT ![r] = [drv[r] EXCEPT !.at = "mark", !.gen = d1.gen, !.resumes = TRUE]]
      BY <1>0, <2>2
    <3> QED BY <1>0, <3>1, <3>2 DEF Rest, Telling
  <2> QED BY <1>2, <2>1, <2>2 DEF Resume
<1>3. CASE Cascade(r) \/ CascadeFails(r) \/ Recover(r) \/ Complete(r) \/ BeginRefused(r)
           \/ BeginReplayed(r) \/ BeginWaits(r) \/ Prepare(r) \/ PrepareFails(r)
           \/ MarkRefused(r) \/ MarkD1Deleted(r)
  <2>1. \/ Stop(r)
        \/ \E l \in {"mark", "recover", "cancel", "cascade", "finalize"} : Goto(r, l)
    BY <1>3 DEF Cascade, CascadeFails, Recover, Complete, BeginRefused, BeginReplayed, BeginWaits,
       Prepare, PrepareFails, MarkRefused, MarkD1Deleted, Answered
  <2> QED BY <1>0, <2>1, DriverMoves DEF Telling
<1>4. CASE PrepareCrashes(r)
  <2>1. [drv[r] EXCEPT !.at = "recover"].at = "recover"
    BY <1>0 DEF Driving
  <2> QED BY <1>0, <1>4, <2>1 DEF PrepareCrashes, HandlersLost, Telling
<1>5. CASE RequestDies(r)
  BY <1>0, <1>5 DEF RequestDies, AtRest, Rest, Telling
<1> QED BY <1>1, <1>2, <1>3, <1>4, <1>5 DEF RequestStep

LEMMA DriverArrives ==
  ASSUME DeletionInv, NEW d \in Drivers,
         DriverStep(d) \/ PlanCancelFails(d) \/ ChildFails(d) \/ ResumeAlarms(d) \/ Purge(d)
  PROVE  Rest(d) /\ Arrives(d)
<1>0. drv \in [Drivers -> Driving]
  BY TypeParts DEF DeletionInv
<1>1. CASE PlanCancel(d)
  <2>1. \E l \in {"cancelEnds", "resume"} : Goto(d, l) \/ \E e \in saga'.pending : GotoWith(d, l, e)
    BY <1>1 DEF PlanCancel
  <2> QED BY <1>0, <2>1, DriverMoves DEF Arrives, Telling
<1>2. CASE PlanFinalize(d)
  <2>1. \/ Goto(d, "finalizeEnds")
        \/ \E e \in registered : GotoWith(d, "purge", e) /\ saga'.phase = "finalizing"
    BY <1>2 DEF PlanFinalize, Of
  <2> QED BY <1>0, <2>1, DriverMoves DEF Arrives, Telling
<1>3. CASE FinalizeEnds(d)
  <2>1. Stop(d) \/ (Goto(d, "complete") /\ saga.phase = "completed")
    BY <1>3 DEF FinalizeEnds
  <2> QED BY <1>0, <2>1, DriverMoves DEF Arrives, Telling
<1>4. CASE Purge(d)
  <2>1. Goto(d, "purged")
    BY <1>4 DEF Purge
  <2> QED BY <1>0, <1>4, <2>1, DriverMoves DEF Arrives
<1>5. CASE CancelSkipped(d) \/ CheckpointCancel(d) \/ CancelEnds(d) \/ CheckpointFinalize(d)
           \/ PlanCancelFails(d) \/ ChildFails(d) \/ ResumeAlarms(d)
  <2>1. \/ Stop(d) \/ Goto(d, "resumed")
        \/ \E l \in {"cancelEnds", "finalizeEnds"} : GotoWith(d, l, None)
    BY <1>5 DEF CancelSkipped, CheckpointCancel, CancelEnds, CheckpointFinalize, PlanCancelFails,
       ChildFails, ResumeAlarms
  <2> QED BY <1>0, <2>1, DriverMoves DEF Arrives, Telling
<1> QED BY <1>1, <1>2, <1>3, <1>4, <1>5 DEF DriverStep

LEMMA AlarmArrives ==
  ASSUME DeletionInv, AlarmFires
  PROVE  /\ Rest(Alarm) /\ drv'[Alarm].at = Handler(saga.phase) /\ drv'[Alarm].gen = saga.gen
         /\ drv'[Alarm].seen = saga.phase
<1>0. drv \in [Drivers -> Driving] /\ Alarm \in Drivers /\ drv[Alarm] \in Driving
  BY TypeParts DEF DeletionInv, Drivers
<1> DEFINE next == [drv[Alarm] EXCEPT !.at = Handler(saga.phase), !.gen = saga.gen, !.seen = saga.phase]
<1>1. next.at = Handler(saga.phase) /\ next.gen = saga.gen /\ next.seen = saga.phase
  BY <1>0 DEF Driving
<1>2. drv' = [drv EXCEPT ![Alarm] = next]
  BY <1>0 DEF AlarmFires
<1> HIDE DEF next
<1> QED BY <1>0, <1>1, <1>2 DEF Rest

\* A step that is of no driver.
LEMMA OthersRest ==
  ASSUME Next
  PROVE  \/ \E r \in Requests : RequestStep(r) \/ RequestDies(r)
         \/ \E d \in Drivers :
              DriverStep(d) \/ PlanCancelFails(d) \/ ChildFails(d) \/ ResumeAlarms(d) \/ Purge(d)
         \/ AlarmFires \/ ClearInertAlarm
         \/ drv' = drv /\ UNCHANGED sagaVars
BY StepKinds, OutboxFrame DEF InventoryStep, Drivers, sagaVars

(* An Entity that was drained past the boundary stays empty: the inventory *)
(* refuses to register it, and no job is stored before it is registered.   *)
LEMMA DrainedStaysEmpty ==
  ASSUME DeletionInv, Next, Crossed, NEW e \in Entities, job[e] = "none", ob[e] # "registered"
  PROVE  job'[e] = "none" /\ ob'[e] # "registered"
<1>0. OutboxPart /\ suppressed /\ (Attempting(e) => job[e] = "pending")
  BY TypeParts DEF DeletionInv, SagaInv, JobInv
<1>1. CASE UNCHANGED <<job, ob>>
  BY <1>1
<1>2. ASSUME NEW x \in Entities, OutboxActs(x) PROVE job'[e] = "none" /\ ob'[e] # "registered"
  <2>1. OutboxNext(x)
    BY <1>2 DEF OutboxActs
  <2>2. CASE x # e
    BY <1>0, <2>1, <2>2, OutboxType DEF Others, DeletionInv
  <2>3. CASE x = e
    <3>1. CASE EnsureRegisters(e)
      BY <1>0, <3>1 DEF EnsureRegisters, Refuses, Frees, Takes, jobVars, OutboxPart
    <3>2. CASE Unregister(e) \/ EnsureBegins(e) \/ OutboxRestarts(e)
      <4>1. job' = job /\ \E v \in {"free", "register"} : ob' = [ob EXCEPT ![e] = v]
        BY <3>2 DEF Unregister, EnsureBegins, OutboxRestarts, Takes, Frees, jobVars
      <4> QED BY <1>0, <4>1 DEF OutboxPart
    <3>3. CASE OutboxAlarm(e)
      BY <1>0, <3>3 DEF OutboxAlarm, Takes, OutboxPart
    <3>4. CASE EntityDeletion(e)
      BY <1>0, <3>4 DEF EntityDeletion, PurgeJob, NoJob, Takes, OutboxPart
    <3>5. ~EnsureDefers(e) /\ ~EnsureSeals(e) /\ ~AttemptSuppressed(e) /\ ~AttemptWrites(e)
          /\ ~AttemptFails(e) /\ ~AttemptReadFails(e)
      BY <1>0 DEF EnsureDefers, EnsureSeals, AttemptSuppressed, AttemptWrites, AttemptFails, AttemptReadFails
    <3> QED BY <2>1, <2>3, <3>1, <3>2, <3>3, <3>4, <3>5 DEF OutboxNext, OutboxStep
  <2> QED BY <2>2, <2>3
<1>3. ASSUME NEW d \in Drivers, ResumeAlarms(d) PROVE UNCHANGED <<job, ob>>
  BY <1>3 DEF ResumeAlarms
<1>4. ASSUME NEW d \in Drivers, Purge(d) PROVE job'[e] = "none" /\ ob'[e] # "registered"
  BY <1>0, <1>4 DEF Purge, PurgeJob, NoJob, OutboxPart
<1>5. InventoryStep \/ KvPropagates => UNCHANGED <<job, ob>>
  BY InventoryFrame DEF KvPropagates, outboxVars, jobVars
<1> QED BY <1>1, <1>2, <1>3, <1>4, <1>5, StepKinds

LEMMA DriverStepKeeps == ASSUME DeletionInv, Next PROVE DriverInv'
<1> USE DeletionAssumption
<1>0. /\ DriverInv /\ SagaInv /\ saga.phase \in SagaPhases /\ Requests \subseteq Drivers /\ Alarm \in Drivers
      /\ drv \in [Drivers -> Driving]
  BY TypeParts DEF DeletionInv, Drivers, Sagas
<1>1. SagaInv' /\ (Crossed => Crossed') /\ (complete => complete')
  BY SagaStep
<1>2. registered \subseteq Entities
  BY TypeParts DEF DeletionInv, KeyPart
\* Where every driver has come to.
<1>3. \A x \in Drivers : Arrives(x)
  <2>1. ASSUME NEW d \in Drivers, Rest(d), Arrives(d) PROVE \A x \in Drivers : Arrives(x)
    BY <2>1 DEF Rest, Arrives
  <2>2. ASSUME NEW r \in Requests, RequestStep(r) \/ RequestDies(r) PROVE \A x \in Drivers : Arrives(x)
    <3>1. drv'[r].at \notin Telling /\ (Rest(r) \/ PrepareCrashes(r))
      BY <2>2, RequestArrives
    <3>2. CASE Rest(r)
      BY <1>0, <2>1, <3>1, <3>2 DEF Arrives
    <3>3. CASE PrepareCrashes(r)
      <4>1. \A x \in Drivers \ {r} : drv'[x] = Idle \/ drv'[x] = drv[x]
        BY <3>3 DEF PrepareCrashes, HandlersLost
      <4>2. Idle.at \notin Telling
        BY DEF Idle, AtRest, Telling
      <4> QED BY <3>1, <4>1, <4>2 DEF Arrives
    <3> QED BY <3>1, <3>2, <3>3
  <2>3. CASE AlarmFires
    <3>1. /\ Rest(Alarm) /\ drv'[Alarm].at = Handler(saga.phase) /\ drv'[Alarm].seen = saga.phase
      BY <2>3, AlarmArrives
    <3>2. Handler(saga.phase) = "inert" => saga.phase \in {"prepared", "completed"}
      BY <1>0 DEF Handler, SagaPhases, CrossedPhases
    <3>3. Handler(saga.phase) \in {"idle", "cancel", "finalize", "inert"}
      BY DEF Handler
    <3>4. Arrives(Alarm)
      BY <2>3, <3>1, <3>2, <3>3 DEF Arrives, Telling
    <3> QED BY <1>0, <2>1, <3>1, <3>4
  <2>4. CASE ClearInertAlarm
    <3>1. Rest(Alarm) /\ drv'[Alarm].at = "idle"
      BY <1>0, <2>4, DriverMoves DEF ClearInertAlarm
    <3> QED BY <1>0, <2>1, <3>1 DEF Arrives, Telling
  <2>5. CASE drv' = drv
    BY <2>5 DEF Arrives
  <2> QED BY <2>1, <2>2, <2>3, <2>4, <2>5, OthersRest, DriverArrives
<1>4. ASSUME NEW d \in Drivers
      PROVE  /\ drv'[d].at \in {"purge", "purged"} => Crossed' /\ drv'[d].step \in Entities
             /\ drv'[d].at = "purged" => job'[drv'[d].step] = "none" /\ ob'[drv'[d].step] # "registered"
             /\ drv'[d].at = "complete" => complete'
  <2>1. CASE drv'[d] = drv[d]
    <3>1. /\ drv[d].at \in {"purge", "purged"} => Crossed /\ drv[d].step \in Entities
          /\ drv[d].at = "purged" => job[drv[d].step] = "none" /\ ob[drv[d].step] # "registered"
          /\ drv[d].at = "complete" => complete
      BY <1>0 DEF DriverInv, At, Entity
    <3>2. drv[d].at = "purged" => job'[drv[d].step] = "none" /\ ob'[drv[d].step] # "registered"
      BY <3>1, DrainedStaysEmpty
    <3> QED BY <1>1, <2>1, <3>1, <3>2
  <2>2. CASE drv'[d].at \notin Telling
    BY <2>2 DEF Telling
  <2>3. CASE drv'[d].at = "purge" /\ drv'[d].step \in registered /\ saga'.phase = "finalizing"
    BY <1>2, <2>3 DEF Crossed, CrossedPhases
  <2>4. CASE drv'[d].at = "purged" /\ Purge(d) /\ drv'[d].step = drv[d].step
    <3>1. At(d) = "purge" /\ drv[d].step \in Entities /\ Crossed /\ OutboxPart
      BY <1>0, <2>4, TypeParts DEF Purge, DriverInv, Entity, DeletionInv
    <3>2. job'[drv[d].step] = "none" /\ ob'[drv[d].step] = "free"
      BY <2>4, <3>1 DEF Purge, PurgeJob, NoJob, Entity, OutboxPart
    <3> QED BY <1>1, <2>4, <3>1, <3>2
  <2>5. CASE drv'[d].at = "complete" /\ saga.phase = "completed"
    BY <1>0, <1>1, <2>5 DEF SagaInv
  <2>6. CASE drv'[d].at = "inert"
    BY <2>6
  <2> QED BY <1>3, <2>1, <2>2, <2>3, <2>4, <2>5, <2>6 DEF Arrives
<1>5. drv'[Alarm].at = "inert" => drv'[Alarm].seen \in {"prepared", "completed"}
  BY <1>0, <1>3 DEF Arrives, Telling, DriverInv, At
<1> QED BY <1>4, <1>5 DEF DriverInv, At, Entity

\* Whoever leaves the saga half way arms its alarm, and only its handler disarms it.
LEMMA HalfWayStep == ASSUME DeletionInv, Next PROVE HalfWayArmed'
<1> USE DeletionAssumption
<1>0. /\ HalfWayArmed /\ DriverInv /\ Requests \subseteq Drivers /\ Alarm \in Drivers \ Requests
      /\ saga \in Sagas /\ NoSaga.phase = "idle"
  BY TypeParts DEF DeletionInv, Drivers, Alarm, NoSaga
\* The alarm is set, or the saga is not half way.
<1>1. ASSUME alarm' \/ ~HalfWay' PROVE HalfWayArmed'
  BY <1>1 DEF HalfWayArmed
\* The alarm and the owner of the saga stay, and the alarm's handler is not about to cancel it, or waits.
<1>2. ASSUME alarm => alarm', HalfWay' => HalfWay /\ saga'.gen = saga.gen,
             drv'[Alarm] = drv[Alarm] \/ At(Alarm) # "cancel"
      PROVE  HalfWayArmed'
  BY <1>0, <1>2 DEF HalfWayArmed, At, Gen
<1>3. ASSUME NEW r \in Requests, RequestStep(r) \/ RequestDies(r) PROVE HalfWayArmed'
  <2>1. CASE Start(r) \/ Resume(r) \/ Cascade(r) \/ CascadeFails(r) \/ Recover(r) \/ Complete(r)
             \/ MarkRefused(r) \/ RequestDies(r)
    <3>1. UNCHANGED sagaVars
      BY <2>1 DEF Start, Resume, Cascade, CascadeFails, Recover, Complete, MarkRefused, RequestDies,
         inventoryVars
    <3>2. ~PrepareCrashes(r) => drv'[Alarm] = drv[Alarm]
      BY <1>0, <1>3, RequestArrives DEF Rest
    <3>3. CASE PrepareCrashes(r)
      BY <1>1, <3>3 DEF PrepareCrashes
    <3> QED BY <1>2, <3>1, <3>2, <3>3 DEF sagaVars, HalfWay
  <2>2. CASE BeginRefused(r) \/ BeginWaits(r) \/ PrepareFails(r) \/ PrepareCrashes(r)
    BY <1>1, <2>2 DEF BeginRefused, BeginWaits, PrepareFails, PrepareCrashes
  <2>3. CASE BeginReplayed(r)
    BY <1>1, <2>3 DEF BeginReplayed, HalfWay, CrossedPhases
  <2>4. CASE Prepare(r)
    <3>1. saga' = Of("prepared", Gen(r), {}, FALSE)
      BY <2>4 DEF Prepare
    <3> QED BY <1>1, <3>1 DEF Of, HalfWay
  <2>5. CASE MarkD1Deleted(r)
    <3>1. saga'.phase \in CrossedPhases
      BY <2>5 DEF MarkD1Deleted, Of, CrossedPhases
    <3> QED BY <1>1, <3>1 DEF HalfWay, CrossedPhases
  <2> QED BY <1>3, <2>1, <2>2, <2>3, <2>4, <2>5 DEF RequestStep
<1>4. ASSUME NEW d \in Drivers,
             DriverStep(d) \/ PlanCancelFails(d) \/ ChildFails(d) \/ ResumeAlarms(d) \/ Purge(d)
      PROVE  HalfWayArmed'
  <2>0. d # Alarm => drv'[Alarm] = drv[Alarm]
    BY <1>0, <1>4, DriverArrives DEF Rest
  <2>1. CASE PlanCancel(d) \/ PlanCancelFails(d) \/ PlanFinalize(d)
    BY <1>1, <2>1 DEF PlanCancel, PlanCancelFails, PlanFinalize
  <2>2. CASE CancelSkipped(d)
    <3>1. saga' = saga /\ alarm' = (alarm \/ (d = Alarm /\ ~OtherGeneration(Gen(d))))
      BY <2>2 DEF CancelSkipped
    <3>2. CASE d = Alarm /\ OtherGeneration(Gen(Alarm))
      BY <1>0, <1>1, <3>1, <3>2 DEF OtherGeneration, HalfWayArmed, HalfWay
    <3>3. CASE d = Alarm /\ ~OtherGeneration(Gen(Alarm))
      BY <1>1, <3>1, <3>3
    <3>4. CASE d # Alarm
      BY <1>2, <2>0, <3>1, <3>4 DEF HalfWay
    <3> QED BY <3>2, <3>3, <3>4
  <2>3. CASE CheckpointCancel(d)
    <3>1. At(d) = "resumed" /\ alarm' = alarm
      BY <2>3 DEF CheckpointCancel
    <3>2. HalfWay' => HalfWay /\ saga'.gen = saga.gen
      <4>1. CASE saga' = saga
        BY <4>1 DEF HalfWay
      <4>2. CASE Restore
        BY <1>0, <4>2 DEF Restore, HalfWay
      <4>3. CASE saga.phase = "canceling" /\ saga' = [saga EXCEPT !.pending = @ \ {Entity(d)}]
        BY <1>0, <4>3 DEF HalfWay, Sagas
      <4> QED BY <2>3, <4>1, <4>2, <4>3 DEF CheckpointCancel
    <3> QED BY <1>2, <2>0, <3>1, <3>2
  <2>4. CASE CancelEnds(d)
    <3>1. At(d) = "cancelEnds" /\ alarm' = (alarm /\ saga # NoSaga) /\ saga' = saga
      BY <2>4 DEF CancelEnds
    <3>2. CASE saga = NoSaga
      BY <1>0, <1>1, <3>1, <3>2 DEF HalfWay
    <3>3. CASE saga # NoSaga
      BY <1>2, <2>0, <3>1, <3>3 DEF HalfWay
    <3> QED BY <3>2, <3>3
  <2>5. CASE CheckpointFinalize(d)
    <3>1. At(d) = "purged" /\ alarm' = alarm
      BY <2>5 DEF CheckpointFinalize
    <3>2. saga' = saga \/ \E g : saga' = Of("completed", g, {}, TRUE)
      BY <2>5 DEF CheckpointFinalize, Finish
    <3>3. CASE saga' = saga
      BY <1>2, <2>0, <3>1, <3>3 DEF HalfWay
    <3>4. ASSUME NEW g, saga' = Of("completed", g, {}, TRUE) PROVE HalfWayArmed'
      BY <1>1, <3>4 DEF Of, HalfWay
    <3> QED BY <3>2, <3>3, <3>4
  <2>6. CASE FinalizeEnds(d)
    <3>1. At(d) = "finalizeEnds" /\ alarm' = (alarm /\ saga.phase # "completed") /\ saga' = saga
      BY <2>6 DEF FinalizeEnds
    <3>2. CASE saga.phase = "completed"
      BY <1>1, <3>1, <3>2 DEF HalfWay
    <3>3. CASE saga.phase # "completed"
      BY <1>2, <2>0, <3>1, <3>3 DEF HalfWay
    <3> QED BY <3>2, <3>3
  <2>7. CASE ChildFails(d) \/ ResumeAlarms(d) \/ Purge(d)
    <3>1. At(d) # "cancel" /\ saga' = saga
      BY <2>7 DEF ChildFails, ResumeAlarms, Purge, inventoryVars, sagaVars
    <3>2. alarm' = alarm \/ alarm' = (alarm \/ d = Alarm)
      BY <2>7 DEF ChildFails, ResumeAlarms, Purge, inventoryVars, sagaVars
    <3>3. alarm => alarm'
      BY <3>2
    <3> QED BY <1>2, <2>0, <3>1, <3>3 DEF HalfWay
  <2> QED BY <1>4, <2>1, <2>2, <2>3, <2>4, <2>5, <2>6, <2>7 DEF DriverStep
<1>5. CASE AlarmFires
  <2>1. saga' = saga /\ drv'[Alarm].at = Handler(saga.phase) /\ drv'[Alarm].gen = saga.gen
    BY <1>5, AlarmArrives DEF AlarmFires
  <2>2. HalfWay => Handler(saga.phase) = "cancel"
    BY DEF HalfWay, Handler
  <2> QED BY <2>1, <2>2 DEF HalfWayArmed, HalfWay, At, Gen
<1>6. CASE ClearInertAlarm
  <2>1. /\ saga' = saga /\ drv[Alarm].seen \in {"prepared", "completed"} /\ At(Alarm) = "inert"
        /\ alarm' = (alarm /\ ~(saga.gen = Gen(Alarm) /\ saga.phase = drv[Alarm].seen))
    BY <1>0, <1>6 DEF ClearInertAlarm, DriverInv
  <2>2. CASE saga.phase = drv[Alarm].seen
    BY <1>1, <2>1, <2>2 DEF HalfWay
  <2>3. CASE saga.phase # drv[Alarm].seen
    BY <1>2, <2>1, <2>3 DEF HalfWay
  <2> QED BY <2>2, <2>3
<1>7. CASE drv' = drv /\ UNCHANGED sagaVars
  BY <1>2, <1>7 DEF sagaVars, HalfWay
<1> QED BY <1>3, <1>4, <1>5, <1>6, <1>7, OthersRest

-----------------------------------------------------------------------------
(* The theorems. *)
LEMMA DeletionStutters == ASSUME DeletionInv, UNCHANGED vars PROVE DeletionInv'
<1> USE DEF vars, outboxVars, jobVars, inventoryVars, refusalVars, sagaVars, kvVars
<1>1. TypeOK' /\ JobInv' /\ RegisteredInv' /\ OwnedIsArmed'
  BY DEF DeletionInv, TypeOK, OutboxTypeOK, JobInv, RegisteredInv, OwnedIsArmed, Attempting
<1>2. SagaInv' /\ HalfWayArmed' /\ DriverInv'
  BY DEF DeletionInv, SagaInv, HalfWayArmed, DriverInv, Crossed, HalfWay, At, Gen, Entity
<1> QED BY <1>1, <1>2 DEF DeletionInv

(***************************************************************************)
(* The inductive invariant of the deletion of an App: what the outboxes,   *)
(* the inventory's saga, its alarm and the drivers agree on between any    *)
(* two storage steps.                                                      *)
(***************************************************************************)
THEOREM DeletionInvariant == Spec => []DeletionInv
<1>1. Init => DeletionInv
  BY InitDeletion
<1>2. DeletionInv /\ [Next]_vars => DeletionInv'
  <2>1. ASSUME DeletionInv, Next PROVE DeletionInv'
    <3>1. OutboxPart' /\ JobInv' /\ RegisteredInv' /\ OwnedIsArmed'
      BY <2>1, OutboxesStep
    <3>2. KeyPart' /\ d1' \in Records /\ saga' \in Sagas /\ drv' \in [Drivers -> Driving]
      BY <2>1, KeyType, RecordType, SagaType, DriverType
    <3>3. TypeOK'
      BY <3>1, <3>2 DEF TypeOK, OutboxTypeOK, OutboxPart, KeyPart, Gens, Records, Sagas, Labels, Driving
    <3>4. SagaInv' /\ HalfWayArmed' /\ DriverInv'
      BY <2>1, SagaStep, HalfWayStep, DriverStepKeeps
    <3> QED BY <3>1, <3>3, <3>4 DEF DeletionInv
  <2> QED BY <2>1, DeletionStutters
<1> QED BY <1>1, <1>2, PTL DEF Spec

(* The record in D1, the saga, the drivers and every outbox keep their     *)
(* shapes: in particular no request starts without a generation, and no    *)
(* job is tried more often than HOLDOVER_WRITE_MAX_ATTEMPTS.               *)
THEOREM DeletionTypeCorrect == Spec => []TypeOK
<1>1. DeletionInv => TypeOK
  BY DEF DeletionInv
<1> QED BY <1>1, DeletionInvariant, PTL

(* "accepted means ... owned for Durable Object alarm retry" (holdover-    *)
(* write-contract.md): a job that ensure answered for is pending and has   *)
(* an alarm, through every freeze, cancel, drain, Entity deletion, failed  *)
(* attempt and restart.                                                    *)
THEOREM OwnedJobsKeepAnAlarm == Spec => []OwnedIsArmed
<1>1. DeletionInv => OwnedIsArmed
  BY DEF DeletionInv
<1> QED BY <1>1, DeletionInvariant, PTL

(* "Never leave a live App registration-suppressed without a saga"         *)
(* (holdover-write-app-deletion-saga.ts): a freeze has a saga, and while   *)
(* it is half prepared or half cancelled the alarm is set or is handled.   *)
THEOREM FreezesHaveASaga == Spec => []FreezeHasSaga
<1>1. DeletionInv => FreezeHasSaga
  BY DEF DeletionInv, SagaInv, HalfWayArmed, HalfWay, FreezeHasSaga, NoSaga
<1> QED BY <1>1, DeletionInvariant, PTL

(* "A register-versus-complete race cannot leave an unindexed Entity       *)
(* outbox after the App deletion coordinator reports complete" (holdover-  *)
(* write-app-inventory.ts): completed means that no outbox holds a job.    *)
THEOREM CompletedAppsAreEmpty == Spec => []CompletedIsEmpty
<1>1. DeletionInv => CompletedIsEmpty
  <2> SUFFICES ASSUME DeletionInv, complete \/ d1.phase = "complete" PROVE CompletedIsEmpty
    BY DEF CompletedIsEmpty
  <2>1. complete /\ registered = {}
    BY DEF DeletionInv, SagaInv
  <2>2. \A e \in Entities : job[e] = "none"
    BY <2>1 DEF DeletionInv, RegisteredInv
  <2>3. \A e \in Entities : ~Attempting(e)
    BY <2>2 DEF DeletionInv, JobInv
  <2> QED BY <2>1, <2>2, <2>3 DEF CompletedIsEmpty
<1> QED BY <1>1, DeletionInvariant, PTL

(* "Never cancel/rollback past the D1 boundary" (app-delete-holdover.ts),  *)
(* as the inventory keeps it: a saga that is past the boundary never       *)
(* leaves it, and an App that is completed stays so.                       *)
NeverBack == (Crossed => Crossed') /\ (complete => complete')

THEOREM NothingLeavesTheBoundary == Spec => [][NeverBack]_vars
<1>1. DeletionInv /\ [Next]_vars => [NeverBack]_vars
  BY SagaStep DEF NeverBack
<1> QED BY <1>1, DeletionInvariant, PTL DEF Spec

=============================================================================
