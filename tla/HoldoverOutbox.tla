--------------------------- MODULE HoldoverOutbox ---------------------------
(***************************************************************************)
(* The holdover-write outboxes of one App: a Durable Object per Entity,    *)
(* each operation under blockConcurrencyWhile, that owns a holdover write  *)
(* until it is in the Assignment Store or poisoned, and what they use of   *)
(* the App:                                                                *)
(*                                                                         *)
(*   inventory  the App inventory object: the registered Entities and the  *)
(*              keys that refuse new work                                  *)
(*   KV         the App's suppression tombstone, eventually consistent     *)
(*                                                                         *)
(* An outbox holds the job of one Experiment.  Delays are left out: when a *)
(* job is due is a choice, and an alarm is armed or not.  A call dies with *)
(* its caller.                                                             *)
(***************************************************************************)
EXTENDS Naturals, FiniteSets

CONSTANTS
  Entities,
  MaxAttempts,   \* HOLDOVER_WRITE_MAX_ATTEMPTS (8 in the code)
  MaxFaults      \* bound on failed calls, lost answers and restarts

ASSUME OutboxAssumption ==
  MaxAttempts \in Nat \ {0} /\ MaxFaults \in Nat

VARIABLES
  job, tries, armed,      \* outbox: the job, its attempts, its alarm
  ob,                     \* outbox: the operation that holds the critical section
  acked,                  \* history: Entities whose ensure was answered "owned", job still pending
  registered,             \* inventory: the Entities with an outbox
  suppressed, complete,   \* inventory: SUPPRESSED_KEY and DELETION_COMPLETE_KEY
  kv, kvStale,            \* the tombstone; an older value of it may still be read
  faults

jobVars == <<job, tries, armed, acked>>
kvVars == <<kv, kvStale>>
outboxVars == <<jobVars, ob>>
refusalVars == <<suppressed, complete>>

Fault == faults < MaxFaults /\ faults' = faults + 1

OutboxInit ==
  /\ job = [e \in Entities |-> "none"]
  /\ tries = [e \in Entities |-> 0]
  /\ armed = [e \in Entities |-> FALSE]
  /\ ob = [e \in Entities |-> "free"]
  /\ acked = {} /\ registered = {}
  /\ suppressed = FALSE /\ complete = FALSE
  /\ kv = FALSE /\ kvStale = FALSE /\ faults = 0

----------------------------------------------------------------------------
(* Workers KV.                                                             *)

KvReads == IF kvStale THEN BOOLEAN ELSE {kv}

KvSet(value) ==
  IF kv = value THEN UNCHANGED kvVars ELSE kv' = value /\ kvStale' = TRUE

KvPropagates ==
  /\ kvStale
  /\ kvStale' = FALSE
  /\ UNCHANGED <<outboxVars, registered, refusalVars, kv, faults>>

----------------------------------------------------------------------------
(* The job of an Entity.                                                   *)

Takes(e, operation) == ob' = [ob EXCEPT ![e] = operation]
Frees(e) == Takes(e, "free")

Arm(e, on) == armed' = [armed EXCEPT ![e] = on]

NoJob(e) ==
  /\ job' = [job EXCEPT ![e] = "none"]
  /\ tries' = [tries EXCEPT ![e] = 0]
  /\ acked' = acked \ {e}

\* purgeStaleJobs of every job, then reschedulePendingHoldoverWriteAlarm.
PurgeJob(e) == NoJob(e) /\ Arm(e, FALSE)

\* reschedulePendingHoldoverWriteAlarm.
Reschedule(e) == Arm(e, job[e] = "pending")

----------------------------------------------------------------------------
(* ensureHoldoverWriteJob.                                                 *)

\* preflightSuppression: the tombstone, as this location sees it.
EnsureBegins(e) ==
  /\ ob[e] = "free" /\ FALSE \in KvReads
  /\ Takes(e, "register")
  /\ UNCHANGED <<jobVars, registered, refusalVars, kvVars, faults>>

\* registerAppInventoryEntity and admitAppInventoryAssignment refuse.
Refuses == suppressed \/ complete

\* Mutant: the Entity is registered when its job is stored, after the answer.
EnsureRegistersLate(e) ==
  /\ ob[e] = "register"
  /\ IF Refuses THEN Frees(e) ELSE Takes(e, "registered")
  /\ UNCHANGED <<jobVars, registered, refusalVars, kvVars, faults>>

\* registerEntity at the App, before anything is stored here.
EnsureRegisters(e) ==
  /\ ob[e] = "register"
  /\ IF Refuses
     THEN Frees(e) /\ UNCHANGED registered
     ELSE Takes(e, "registered") /\ registered' = registered \cup {e}
  /\ UNCHANGED <<jobVars, refusalVars, kvVars, faults>>

\* A poisoned job, or one that is not due, is answered as it is.
EnsureDefers(e) ==
  /\ ob[e] = "registered" /\ job[e] # "none"
  /\ Frees(e)
  /\ IF job[e] = "poisoned"
     THEN UNCHANGED <<armed, acked>>
     ELSE Reschedule(e) /\ acked' = acked \cup {e}
  /\ UNCHANGED <<job, tries, registered, refusalVars, kvVars, faults>>

\* The job is stored: from here on it outlives the call, with no alarm yet.
EnsureSeals(e) ==
  /\ ob[e] = "registered" /\ job[e] # "poisoned"
  /\ job' = [job EXCEPT ![e] = "pending"]
  /\ Takes(e, "attempt")
  /\ UNCHANGED <<tries, armed, acked, registered, refusalVars, kvVars, faults>>

----------------------------------------------------------------------------
(* attemptHoldoverWriteJob, from ensure ("attempt") or the alarm ("retry"). *)

Attempting(e) == ob[e] \in {"attempt", "retry"}

\* The tombstone is seen: the job waits for the next look.
AttemptSuppressed(e) ==
  /\ Attempting(e) /\ TRUE \in KvReads
  /\ Arm(e, TRUE) /\ Frees(e)
  /\ UNCHANGED <<job, tries, acked, registered, refusalVars, kvVars, faults>>

\* The read of the tombstone fails: the call fails, an alarm is delivered again.
AttemptReadFails(e) ==
  /\ Attempting(e) /\ Fault
  /\ Arm(e, armed[e] \/ ob[e] = "retry") /\ Frees(e)
  /\ UNCHANGED <<job, tries, acked, registered, refusalVars, kvVars>>

\* put-assignment: the App admits the write and registers the Entity.
AttemptWrites(e) ==
  /\ Attempting(e) /\ FALSE \in KvReads /\ ~Refuses
  /\ registered' = registered \cup {e}
  /\ PurgeJob(e) /\ Frees(e)
  /\ UNCHANGED <<refusalVars, kvVars, faults>>

\* The answer "owned" goes to a caller of ensure.
Owns(e) == acked' = IF ob[e] = "attempt" THEN acked \cup {e} ELSE acked

\* Mutant: the alarm of a failed attempt is left to the caller.
AttemptFailsUnarmed(e) ==
  /\ Attempting(e) /\ FALSE \in KvReads
  /\ Frees(e)
  /\ tries' = [tries EXCEPT ![e] = @ + 1]
  /\ IF tries[e] + 1 >= MaxAttempts
     THEN job' = [job EXCEPT ![e] = "poisoned"] /\ acked' = acked \ {e}
     ELSE Owns(e) /\ UNCHANGED job
  /\ registered' = IF Refuses THEN registered ELSE registered \cup {e}
  /\ UNCHANGED <<armed, refusalVars, kvVars, faults>>

\* Mutant: a job is never poisoned.
AttemptNeverPoisons(e) ==
  /\ Attempting(e) /\ FALSE \in KvReads
  /\ Frees(e) /\ Arm(e, TRUE) /\ Owns(e)
  /\ tries' = [tries EXCEPT ![e] = @ + 1]
  /\ registered' = IF Refuses THEN registered ELSE registered \cup {e}
  /\ UNCHANGED <<job, refusalVars, kvVars, faults>>

\* The App refuses, or the writer fails after the admission.
AttemptFails(e) ==
  /\ Attempting(e) /\ FALSE \in KvReads
  /\ Frees(e)
  /\ tries' = [tries EXCEPT ![e] = @ + 1]
  /\ IF tries[e] + 1 >= MaxAttempts
     THEN job' = [job EXCEPT ![e] = "poisoned"] /\ Arm(e, FALSE) /\ acked' = acked \ {e}
     ELSE Arm(e, TRUE) /\ Owns(e) /\ UNCHANGED job
  /\ registered' = IF Refuses THEN registered ELSE registered \cup {e}
  /\ UNCHANGED <<refusalVars, kvVars, faults>>

\* runHoldoverWriteAlarm; with the tombstone in sight, or nothing due, it is armed again.
OutboxAlarm(e) ==
  /\ ob[e] = "free" /\ armed[e]
  /\ \/ FALSE \in KvReads /\ job[e] = "pending" /\ Takes(e, "retry") /\ UNCHANGED armed
     \/ (job[e] = "none" \/ (job[e] = "poisoned" /\ FALSE \in KvReads))
        /\ Arm(e, FALSE) /\ UNCHANGED ob
  /\ UNCHANGED <<job, tries, acked, registered, refusalVars, kvVars, faults>>

----------------------------------------------------------------------------
(* Deletion of the Entity, and restarts.                                   *)

\* deleteEntityOutbox: a job newer than the cutoff stays and is scheduled again.
EntityDeletion(e) ==
  /\ ob[e] = "free"
  /\ \/ PurgeJob(e) /\ Takes(e, "unregister")
     \/ job[e] # "none" /\ Reschedule(e) /\ UNCHANGED <<job, tries, acked, ob>>
  /\ UNCHANGED <<registered, refusalVars, kvVars, faults>>

\* markEntityPurged, still inside the outbox's critical section.
Unregister(e) ==
  /\ ob[e] = "unregister"
  /\ registered' = registered \ {e}
  /\ Frees(e)
  /\ UNCHANGED <<jobVars, refusalVars, kvVars, faults>>

\* The object restarts: the operation is lost, an alarm is delivered again.
OutboxRestarts(e) ==
  /\ ob[e] # "free" /\ Fault
  /\ Frees(e)
  /\ UNCHANGED <<jobVars, registered, refusalVars, kvVars>>

OutboxStep(e) ==
  \/ EnsureRegisters(e) \/ EnsureDefers(e) \/ EnsureSeals(e)
  \/ AttemptSuppressed(e) \/ AttemptWrites(e) \/ AttemptFails(e) \/ Unregister(e)

OutboxNext(e) ==
  \/ OutboxStep(e) \/ EnsureBegins(e) \/ OutboxAlarm(e) \/ EntityDeletion(e)
  \/ AttemptReadFails(e) \/ OutboxRestarts(e)

----------------------------------------------------------------------------
\* The shapes of the variables.
OutboxTypeOK ==
  /\ job \in [Entities -> {"none", "pending", "poisoned"}]
  /\ tries \in [Entities -> 0..MaxAttempts]
  /\ armed \in [Entities -> BOOLEAN]
  /\ ob \in [Entities -> {"free", "register", "registered", "attempt", "retry", "unregister"}]
  /\ acked \subseteq Entities /\ registered \subseteq Entities
  /\ suppressed \in BOOLEAN /\ complete \in BOOLEAN
  /\ kv \in BOOLEAN /\ kvStale \in BOOLEAN /\ faults \in 0..MaxFaults
=============================================================================
