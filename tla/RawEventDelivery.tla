------------------------- MODULE RawEventDelivery --------------------------
(***************************************************************************)
(* Delivery of Exposure rows (raw_events) and Evaluation usage rows        *)
(* (raw_evaluations) from their Cloudflare Queue to Tinybird, while an     *)
(* Entity is being deleted or the App's identity is being reset.           *)
(*                                                                         *)
(*   consumer   apps/event-ingest-api/src/raw-event-queue.ts               *)
(*   attempt    the delivery-scoped Durable Object that remembers the      *)
(*              outcome of an attempt (raw-event-terminal-state.ts)        *)
(*   App        the App authority: active identity version, App permits,   *)
(*              Entity inventory (app-identity-event-inventory.ts)         *)
(*   Entity     the Entity authority: deletion cutoff and Entity permits   *)
(*              (entity-metric-privacy-store.ts)                           *)
(*                                                                         *)
(* One App.  The consumer handles the messages of a batch concurrently, so *)
(* each message has a program counter of its own; the rows of a microbatch *)
(* get their Tinybird outcomes independently, which allows every outcome   *)
(* that one common answer allows.  A Durable Object request is one action  *)
(* up to its first call of another object: the storage input gate keeps    *)
(* other requests out.  A remote call may fail without effect, or take     *)
(* effect and lose its answer.                                             *)
(***************************************************************************)
EXTENDS Naturals, FiniteSets

CONSTANTS
  Messages,       \* queue messages, each with one row
  Entities,       \* the Entities of the App
  NoEntity,       \* stands for the Entity of a usage row, which has none
  MaxDeliveries,  \* 1 + max_retries of the queue
  MaxNow,         \* bound on the clock
  MaxVersion,     \* bound on App identity versions, so MaxVersion - 1 resets
  MaxResetAborts  \* bound on resets cut short by a restart of the App authority

ASSUME DeliveryAssumption ==
  /\ NoEntity \notin Entities
  /\ MaxDeliveries \in Nat \ {0}
  /\ MaxNow \in Nat \ {0}
  /\ MaxVersion \in Nat \ {0}
  /\ MaxResetAborts \in Nat

VARIABLES
  queue, deliveries,            \* the queue: state and delivery count of a message
  rowEntity,                    \* the row: its Entity (raw_events) or NoEntity (raw_evaluations),
  rowVersion, received,         \* identity_version and server_received_at
  pc, arg,                      \* the invocation that holds the message, and the outcome
                                \* it has to record or the settlement it is heading for
  attempt,                      \* the delivery-scoped attempt state
  appPermits, entityPermits,    \* delivery permits at the App and at the Entities
  active, suppression,          \* App: active version, reset suppression (0 is none)
  inventory,                    \* App: the Entities registered in it
  cutoff,                       \* Entity: deleteBeforeTs of its suppression (0 is none)
  resetPc, resetAborts,         \* the reset request at the App authority
  version, now,                 \* the control plane's identity version; the clock
  tinybird, abandoned,          \* rows appended; requests nobody waits for any more
  refused,                      \* history: requests answered with 429, 500 or 503
  deadLetter, suppressed,       \* history: messages copied to the DLQ, acked as suppressed
  deletionProof, resetProof,    \* history: proofs handed out
  late, lateAbandoned           \* history: rows appended after a proof covering them

queueVars == <<queue, deliveries>>
rowVars == <<rowEntity, rowVersion, received>>
consumerVars == <<pc, arg>>
permitVars == <<appPermits, entityPermits>>
appVars == <<active, suppression, inventory, resetPc, resetAborts>>
clockVars == <<version, now>>
sinkVars == <<tinybird, abandoned, refused, late, lateAbandoned>>
historyVars == <<deadLetter, suppressed>>
proofVars == <<deletionProof, resetProof>>

vars == <<queueVars, rowVars, consumerVars, attempt, permitVars, appVars, cutoff,
          clockVars, sinkVars, historyVars, proofVars>>

Attempts == {"none", "attempting", "retryable", "delivered", "terminal", "transferred"}
Outcomes == {"delivered", "retryable", "terminal"}
Settlements == {"ack", "retry", "refuse", "cleanup"}

IsExposure(m) == rowEntity[m] # NoEntity
PermitsOf(e) == {m \in entityPermits : rowEntity[m] = e}

\* A deletion or reset proof has been given that covers the row of m.
Proved(m) ==
  \/ rowVersion[m] \in resetProof
  \/ IsExposure(m) /\ received[m] <= deletionProof[rowEntity[m]]

Init ==
  /\ queue = [m \in Messages |-> "unsent"]
  /\ deliveries = [m \in Messages |-> 0]
  /\ rowEntity = [m \in Messages |-> NoEntity]
  /\ rowVersion = [m \in Messages |-> 0]
  /\ received = [m \in Messages |-> 0]
  /\ pc = [m \in Messages |-> "idle"]
  /\ arg = [m \in Messages |-> "none"]
  /\ attempt = [m \in Messages |-> "none"]
  /\ appPermits = {} /\ entityPermits = {}
  /\ active = 0 /\ suppression = 0 /\ inventory = {}
  /\ cutoff = [e \in Entities |-> 0]
  /\ resetPc = "idle" /\ resetAborts = 0
  /\ version = 1 /\ now = 1
  /\ tinybird = [m \in Messages |-> 0]
  /\ abandoned = [m \in Messages |-> 0]
  /\ refused = [m \in Messages |-> 0]
  /\ deadLetter = {} /\ suppressed = {}
  /\ deletionProof = [e \in Entities |-> 0]
  /\ resetProof = {}
  /\ late = {} /\ lateAbandoned = {}

----------------------------------------------------------------------------
(* Settling a message with the queue.                                      *)

\* message.ack(): the invocation is done with the message.
Ack(m) ==
  /\ queue' = [queue EXCEPT ![m] = "acked"]
  /\ pc' = [pc EXCEPT ![m] = "idle"]
  /\ arg' = [arg EXCEPT ![m] = "none"]
  /\ UNCHANGED deliveries

\* message.retry(): the queue moves the message to its DLQ after the last delivery.
Retry(m) ==
  /\ queue' = [queue EXCEPT ![m] = IF deliveries[m] < MaxDeliveries THEN "queued" ELSE "dead"]
  /\ pc' = [pc EXCEPT ![m] = "idle"]
  /\ arg' = [arg EXCEPT ![m] = "none"]
  /\ UNCHANGED deliveries

GotoWith(m, label, value) ==
  /\ pc' = [pc EXCEPT ![m] = label]
  /\ arg' = [arg EXCEPT ![m] = value]
  /\ UNCHANGED queueVars

Goto(m, label) == GotoWith(m, label, "none")

\* Release the admission, then acknowledge or retry the message.
CompleteThen(m, settlement) == GotoWith(m, "complete", settlement)

(***************************************************************************)
(* The lock of the App authority: the requests of these consumers hold its *)
(* shared side across their call of the Entity authority.  A reset runs    *)
(* when none does, and none starts while it purges.                        *)
(***************************************************************************)
InAppSection(m) ==
  \/ pc[m] \in {"entity", "release"}
  \/ pc[m] = "complete" /\ arg[m] = "refuse"

----------------------------------------------------------------------------
(* Producing and delivering a message.                                     *)

\* Intake queues a row; a slow intake request may still carry an old version.
Enqueue(m) ==
  /\ queue[m] = "unsent"
  /\ queue' = [queue EXCEPT ![m] = "queued"]
  /\ \E e \in Entities \cup {NoEntity} : rowEntity' = [rowEntity EXCEPT ![m] = e]
  /\ \E v \in 1..version : rowVersion' = [rowVersion EXCEPT ![m] = v]
  /\ received' = [received EXCEPT ![m] = now]
  /\ UNCHANGED <<deliveries, consumerVars, attempt, permitVars, appVars, cutoff, clockVars,
                 sinkVars, historyVars, proofVars>>

\* The queue hands the message to a consumer invocation.
Deliver(m) ==
  /\ queue[m] = "queued"
  /\ queue' = [queue EXCEPT ![m] = "inflight"]
  /\ deliveries' = [deliveries EXCEPT ![m] = @ + 1]
  /\ pc' = [pc EXCEPT ![m] = "admit"]
  /\ UNCHANGED <<rowVars, arg, attempt, permitVars, appVars, cutoff, clockVars,
                 sinkVars, historyVars, proofVars>>

----------------------------------------------------------------------------
(* Privacy admission at the App authority and at the Entity authority.     *)

AdmitsVersion(m) == suppression = 0 /\ active \in {0, rowVersion[m]}

\* Mutant: the permit is recorded when the append is about to be sent.
AdmitAppNoPermit(m) ==
  /\ pc[m] = "admit" /\ resetPc = "idle"
  /\ AdmitsVersion(m)
  /\ active' = rowVersion[m]
  /\ inventory' = inventory \cup ({rowEntity[m]} \ {NoEntity})
  /\ Goto(m, IF IsExposure(m) THEN "entity" ELSE "begin")
  /\ UNCHANGED <<permitVars, suppressed>>

\* /admit-entity-row up to its call of the Entity, and all of /admit-app-row.
AdmitApp(m) ==
  /\ pc[m] = "admit" /\ resetPc = "idle"
  /\ AdmitsVersion(m)
  /\ active' = rowVersion[m]
  /\ appPermits' = appPermits \cup {m}
  /\ inventory' = inventory \cup ({rowEntity[m]} \ {NoEntity})
  /\ Goto(m, IF IsExposure(m) THEN "entity" ELSE "begin")
  /\ UNCHANGED <<entityPermits, suppressed>>

\* Mutant: only a running reset refuses a row, an old version does not.
RefuseAppDuringReset(m) ==
  /\ pc[m] = "admit" /\ resetPc = "idle"
  /\ suppression # 0
  /\ IF IsExposure(m)
     THEN CompleteThen(m, "refuse") /\ UNCHANGED <<appPermits, suppressed>>
     ELSE /\ appPermits' = appPermits \ {m}
          /\ suppressed' = suppressed \cup {m}
          /\ Ack(m)
  /\ UNCHANGED <<active, inventory, entityPermits>>

\* Mutant: a refused row is acknowledged although an earlier delivery left permits.
RefuseAppKeepsPermits(m) ==
  /\ pc[m] = "admit" /\ resetPc = "idle"
  /\ ~AdmitsVersion(m)
  /\ suppressed' = suppressed \cup {m}
  /\ Ack(m)
  /\ UNCHANGED <<permitVars, active, inventory>>

\* The version is not admitted: forwarded permits are released, the row is suppressed.
RefuseApp(m) ==
  /\ pc[m] = "admit" /\ resetPc = "idle"
  /\ ~AdmitsVersion(m)
  /\ IF IsExposure(m)
     THEN CompleteThen(m, "refuse") /\ UNCHANGED <<appPermits, suppressed>>
     ELSE /\ appPermits' = appPermits \ {m}
          /\ suppressed' = suppressed \cup {m}
          /\ Ack(m)
  /\ UNCHANGED <<active, inventory, entityPermits>>

AdmitAtApp(m) ==
  /\ AdmitApp(m) \/ RefuseApp(m)
  /\ UNCHANGED <<rowVars, attempt, suppression, resetPc, resetAborts, cutoff,
                 clockVars, sinkVars, deadLetter, proofVars>>

\* atOrBefore(server_received_at, deleteBeforeTs)
Suppressed(m) == received[m] <= cutoff[rowEntity[m]]

\* /admit-row at the Entity.
AdmitAtEntity(m) ==
  /\ pc[m] = "entity"
  /\ IF Suppressed(m)
     THEN entityPermits' = entityPermits \ {m} /\ CompleteThen(m, "refuse")
     ELSE entityPermits' = entityPermits \cup {m} /\ Goto(m, "begin")
  /\ UNCHANGED <<rowVars, attempt, appPermits, appVars, cutoff, clockVars, sinkVars,
                 historyVars, proofVars>>

\* An admission call fails: cleanupFailedAdmission releases what it may have taken.
AdmissionFails(m) ==
  /\ pc[m] \in {"admit", "entity"}
  /\ CompleteThen(m, "retry")
  /\ UNCHANGED <<rowVars, attempt, permitVars, appVars, cutoff, clockVars, sinkVars,
                 historyVars, proofVars>>

----------------------------------------------------------------------------
(* Releasing the permits: the Entity's first, the App's in a finally block. *)

\* /complete-row at the Entity, called by the App authority; it may fail.
CompleteAtEntity(m) ==
  /\ pc[m] = "complete" /\ resetPc = "idle" /\ IsExposure(m)
  /\ \/ entityPermits' = entityPermits \ {m} /\ GotoWith(m, "release", arg[m])
     \/ /\ GotoWith(m, "release", IF arg[m] = "refuse" THEN "cleanup" ELSE "retry")
        /\ UNCHANGED entityPermits
  /\ UNCHANGED <<rowVars, attempt, appPermits, appVars, cutoff, clockVars, sinkVars,
                 historyVars, proofVars>>

\* Release of the App's permit, and what the consumer does when the answer comes or is lost.
ReleaseAtApp(m) ==
  /\ \/ pc[m] = "release"
     \/ pc[m] = "complete" /\ resetPc = "idle" /\ ~IsExposure(m)
  /\ appPermits' = appPermits \ {m}
  /\ \/ arg[m] = "ack" /\ Ack(m) /\ UNCHANGED suppressed
     \/ arg[m] = "refuse" /\ Ack(m) /\ suppressed' = suppressed \cup {m}
     \/ arg[m] \in {"refuse", "cleanup"} /\ CompleteThen(m, "retry") /\ UNCHANGED suppressed
     \/ arg[m] \in {"ack", "retry"} /\ Retry(m) /\ UNCHANGED suppressed
  /\ UNCHANGED <<rowVars, attempt, entityPermits, appVars, cutoff, clockVars,
                 sinkVars, deadLetter, proofVars>>

\* The completion call itself fails: the permits stay and the message is retried.
CompletionFails(m) ==
  /\ pc[m] = "complete" /\ arg[m] # "refuse"
  /\ Retry(m)
  /\ UNCHANGED <<rowVars, attempt, permitVars, appVars, cutoff, clockVars,
                 sinkVars, historyVars, proofVars>>

----------------------------------------------------------------------------
(* The attempt: a durable state machine per delivery.                      *)

\* Mutant: an unresolved attempt is taken for one that was never made.
NextAttemptBlind(m) ==
  IF attempt[m] \in {"none", "retryable", "attempting"} THEN "attempting" ELSE attempt[m]

\* beginRawEventAttemptAtAuthority: only a durable retryable outcome allows another send.
NextAttempt(m) ==
  CASE attempt[m] \in {"none", "retryable"} -> "attempting"
    [] attempt[m] = "attempting" -> "terminal"
    [] OTHER -> attempt[m]

\* The consumer learns what the attempt state allows, or loses the answer.
BeginAttempt(m) ==
  /\ pc[m] = "begin"
  /\ attempt' = [attempt EXCEPT ![m] = NextAttempt(m)]
  /\ \/ attempt'[m] = "attempting" /\ Goto(m, "send")
     \/ attempt'[m] = "terminal" /\ Goto(m, "deadletter")
     \/ attempt'[m] \in {"delivered", "transferred"} /\ CompleteThen(m, "ack")
     \/ CompleteThen(m, "retry")
  /\ UNCHANGED <<rowVars, permitVars, appVars, cutoff, clockVars, sinkVars,
                 historyVars, proofVars>>

\* The request to begin never arrives.
BeginFails(m) ==
  /\ pc[m] = "begin"
  /\ CompleteThen(m, "retry")
  /\ UNCHANGED <<rowVars, attempt, permitVars, appVars, cutoff, clockVars, sinkVars,
                 historyVars, proofVars>>

\* deliverGroup posts the microbatch, or has no Tinybird configuration to post with.
Send(m) ==
  /\ pc[m] = "send"
  /\ Goto(m, "wait") \/ GotoWith(m, "mark", "retryable")
  /\ UNCHANGED <<rowVars, attempt, permitVars, appVars, cutoff, clockVars, sinkVars,
                 historyVars, proofVars>>

\* Tinybird appends the row; the history notes it when a proof came before.
Append(m, latecomers) ==
  /\ tinybird' = [tinybird EXCEPT ![m] = @ + 1]
  /\ latecomers' = IF Proved(m) THEN latecomers \cup {m} ELSE latecomers

(***************************************************************************)
(* sendNdjsonBatch: a complete commit; 429, 500 or 503, retryable by the   *)
(* status alone, with or without a commit; an answer that leaves the       *)
(* commit unknown or partial (422, an unreadable body, a quarantine, any   *)
(* other status); or no answer before the timeout, while the request may   *)
(* still be on its way.                                                    *)
(***************************************************************************)
TinybirdAnswers(m) ==
  /\ pc[m] = "wait"
  /\ \E kind \in Outcomes :
       /\ GotoWith(m, "mark", kind)
       /\ \/ Append(m, late) /\ UNCHANGED abandoned
          \/ kind # "delivered" /\ UNCHANGED <<tinybird, late, abandoned>>
          \/ /\ kind = "terminal"
             /\ abandoned' = [abandoned EXCEPT ![m] = @ + 1]
             /\ UNCHANGED <<tinybird, late>>
       /\ refused' = IF kind = "retryable" THEN [refused EXCEPT ![m] = @ + 1] ELSE refused
  /\ UNCHANGED <<rowVars, attempt, permitVars, appVars, cutoff, clockVars,
                 lateAbandoned, historyVars, proofVars>>

\* A request nobody waits for is processed after all; nothing says that it will be.
LandAbandoned(m) ==
  /\ abandoned[m] > 0
  /\ abandoned' = [abandoned EXCEPT ![m] = @ - 1]
  /\ Append(m, lateAbandoned)
  /\ UNCHANGED <<queueVars, rowVars, consumerVars, attempt, permitVars, appVars, cutoff,
                 clockVars, refused, late, historyVars, proofVars>>

(***************************************************************************)
(* recordRawEventOutcome: accepted for the active attempt (or a repeat of  *)
(* the same outcome).  When the call is rejected, or its answer is lost,   *)
(* the message is retried and its permits stay.                            *)
(***************************************************************************)
RecordOutcome(m) ==
  /\ pc[m] = "mark"
  /\ attempt[m] \in {"attempting", arg[m]}
  /\ attempt' = [attempt EXCEPT ![m] = arg[m]]
  /\ \/ arg[m] = "delivered" /\ CompleteThen(m, "ack")
     \/ arg[m] = "retryable" /\ CompleteThen(m, "retry")
     \/ arg[m] = "terminal" /\ Goto(m, "deadletter")
     \/ Retry(m)
  /\ UNCHANGED <<rowVars, permitVars, appVars, cutoff, clockVars, sinkVars,
                 historyVars, proofVars>>

\* Mutant: the message is acknowledged before the copy is in the DLQ.
TransferTerminalEarlyAck(m) ==
  /\ pc[m] = "deadletter"
  /\ \/ deadLetter' = deadLetter \cup {m} /\ Goto(m, "transferred")
     \/ CompleteThen(m, "ack") /\ UNCHANGED deadLetter
  /\ UNCHANGED <<rowVars, attempt, permitVars, appVars, cutoff, clockVars,
                 sinkVars, suppressed, proofVars>>

\* The failure envelope is sent to the DLQ (transferTerminalFailure, resumeTerminalFailure).
TransferTerminal(m) ==
  /\ pc[m] = "deadletter"
  /\ deadLetter' = deadLetter \cup {m}
  /\ Goto(m, "transferred") \/ Retry(m)
  /\ UNCHANGED <<rowVars, attempt, permitVars, appVars, cutoff, clockVars,
                 sinkVars, suppressed, proofVars>>

\* recordRawEventTransferred; on a lost answer the message is retried.
MarkTransferred(m) ==
  /\ pc[m] = "transferred"
  /\ attempt' = [attempt EXCEPT ![m] = "transferred"]
  /\ CompleteThen(m, "ack") \/ Retry(m)
  /\ UNCHANGED <<rowVars, permitVars, appVars, cutoff, clockVars, sinkVars,
                 historyVars, proofVars>>

\* A call that records an outcome or copies to the DLQ fails without effect.
RecordFails(m) ==
  /\ pc[m] \in {"mark", "deadletter", "transferred"}
  /\ Retry(m)
  /\ UNCHANGED <<rowVars, attempt, permitVars, appVars, cutoff, clockVars,
                 sinkVars, historyVars, proofVars>>

(***************************************************************************)
(* The consumer invocation dies.  The queue delivers the message again; a  *)
(* Tinybird request that was out is abandoned, not withdrawn.              *)
(***************************************************************************)
ConsumerDies(m) ==
  /\ pc[m] # "idle"
  /\ Retry(m)
  /\ abandoned' = IF pc[m] = "wait" THEN [abandoned EXCEPT ![m] = @ + 1] ELSE abandoned
  /\ UNCHANGED <<rowVars, attempt, permitVars, appVars, cutoff, clockVars,
                 tinybird, refused, late, lateAbandoned, historyVars, proofVars>>

\* The 15-day alarm; the queue keeps a message for 14 days at most.
CleanupAttempt(m) ==
  /\ queue[m] \in {"acked", "dead"}
  /\ attempt[m] # "none"
  /\ attempt' = [attempt EXCEPT ![m] = "none"]
  /\ UNCHANGED <<queueVars, rowVars, consumerVars, permitVars, appVars, cutoff, clockVars,
                 sinkVars, historyVars, proofVars>>

----------------------------------------------------------------------------
(* Deletion of an Entity: /suppress, then /delete, both exclusive.         *)

\* The cutoff becomes durable even when the answer is 409.
Suppress(e, c) ==
  /\ c > cutoff[e]
  /\ cutoff' = [cutoff EXCEPT ![e] = c]
  /\ UNCHANGED <<queueVars, rowVars, consumerVars, attempt, permitVars, appVars, clockVars,
                 sinkVars, historyVars, proofVars>>

\* /delete is refused with 409 while the Entity has a permit; else it is the proof.
Delete(e) ==
  /\ cutoff[e] > deletionProof[e]
  /\ PermitsOf(e) = {}
  /\ deletionProof' = [deletionProof EXCEPT ![e] = cutoff[e]]
  /\ UNCHANGED <<queueVars, rowVars, consumerVars, attempt, permitVars, appVars, cutoff,
                 clockVars, sinkVars, historyVars, resetProof>>

----------------------------------------------------------------------------
(* Reset of the App identity, at the App authority.                        *)

NoAppSection == \A m \in Messages : ~InAppSection(m)

\* /reset-app: suppression first; then 409 while a permit is out, else the purge.
ResetApp ==
  /\ resetPc = "idle" /\ NoAppSection
  /\ version < MaxVersion
  /\ active \in {0, version} /\ suppression \in {0, version} /\ version \notin resetProof
  /\ suppression' = version
  /\ resetPc' = IF appPermits = {} THEN "purging" ELSE "idle"
  /\ UNCHANGED <<queueVars, rowVars, consumerVars, attempt, permitVars, active, inventory,
                 resetAborts, cutoff, clockVars, sinkVars, historyVars, proofVars>>

\* Mutant: a purged Entity stays in the inventory.
PurgeEntityKeepsInventory(e) ==
  /\ resetPc = "purging" /\ e \in inventory
  /\ cutoff' = [cutoff EXCEPT ![e] = now]
  /\ IF PermitsOf(e) = {}
     THEN deletionProof' = [deletionProof EXCEPT ![e] = now] /\ UNCHANGED resetPc
     ELSE resetPc' = "idle" /\ UNCHANGED deletionProof
  /\ UNCHANGED <<queueVars, rowVars, consumerVars, attempt, permitVars, active, suppression,
                 inventory, resetAborts, clockVars, sinkVars, historyVars, resetProof>>

(***************************************************************************)
(* purgeEntities: suppress the Entity as of now, delete it, drop it from   *)
(* the inventory.  An Entity that still has a permit ends the request.     *)
(***************************************************************************)
PurgeEntity(e) ==
  /\ resetPc = "purging" /\ e \in inventory
  /\ cutoff' = [cutoff EXCEPT ![e] = now]
  /\ IF PermitsOf(e) = {}
     THEN /\ deletionProof' = [deletionProof EXCEPT ![e] = now]
          /\ inventory' = inventory \ {e}
          /\ UNCHANGED resetPc
     ELSE resetPc' = "idle" /\ UNCHANGED <<deletionProof, inventory>>
  /\ UNCHANGED <<queueVars, rowVars, consumerVars, attempt, permitVars, active, suppression,
                 resetAborts, clockVars, sinkVars, historyVars, resetProof>>

\* Every registered Entity is purged: /reset-app answers with its proof.
ProveReset ==
  /\ resetPc = "purging" /\ inventory = {}
  /\ resetPc' = "idle"
  /\ resetProof' = resetProof \cup {suppression}
  /\ UNCHANGED <<queueVars, rowVars, consumerVars, attempt, permitVars, active, suppression,
                 inventory, resetAborts, cutoff, clockVars, sinkVars, historyVars,
                 deletionProof>>

\* The App authority restarts, or a purge call fails, in the middle of a reset.
AbortReset ==
  /\ resetPc = "purging" /\ resetAborts < MaxResetAborts
  /\ resetPc' = "idle" /\ resetAborts' = resetAborts + 1
  /\ UNCHANGED <<queueVars, rowVars, consumerVars, attempt, permitVars, active, suppression,
                 inventory, cutoff, clockVars, sinkVars, historyVars, proofVars>>

\* /complete-reset, sent once the control plane holds the proof.
CompleteReset ==
  /\ resetPc = "idle" /\ NoAppSection
  /\ suppression \in resetProof /\ inventory = {}
  /\ active' = version + 1
  /\ suppression' = 0
  /\ version' = version + 1
  /\ UNCHANGED <<queueVars, rowVars, consumerVars, attempt, permitVars, inventory, resetPc,
                 resetAborts, cutoff, now, sinkVars, historyVars, proofVars>>

Tick ==
  /\ now < MaxNow
  /\ now' = now + 1
  /\ UNCHANGED <<queueVars, rowVars, consumerVars, attempt, permitVars, appVars, cutoff,
                 version, sinkVars, historyVars, proofVars>>

----------------------------------------------------------------------------
ConsumerStep(m) ==
  \/ AdmitAtApp(m) \/ AdmitAtEntity(m)
  \/ CompleteAtEntity(m) \/ ReleaseAtApp(m)
  \/ BeginAttempt(m) \/ Send(m) \/ TinybirdAnswers(m)
  \/ RecordOutcome(m) \/ TransferTerminal(m) \/ MarkTransferred(m)

ConsumerFault(m) ==
  \/ AdmissionFails(m) \/ CompletionFails(m) \/ BeginFails(m) \/ RecordFails(m)
  \/ ConsumerDies(m)

ResetStep == ResetApp \/ (\E e \in Entities : PurgeEntity(e)) \/ ProveReset \/ CompleteReset

Next ==
  \/ \E m \in Messages :
       \/ Enqueue(m) \/ Deliver(m) \/ ConsumerStep(m) \/ ConsumerFault(m)
       \/ LandAbandoned(m) \/ CleanupAttempt(m)
  \/ \E e \in Entities : Delete(e) \/ \E c \in 1..now : Suppress(e, c)
  \/ ResetStep \/ AbortReset \/ Tick

Spec == Init /\ [][Next]_vars

(***************************************************************************)
(* The queue delivers a queued message, an invocation that does not die    *)
(* goes on, and the control plane repeats a refused reset.  A consumer     *)
(* that waits for the App authority between two resets gets its turn       *)
(* (DeliveryResetLock!DeliveryResumes), hence strong fairness.  Faults,    *)
(* late requests and the start of a reset are not fair.                    *)
(***************************************************************************)
Fairness ==
  /\ \A m \in Messages : WF_vars(Deliver(m)) /\ SF_vars(ConsumerStep(m))
  /\ WF_vars(suppression # 0 /\ ResetStep)

FairSpec == Spec /\ Fairness

----------------------------------------------------------------------------
\* The shapes of the variables.
TypeOK ==
  /\ queue \in [Messages -> {"unsent", "queued", "inflight", "acked", "dead"}]
  /\ deliveries \in [Messages -> 0..MaxDeliveries]
  /\ rowEntity \in [Messages -> Entities \cup {NoEntity}]
  /\ rowVersion \in [Messages -> 0..MaxVersion]
  /\ received \in [Messages -> 0..MaxNow]
  /\ pc \in [Messages -> {"idle", "admit", "entity", "begin", "send", "wait", "mark",
                          "deadletter", "transferred", "complete", "release"}]
  /\ arg \in [Messages -> {"none"} \cup Outcomes \cup Settlements]
  /\ attempt \in [Messages -> Attempts]
  /\ appPermits \subseteq Messages /\ entityPermits \subseteq Messages
  /\ active \in 0..MaxVersion /\ suppression \in 0..MaxVersion
  /\ inventory \subseteq Entities
  /\ cutoff \in [Entities -> 0..MaxNow]
  /\ resetPc \in {"idle", "purging"} /\ resetAborts \in 0..MaxResetAborts
  /\ version \in 1..MaxVersion /\ now \in 1..MaxNow
  /\ tinybird \in [Messages -> Nat] /\ abandoned \in [Messages -> Nat]
  /\ refused \in [Messages -> Nat]
  /\ deadLetter \subseteq Messages /\ suppressed \subseteq Messages
  /\ deletionProof \in [Entities -> 0..MaxNow]
  /\ resetProof \subseteq 1..MaxVersion
  /\ late \subseteq Messages /\ lateAbandoned \subseteq Messages

(***************************************************************************)
(* Only what Tinybird refused is sent again ("only a durable retryable     *)
(* outcome can authorize another request", ADR-0043): redeliveries, lost   *)
(* answers, timeouts and deaths of a consumer add no physical row of their *)
(* own.  A refusal does not rule out a commit, so the row may be there     *)
(* once more for each refusal; ADR-0043 leaves those to downstream dedup.  *)
(***************************************************************************)
OnlyRefusedIsResent == \A m \in Messages : tinybird[m] + abandoned[m] <= 1 + refused[m]

(***************************************************************************)
(* No row is dropped silently: an acknowledged message was appended, or    *)
(* copied to the DLQ for an operator, or withheld by a privacy operation.  *)
(***************************************************************************)
AckedIsAccountedFor ==
  \A m \in Messages : queue[m] = "acked" =>
    tinybird[m] > 0 \/ m \in deadLetter \/ m \in suppressed

(***************************************************************************)
(* After a deletion or reset proof no row it covers is appended by a       *)
(* consumer that is waiting for the answer: the durable permits hold the   *)
(* proof back across the gap between admission and append.                 *)
(***************************************************************************)
NoAttendedAppendAfterProof == late = {}

(***************************************************************************)
(* An acknowledged message leaves no permit behind, at either authority:   *)
(* such a permit would refuse every later deletion and reset.              *)
(***************************************************************************)
AckedHoldsNoPermit ==
  \A m \in Messages : queue[m] = "acked" => m \notin appPermits /\ m \notin entityPermits

(***************************************************************************)
(* Every queued message is eventually acknowledged or, after the last      *)
(* delivery, moved to the DLQ by the queue.                                *)
(***************************************************************************)
MessageSettles ==
  \A m \in Messages : queue[m] = "queued" ~> queue[m] \in {"acked", "dead"}

(***************************************************************************)
(* A reset that has been started completes, unless a message was moved to  *)
(* the DLQ by the queue while it held a permit that nobody releases.       *)
(***************************************************************************)
LeakedPermit ==
  \E m \in Messages : queue[m] = "dead" /\ m \in appPermits \cup entityPermits

ResetConverges == suppression # 0 ~> suppression = 0 \/ LeakedPermit

(***************************************************************************)
(* ADR-0043: suppression or App reset "refuses deletion proof while any    *)
(* permit remains, so a queued batch cannot append after proof".           *)
(***************************************************************************)
NoAppendAfterProof == late \cup lateAbandoned = {}
=============================================================================
