-------------------------- MODULE EvaluationCommit -------------------------
(***************************************************************************)
(* The durable commit of one remote Evaluation: its usage row and Exposure *)
(* rows are sealed in an outbox under the caller's idempotency key, then   *)
(* published to the raw queues, while retries of the same key, an Entity   *)
(* deletion and an App identity reset interleave.                          *)
(*                                                                         *)
(*   request    handleEvaluationCommit (evaluation-commit.ts), with the    *)
(*              inventory calls of evaluation-commit-privacy.ts            *)
(*   outbox     EvaluationCommitOutboxDurableObject, one per key           *)
(*   App/Entity the privacy authorities: which commits and rows they know  *)
(*                                                                         *)
(* One commit identity.  The identity hashes the identity version, so all  *)
(* requests carry version 1; a reset moves the App to version 2.  An       *)
(* outbox request is one action: its storage input gate is closed from the *)
(* first read to the last write.  Time is only what the code compares:     *)
(* whether the 24-hour replay window is over, and server_received_at       *)
(* against a deletion cutoff.                                              *)
(***************************************************************************)
EXTENDS Naturals, FiniteSets

CONSTANTS
  Requests,            \* calls of /internal/evaluation-commits with the same key
  Rows,                \* Exposure rows, known by their event_id
  RowsOf,              \* the Exposure rows a request carries
  Entities, EntityOf,  \* the Entity of a row
  MaxNow,              \* bound on the clock
  MaxSeals,            \* bound on commits sealed under the key
  MaxPublishFailures,  \* bound on failed publications
  Resets               \* whether an App identity reset happens: TRUE or FALSE

ASSUME CommitAssumption ==
  /\ RowsOf \in [Requests -> SUBSET Rows]
  /\ \A p, q \in Requests : p # q => RowsOf[p] \cap RowsOf[q] = {}
  /\ EntityOf \in [Rows -> Entities]
  /\ MaxNow \in Nat \ {0} /\ MaxSeals \in Nat \ {0} /\ MaxPublishFailures \in Nat
  /\ Resets \in BOOLEAN

VARIABLES
  pc, rowPc, received,        \* requests; their rows' registration; server_received_at
  accepted,                   \* the commit a request answered 202 with (0 is none)
  outbox, tombstone, redacted,\* OutboxState, PRIVACY_DELETED_KEY, REDACTED_EVENT_IDS_KEY
  alarm, publisher,           \* the alarm slot and the alarm handler that publishes
  seals, failures,            \* commits sealed so far, failed publications so far
  queued,                     \* rows handed to the raw queues, as <<commit, row>>
  active, resetPc, appCommit, appEntities,   \* App authority
  cutoff, entries,                           \* Entity authorities
  now,
  deletionProof, resetProof, lateQueued,     \* history
  erased                                     \* history: redactions and tombstone an expiry took

requestVars == <<pc, rowPc, received, accepted>>
outboxVars == <<outbox, tombstone, redacted, alarm, erased>>
publishVars == <<publisher, failures, queued, lateQueued>>
appVars == <<active, resetPc, appCommit, appEntities>>
entityVars == <<cutoff, entries, deletionProof>>

vars == <<requestVars, outboxVars, publishVars, seals, appVars, entityVars, now, resetProof>>

Usage == "usage"    \* the usage row of a commit, as an element of queued
NoCommit == [commit |-> 0]

DeliveryStates == {"sealed", "pending", "publishing", "delivered"}

Stored == outbox.commit # 0
IsPublishable == outbox.state # "sealed"
IsDelivered == outbox.state = "delivered" \/ outbox.privacyDeleted

\* isCurrent: inside the replay window, or still to be published.
IsCurrent == Stored /\ (~outbox.expired \/ (IsPublishable /\ ~IsDelivered))

Init ==
  /\ pc = [q \in Requests |-> "idle"]
  /\ rowPc = [x \in Rows |-> "todo"]
  /\ received = [x \in Rows |-> 0]
  /\ accepted = [q \in Requests |-> 0]
  /\ outbox = NoCommit /\ tombstone = FALSE /\ redacted = {}
  /\ alarm = "none" /\ publisher = "idle"
  /\ seals = 0 /\ failures = 0
  /\ queued = {}
  /\ active = 0 /\ resetPc = "idle" /\ appCommit = FALSE /\ appEntities = {}
  /\ cutoff = [e \in Entities |-> 0]
  /\ entries = {}
  /\ now = 1
  /\ deletionProof = [e \in Entities |-> 0]
  /\ resetProof = FALSE /\ lateQueued = {} /\ erased = {}

----------------------------------------------------------------------------
(* Routes of the outbox that several callers use.                          *)

\* Both privacy routes answer 409 while a publication is unresolved.
Unresolved == IsCurrent /\ outbox.state = "publishing"

\* privacyDelete(eventIds): the ids are kept for a commit that is still to be sealed.
PrivacyDelete(rows) ==
  /\ ~Unresolved
  /\ redacted' = redacted \cup rows
  /\ outbox' = IF IsCurrent THEN [outbox EXCEPT !.rows = @ \ rows] ELSE outbox
  /\ UNCHANGED <<tombstone, alarm, erased>>

\* privacyDeleteAll: leaves a tombstone for a commit that is still to be sealed.
PrivacyDeleteAll ==
  /\ ~Unresolved
  /\ tombstone' = TRUE
  /\ outbox' = IF IsCurrent THEN [outbox EXCEPT !.rows = {}, !.privacyDeleted = TRUE]
                            ELSE outbox
  /\ UNCHANGED <<redacted, alarm, erased>>

SchedulePublication == alarm' = "publish"

----------------------------------------------------------------------------
(* The request.                                                            *)

Goto(q, label) == pc' = [pc EXCEPT ![q] = label]

Accept(q) ==
  /\ Goto(q, "accepted")
  /\ accepted' = [accepted EXCEPT ![q] = outbox.commit]

\* The Evaluation Worker sends the commit; its rows carry the present time.
Start(q) ==
  /\ pc[q] = "idle"
  /\ Goto(q, "lookup")
  /\ received' = [x \in Rows |-> IF x \in RowsOf[q] THEN now ELSE received[x]]
  /\ UNCHANGED <<rowPc, accepted, outboxVars, publishVars, seals, appVars, entityVars, now,
                 resetProof>>

\* /lookup: a commit that is ready answers; a sealed one has to be confirmed and activated.
Lookup(q) ==
  /\ pc[q] = "lookup"
  /\ \/ ~IsCurrent /\ Goto(q, "charge") /\ UNCHANGED <<accepted, alarm>>
     \/ IsCurrent /\ IsPublishable /\ Accept(q)
        /\ IF IsDelivered THEN UNCHANGED alarm ELSE SchedulePublication
     \/ IsCurrent /\ ~IsPublishable
        /\ Goto(q, IF outbox.privacyDeleted THEN "failed" ELSE "confirm")
        /\ UNCHANGED <<accepted, alarm>>
  /\ UNCHANGED <<rowPc, received, outbox, tombstone, redacted, erased, publishVars, seals, appVars,
                 entityVars, now, resetProof>>

\* The admission gate charges a commit once, before anything durable is written.
Charge(q) ==
  /\ pc[q] = "charge"
  /\ Goto(q, "register") \/ Goto(q, "failed")
  /\ UNCHANGED <<rowPc, received, accepted, outboxVars, publishVars, seals, appVars,
                 entityVars, now, resetProof>>

\* admitVersion at the App authority, under the shared side of its lock.
AppOpen == resetPc = "idle"
AdmitsVersion == active \in {0, 1}

\* Registration of the commit: before the seal, and again after it as the confirmation.
RegisterCommit(q, from, to) ==
  /\ pc[q] = from /\ AppOpen
  /\ IF AdmitsVersion
     THEN active' = 1 /\ appCommit' = TRUE /\ Goto(q, to)
     ELSE Goto(q, "purge") /\ UNCHANGED <<active, appCommit>>
  /\ UNCHANGED <<rowPc, received, accepted, outboxVars, publishVars, seals, resetPc,
                 appEntities, entityVars, now, resetProof>>

RegisterApp(q) == RegisterCommit(q, "register", "rows")

\* Mutant: the sealed commit is activated without asking the App again.
ConfirmSkipped(q) ==
  /\ pc[q] = "confirm"
  /\ Goto(q, "activate")
  /\ UNCHANGED <<rowPc, received, accepted, outboxVars, publishVars, seals, appVars,
                 entityVars, now, resetProof>>

Confirm(q) == RegisterCommit(q, "confirm", "activate")

\* The App refused the version: purge what may be sealed, answer 503.
Purge(q) ==
  /\ pc[q] = "purge"
  /\ Goto(q, "failed")
  /\ IF Unresolved THEN UNCHANGED outboxVars ELSE PrivacyDeleteAll
  /\ UNCHANGED <<rowPc, received, accepted, publishVars, seals, appVars, entityVars, now,
                 resetProof>>

\* /register-app-entity for one row, concurrently with the other rows.
RegisterAppEntity(q, x) ==
  /\ pc[q] = "rows" /\ x \in RowsOf[q] /\ rowPc[x] = "todo" /\ AppOpen
  /\ IF AdmitsVersion
     THEN /\ active' = 1
          /\ appEntities' = appEntities \cup {EntityOf[x]}
          /\ rowPc' = [rowPc EXCEPT ![x] = "entity"]
     ELSE rowPc' = [rowPc EXCEPT ![x] = "suppressed"] /\ UNCHANGED <<active, appEntities>>
  /\ UNCHANGED <<pc, received, accepted, outboxVars, publishVars, seals, resetPc, appCommit,
                 entityVars, now, resetProof>>

\* /register-evaluation at the row's Entity.
RegisterEvaluation(q, x) ==
  /\ pc[q] = "rows" /\ x \in RowsOf[q] /\ rowPc[x] = "entity"
  /\ IF received[x] <= cutoff[EntityOf[x]]
     THEN rowPc' = [rowPc EXCEPT ![x] = "suppressed"] /\ UNCHANGED entries
     ELSE rowPc' = [rowPc EXCEPT ![x] = "registered"] /\ entries' = entries \cup {x}
  /\ UNCHANGED <<pc, received, accepted, outboxVars, publishVars, seals, appVars, cutoff,
                 deletionProof, now, resetProof>>

\* All rows have answered: the suppressed ones are redacted before the seal.
Redact(q) ==
  /\ pc[q] = "rows"
  /\ \A x \in RowsOf[q] : rowPc[x] \in {"registered", "suppressed"}
  /\ LET rows == {x \in RowsOf[q] : rowPc[x] = "suppressed"}
     IN  \/ rows = {} /\ Goto(q, "seal") /\ UNCHANGED outboxVars
         \/ rows # {} /\ PrivacyDelete(rows) /\ Goto(q, "seal")
         \/ rows # {} /\ Unresolved /\ Goto(q, "failed") /\ UNCHANGED outboxVars
  /\ UNCHANGED <<rowPc, received, accepted, publishVars, seals, appVars, entityVars, now,
                 resetProof>>

\* Mutant: the redaction list is not read again when the commit is sealed.
SealedRowsUnredacted(q) == RowsOf[q]

SealedRows(q) == RowsOf[q] \ redacted

\* Mutant: the payload of a retry replaces what is sealed.
SealOverwrites(q) ==
  /\ pc[q] = "seal" /\ seals < MaxSeals
  /\ Goto(q, "confirm")
  /\ seals' = seals + 1
  /\ outbox' = [commit |-> seals + 1,
                rows |-> IF tombstone THEN {} ELSE SealedRows(q),
                state |-> IF tombstone THEN "delivered" ELSE "sealed",
                privacyDeleted |-> tombstone,
                expired |-> FALSE]
  /\ alarm' = "expiry"
  /\ UNCHANGED <<rowPc, received, accepted, tombstone, redacted, erased, publishVars, appVars,
                 entityVars, now, resetProof>>

\* /commit: the first request seals; a later one gets what is sealed already.
Seal(q) ==
  /\ pc[q] = "seal"
  /\ Goto(q, "confirm")
  /\ IF IsCurrent
     THEN /\ IF IsPublishable /\ ~IsDelivered THEN SchedulePublication ELSE UNCHANGED alarm
          /\ UNCHANGED <<outbox, seals>>
     ELSE /\ seals < MaxSeals
          /\ seals' = seals + 1
          /\ outbox' = [commit |-> seals + 1,
                        rows |-> IF tombstone THEN {} ELSE SealedRows(q),
                        state |-> IF tombstone THEN "delivered" ELSE "sealed",
                        privacyDeleted |-> tombstone,
                        expired |-> FALSE]
          /\ alarm' = "expiry"
  /\ UNCHANGED <<rowPc, received, accepted, tombstone, redacted, erased, publishVars, appVars,
                 entityVars, now, resetProof>>

\* /activate: the confirmed commit becomes publishable and the request answers 202.
Activate(q) ==
  /\ pc[q] = "activate"
  /\ IF ~IsCurrent
     THEN Goto(q, "failed") /\ UNCHANGED <<accepted, outbox, alarm>>
     ELSE /\ Accept(q)
          /\ IF IsDelivered
             THEN alarm' = "expiry" /\ UNCHANGED outbox
             ELSE /\ SchedulePublication
                  /\ outbox' = IF outbox.state = "sealed"
                               THEN [outbox EXCEPT !.state = "pending"] ELSE outbox
  /\ UNCHANGED <<rowPc, received, tombstone, redacted, erased, publishVars, seals, appVars,
                 entityVars, now, resetProof>>

\* A call fails or the request dies: 503, and the client may retry with the same key.
Fail(q) ==
  /\ pc[q] \notin {"idle", "accepted", "failed"}
  /\ Goto(q, "failed")
  /\ UNCHANGED <<rowPc, received, accepted, outboxVars, publishVars, seals, appVars,
                 entityVars, now, resetProof>>

----------------------------------------------------------------------------
(* The alarm of the outbox.                                                *)

\* The replay window of the stored commit ends.
WindowEnds ==
  /\ Stored /\ ~outbox.expired
  /\ outbox' = [outbox EXCEPT !.expired = TRUE]
  /\ UNCHANGED <<requestVars, tombstone, redacted, erased, alarm, publishVars, seals, appVars,
                 entityVars, now, resetProof>>

\* What an expiry takes with it: redactions, and a tombstone under a request that is yet
\* to seal while another one is about to activate.
ErasedByExpiry ==
  LET sealing == \E q \in Requests : pc[q] \in {"rows", "seal"}
      activating == \E q \in Requests : pc[q] = "activate"
  IN  redacted \cup (IF tombstone /\ sealing /\ activating THEN {Usage} ELSE {})

\* expireOrSchedule
ExpireOrSchedule ==
  IF outbox.expired
  THEN /\ outbox' = NoCommit /\ tombstone' = FALSE /\ redacted' = {} /\ alarm' = "none"
       /\ erased' = erased \cup ErasedByExpiry
  ELSE alarm' = "expiry" /\ UNCHANGED <<outbox, tombstone, redacted, erased>>

AlarmDue == alarm \in {"publish", "retry"} \/ (alarm = "expiry" /\ Stored /\ outbox.expired)

\* alarm() with nothing to publish.
AlarmExpires ==
  /\ publisher = "idle"
  /\ AlarmDue /\ Stored /\ (outbox.state = "sealed" \/ IsDelivered)
  /\ ExpireOrSchedule
  /\ UNCHANGED <<requestVars, publishVars, seals, appVars, entityVars, now, resetProof>>

\* alarm() of a publishable commit: publishing is durable before the first send.
AlarmPublishes ==
  /\ publisher = "idle"
  /\ AlarmDue /\ Stored /\ outbox.state # "sealed" /\ ~IsDelivered
  /\ outbox' = [outbox EXCEPT !.state = "publishing"]
  /\ alarm' = "none"
  /\ publisher' = "usage"
  /\ UNCHANGED <<requestVars, tombstone, redacted, erased, failures, queued, lateQueued, seals,
                 appVars, entityVars, now, resetProof>>

\* Rows queued after the App reset was proved.
QueueRows(rows) ==
  /\ queued' = queued \cup rows
  /\ lateQueued' = IF resetProof THEN lateQueued \cup rows ELSE lateQueued

\* enqueueRawEvent(raw_evaluations)
PublishUsage ==
  /\ publisher = "usage"
  /\ QueueRows({<<outbox.commit, Usage>>})
  /\ publisher' = "rows"
  /\ UNCHANGED <<requestVars, outboxVars, failures, seals, appVars, entityVars, now, resetProof>>

\* enqueueRawEvents(raw_events), then the delivered state.
PublishRows ==
  /\ publisher = "rows"
  /\ QueueRows({outbox.commit} \X outbox.rows)
  /\ publisher' = "finish"
  /\ UNCHANGED <<requestVars, outboxVars, failures, seals, appVars, entityVars, now, resetProof>>

\* Mutant: the delivered state is not written.
FinishPublishUnrecorded ==
  /\ publisher = "finish"
  /\ publisher' = "idle"
  /\ ExpireOrSchedule
  /\ UNCHANGED <<requestVars, failures, queued, lateQueued, seals, appVars, entityVars, now,
                 resetProof>>

FinishPublish ==
  /\ publisher = "finish"
  /\ publisher' = "idle"
  /\ IF outbox.expired
     THEN ExpireOrSchedule
     ELSE /\ outbox' = [outbox EXCEPT !.state = "delivered"]
          /\ alarm' = "expiry"
          /\ UNCHANGED <<tombstone, redacted, erased>>
  /\ UNCHANGED <<requestVars, failures, queued, lateQueued, seals, appVars, entityVars, now,
                 resetProof>>

\* Mutant: a failed publication leaves the state at publishing and sets no alarm.
PublishFailsSilently ==
  /\ publisher \in {"usage", "rows"} /\ failures < MaxPublishFailures
  /\ failures' = failures + 1
  /\ publisher' = "idle"
  /\ UNCHANGED <<requestVars, outboxVars, queued, lateQueued, seals, appVars, entityVars, now,
                 resetProof>>

\* A send fails: retryPublication puts the commit back to pending and sets the alarm.
PublishFails ==
  /\ publisher \in {"usage", "rows"} /\ failures < MaxPublishFailures
  /\ failures' = failures + 1
  /\ publisher' = "idle"
  /\ outbox' = [outbox EXCEPT !.state = "pending"]
  /\ alarm' = "retry"
  /\ UNCHANGED <<requestVars, tombstone, redacted, erased, queued, lateQueued, seals, appVars,
                 entityVars, now, resetProof>>

\* The outbox object restarts in the middle: the platform runs the alarm again.
PublisherDies ==
  /\ publisher # "idle" /\ failures < MaxPublishFailures
  /\ failures' = failures + 1
  /\ publisher' = "idle"
  /\ alarm' = "retry"
  /\ UNCHANGED <<requestVars, outbox, tombstone, redacted, erased, queued, lateQueued, seals,
                 appVars, entityVars, now, resetProof>>

----------------------------------------------------------------------------
(* Entity deletion and App reset.                                          *)

\* Mutant: the cutoff is one past the time that was asked for.
SuppressAhead(e, c) ==
  /\ c > cutoff[e]
  /\ cutoff' = [cutoff EXCEPT ![e] = c + 1]
  /\ UNCHANGED <<requestVars, outboxVars, publishVars, seals, appVars, entries, deletionProof,
                 now, resetProof>>

\* /suppress: the cutoff of an Entity only moves forward.
Suppress(e, c) ==
  /\ c > cutoff[e]
  /\ cutoff' = [cutoff EXCEPT ![e] = c]
  /\ UNCHANGED <<requestVars, outboxVars, publishVars, seals, appVars, entries, deletionProof,
                 now, resetProof>>

EntriesOf(e) == {x \in entries : EntityOf[x] = e}

\* deleteRecords: redact every registered row in the outbox, then forget the entries.
DeleteRecords(e, at) ==
  /\ IF EntriesOf(e) = {} THEN UNCHANGED outboxVars ELSE PrivacyDelete(EntriesOf(e))
  /\ entries' = entries \ EntriesOf(e)
  /\ deletionProof' = [deletionProof EXCEPT ![e] = at]

Delete(e) ==
  /\ cutoff[e] > deletionProof[e]
  /\ DeleteRecords(e, cutoff[e])
  /\ UNCHANGED <<requestVars, publishVars, seals, appVars, cutoff, now, resetProof>>

\* /reset-app: suppression first, then the purge, with the App's lock held exclusively.
ResetApp ==
  /\ Resets /\ resetPc = "idle" /\ active \in {0, 1, 3} /\ ~resetProof
  /\ active' = 3
  /\ resetPc' = "purging"
  /\ UNCHANGED <<requestVars, outboxVars, publishVars, seals, appCommit, appEntities,
                 entityVars, now, resetProof>>

\* purgeEvaluationCommits; a publication in progress ends the request with an error.
PurgeCommit ==
  /\ resetPc = "purging" /\ appCommit
  /\ \/ PrivacyDeleteAll /\ appCommit' = FALSE /\ UNCHANGED resetPc
     \/ Unresolved /\ resetPc' = "idle"
        /\ UNCHANGED <<outboxVars, appCommit>>
  /\ UNCHANGED <<requestVars, publishVars, seals, active, appEntities, entityVars, now,
                 resetProof>>

\* purgeEntities
PurgeEntity(e) ==
  /\ resetPc = "purging" /\ ~appCommit /\ e \in appEntities
  /\ cutoff' = [cutoff EXCEPT ![e] = now]
  /\ \/ DeleteRecords(e, now) /\ appEntities' = appEntities \ {e} /\ UNCHANGED resetPc
     \/ /\ EntriesOf(e) # {} /\ Unresolved
        /\ resetPc' = "idle"
        /\ UNCHANGED <<outboxVars, entries, deletionProof, appEntities>>
  /\ UNCHANGED <<requestVars, publishVars, seals, active, appCommit, now, resetProof>>

ProveReset ==
  /\ resetPc = "purging" /\ ~appCommit /\ appEntities = {}
  /\ resetPc' = "idle" /\ resetProof' = TRUE
  /\ UNCHANGED <<requestVars, outboxVars, publishVars, seals, active, appCommit, appEntities,
                 entityVars, now>>

CompleteReset ==
  /\ resetPc = "idle" /\ resetProof /\ active = 3 /\ ~appCommit /\ appEntities = {}
  /\ active' = 2
  /\ UNCHANGED <<requestVars, outboxVars, publishVars, seals, resetPc, appCommit,
                 appEntities, entityVars, now, resetProof>>

Tick ==
  /\ now < MaxNow /\ now' = now + 1
  /\ UNCHANGED <<requestVars, outboxVars, publishVars, seals, appVars, entityVars, resetProof>>

----------------------------------------------------------------------------
RequestStep(q) ==
  \/ Lookup(q) \/ Charge(q) \/ RegisterApp(q) \/ Confirm(q) \/ Purge(q)
  \/ \E x \in Rows : RegisterAppEntity(q, x) \/ RegisterEvaluation(q, x)
  \/ Redact(q) \/ Seal(q) \/ Activate(q)

AlarmStep ==
  AlarmExpires \/ AlarmPublishes \/ PublishUsage \/ PublishRows \/ FinishPublish

Next ==
  \/ \E q \in Requests : Start(q) \/ RequestStep(q) \/ Fail(q)
  \/ AlarmStep \/ PublishFails \/ PublisherDies \/ WindowEnds
  \/ \E e \in Entities : Delete(e) \/ PurgeEntity(e) \/ \E c \in 1..now : Suppress(e, c)
  \/ ResetApp \/ PurgeCommit \/ ProveReset \/ CompleteReset \/ Tick

Spec == Init /\ [][Next]_vars

(***************************************************************************)
(* The platform runs a due alarm, and a privacy operation that was refused *)
(* is repeated.  Requests may stop anywhere.                               *)
(***************************************************************************)
Fairness ==
  /\ WF_vars(AlarmStep)
  /\ \A e \in Entities : WF_vars(Delete(e))

FairSpec == Spec /\ Fairness

----------------------------------------------------------------------------
OutboxStates ==
  {NoCommit} \cup [commit : 1..MaxSeals, rows : SUBSET Rows, state : DeliveryStates,
                   privacyDeleted : BOOLEAN, expired : BOOLEAN]

\* The shapes of the variables.
TypeOK ==
  /\ pc \in [Requests -> {"idle", "lookup", "charge", "register", "rows", "seal", "confirm",
                          "activate", "purge", "accepted", "failed"}]
  /\ rowPc \in [Rows -> {"todo", "entity", "registered", "suppressed"}]
  /\ received \in [Rows -> 0..MaxNow]
  /\ accepted \in [Requests -> 0..MaxSeals]
  /\ outbox \in OutboxStates
  /\ tombstone \in BOOLEAN /\ redacted \subseteq Rows /\ erased \subseteq Rows \cup {Usage}
  /\ alarm \in {"none", "publish", "retry", "expiry"}
  /\ publisher \in {"idle", "usage", "rows", "finish"}
  /\ seals \in 0..MaxSeals /\ failures \in 0..MaxPublishFailures
  /\ queued \subseteq (1..MaxSeals) \X (Rows \cup {Usage}) /\ lateQueued \subseteq queued
  /\ active \in 0..3 /\ resetPc \in {"idle", "purging"} /\ appCommit \in BOOLEAN
  /\ appEntities \subseteq Entities
  /\ cutoff \in [Entities -> 0..MaxNow] /\ entries \subseteq Rows
  /\ now \in 1..MaxNow
  /\ deletionProof \in [Entities -> 0..MaxNow]
  /\ resetProof \in BOOLEAN

(***************************************************************************)
(* Once an Entity's deletion is proved, a commit that can still be         *)
(* published holds none of the rows the proof covers, whichever of the     *)
(* request's steps the deletion fell between.  The one exception is a row  *)
(* whose redaction went with the expiry of an earlier commit of the key    *)
(* (expireOrSchedule deletes all three keys) before the row was sealed.    *)
(***************************************************************************)
ProvedDeletionIsRedacted ==
  \A x \in Rows \ erased :
    IsCurrent /\ x \in outbox.rows => received[x] > deletionProof[EntityOf[x]]

(***************************************************************************)
(* After the App reset is proved, nothing of the old identity is handed to *)
(* the raw queues, by no request that was already under way: a request     *)
(* that was registered finds the tombstone when it seals, and its second   *)
(* registration (confirmEvaluationCommitInventory) stops it when an expiry *)
(* has erased the tombstone.  The exception is an expiry that falls        *)
(* between the registration and the seal of one request while another has  *)
(* confirmed and is about to activate whatever is stored.                  *)
(***************************************************************************)
NothingQueuedAfterReset == Usage \notin erased => lateQueued = {}

(***************************************************************************)
(* Inside the replay window a retry finds the commit that was sealed first *)
(* ("a retry replays the same pair"), and its rows can only be taken away. *)
(***************************************************************************)
RetriesReplaySameCommit ==
  [][Stored /\ ~outbox.expired =>
       outbox'.commit = outbox.commit /\ outbox'.rows \subseteq outbox.rows]_vars

(***************************************************************************)
(* An accepted Evaluation is not lost: through failed sends, restarts and  *)
(* the end of the replay window, its usage row reaches the raw queue,      *)
(* unless an App reset started.                                            *)
(***************************************************************************)
AcceptedIsPublished ==
  \A q \in Requests : \A k \in 1..MaxSeals :
    accepted[q] = k ~> <<k, Usage>> \in queued \/ active \in {2, 3}

(***************************************************************************)
(* A publication cannot block a deletion for ever: every suppression of an *)
(* Entity is followed by a proof for that cutoff.                          *)
(***************************************************************************)
DeletionConverges ==
  \A e \in Entities : \A c \in 1..MaxNow : cutoff[e] = c ~> deletionProof[e] >= c
=============================================================================
