----------------------- MODULE EvaluationCommitProofs -----------------------
(***************************************************************************)
(* Proofs about the durable commit of an Evaluation, for every set of      *)
(* requests with the key and of Exposure rows, every number of Entities,   *)
(* of commits sealed, of failed publications and of clock values, with and *)
(* without an App reset.                                                   *)
(***************************************************************************)
EXTENDS EvaluationCommit, TLAPS

(* A publication in progress is of a commit that the privacy routes leave  *)
(* alone.                                                                  *)
PublisherInv ==
  publisher # "idle" => Stored /\ outbox.state = "publishing" /\ ~outbox.privacyDeleted

(* An Entity knows only rows that are newer than its proved deletion.      *)
EntityInv ==
  /\ \A e \in Entities : deletionProof[e] <= cutoff[e] /\ cutoff[e] <= now
  /\ \A x \in entries : rowPc[x] = "registered" /\ received[x] > deletionProof[EntityOf[x]]

(* A row that is on its way to the outbox is known to its Entity, or is    *)
(* redacted, or its redaction went with an expiry; what the outbox may     *)
(* still publish is known to its Entity.                                   *)
Kept == entries \cup redacted \cup erased
RowInv ==
  /\ \A q \in Requests : \A x \in RowsOf[q] :
       /\ pc[q] = "idle" => rowPc[x] = "todo"
       /\ pc[q] = "seal" => x \in Kept
  /\ \A x \in Rows : rowPc[x] = "registered" => x \in Kept
  /\ IsCurrent => outbox.rows \subseteq entries \cup erased

(* Once the App has refused the identity and purged the commit, what is    *)
(* sealed is void, or there is nobody left to activate it; and what is yet *)
(* to be sealed will find the tombstone, or will not be activated either.  *)
Sealing == \E q \in Requests : pc[q] \in {"rows", "seal"}
Activating == \E q \in Requests : pc[q] = "activate"
Fenced == active \in {2, 3} /\ ~appCommit
Void == IsCurrent => outbox.privacyDeleted \/ (outbox.state = "sealed" /\ ~Activating)
FenceInv ==
  /\ resetPc = "purging" => active = 3
  /\ resetProof => Fenced
  /\ active \in {0, 1} /\ ~appCommit => ~Stored /\ ~Sealing /\ ~Activating
  /\ Fenced /\ Usage \notin erased => Void /\ (tombstone \/ ~Sealing \/ ~Activating)

CommitInv ==
  TypeOK /\ PublisherInv /\ EntityInv /\ RowInv /\ FenceInv /\ NothingQueuedAfterReset

-----------------------------------------------------------------------------
(* The shapes of the variables, one group at a time. *)
Commits ==
  [commit : 1..MaxSeals, rows : SUBSET Rows, state : DeliveryStates, privacyDeleted : BOOLEAN,
   expired : BOOLEAN]
Labels ==
  {"idle", "lookup", "charge", "register", "rows", "seal", "confirm", "activate", "purge", "accepted",
   "failed"}

RequestPart ==
  /\ pc \in [Requests -> Labels]
  /\ rowPc \in [Rows -> {"todo", "entity", "registered", "suppressed"}]
  /\ received \in [Rows -> 0..MaxNow] /\ accepted \in [Requests -> 0..MaxSeals]
OutboxPart ==
  /\ outbox \in OutboxStates
  /\ tombstone \in BOOLEAN /\ redacted \subseteq Rows /\ erased \subseteq Rows \cup {Usage}
  /\ alarm \in {"none", "publish", "retry", "expiry"}
PublishPart ==
  /\ publisher \in {"idle", "usage", "rows", "finish"}
  /\ seals \in 0..MaxSeals /\ failures \in 0..MaxPublishFailures
  /\ queued \subseteq (1..MaxSeals) \X (Rows \cup {Usage}) /\ lateQueued \subseteq queued
AppPart ==
  /\ active \in 0..3 /\ resetPc \in {"idle", "purging"} /\ appCommit \in BOOLEAN
  /\ appEntities \subseteq Entities /\ resetProof \in BOOLEAN
EntityPart ==
  /\ cutoff \in [Entities -> 0..MaxNow] /\ entries \subseteq Rows
  /\ deletionProof \in [Entities -> 0..MaxNow] /\ now \in 1..MaxNow

LEMMA TypeParts ==
  TypeOK <=> RequestPart /\ OutboxPart /\ PublishPart /\ AppPart /\ EntityPart
BY DEF TypeOK, RequestPart, OutboxPart, PublishPart, AppPart, EntityPart, Labels

LEMMA Shapes ==
  ASSUME outbox \in OutboxStates
  PROVE  /\ Stored => outbox \in Commits
         /\ ~Stored => outbox = NoCommit
         /\ NoCommit.commit = 0 /\ NoCommit \in OutboxStates /\ Commits \subseteq OutboxStates
<1>1. outbox = NoCommit \/ outbox \in Commits
  BY DEF OutboxStates, Commits
<1>2. \A c \in Commits : c.commit # 0
  BY CommitAssumption DEF Commits
<1> QED BY <1>1, <1>2 DEF Stored, NoCommit, OutboxStates, Commits

(* What a write of the stored commit leaves. *)
LEMMA Writes ==
  ASSUME NEW c \in Commits, NEW s \in SUBSET Rows, NEW st \in DeliveryStates
  PROVE  /\ [c EXCEPT !.rows = s] \in Commits /\ [c EXCEPT !.rows = s].rows = s
         /\ [c EXCEPT !.rows = s].commit = c.commit /\ [c EXCEPT !.rows = s].state = c.state
         /\ [c EXCEPT !.rows = s].privacyDeleted = c.privacyDeleted
         /\ [c EXCEPT !.rows = s].expired = c.expired
         /\ [c EXCEPT !.state = st] \in Commits /\ [c EXCEPT !.state = st].rows = c.rows
         /\ [c EXCEPT !.state = st].commit = c.commit /\ [c EXCEPT !.state = st].state = st
         /\ [c EXCEPT !.state = st].privacyDeleted = c.privacyDeleted
         /\ [c EXCEPT !.state = st].expired = c.expired
<1>1. /\ [c EXCEPT !.rows = s] \in Commits /\ [c EXCEPT !.state = st] \in Commits
  BY DEF Commits
<1> QED BY <1>1 DEF Commits

LEMMA Voids ==
  ASSUME NEW c \in Commits
  PROVE  /\ [c EXCEPT !.rows = {}, !.privacyDeleted = TRUE] \in Commits
         /\ [c EXCEPT !.rows = {}, !.privacyDeleted = TRUE].rows = {}
         /\ [c EXCEPT !.rows = {}, !.privacyDeleted = TRUE].commit = c.commit
         /\ [c EXCEPT !.rows = {}, !.privacyDeleted = TRUE].state = c.state
         /\ [c EXCEPT !.rows = {}, !.privacyDeleted = TRUE].privacyDeleted
         /\ [c EXCEPT !.rows = {}, !.privacyDeleted = TRUE].expired = c.expired
         /\ [c EXCEPT !.expired = TRUE] \in Commits
         /\ [c EXCEPT !.expired = TRUE].rows = c.rows
         /\ [c EXCEPT !.expired = TRUE].commit = c.commit
         /\ [c EXCEPT !.expired = TRUE].state = c.state
         /\ [c EXCEPT !.expired = TRUE].privacyDeleted = c.privacyDeleted
         /\ [c EXCEPT !.expired = TRUE].expired
<1> DEFINE e == [c EXCEPT !.rows = {}]
           f == [e EXCEPT !.privacyDeleted = TRUE]
           g == [c EXCEPT !.expired = TRUE]
<1>1. e \in Commits /\ e.rows = {} /\ e.commit = c.commit /\ e.state = c.state /\ e.expired = c.expired
  BY DEF Commits
<1>2. [c EXCEPT !.rows = {}, !.privacyDeleted = TRUE] = f
  OBVIOUS
<1>3. /\ g \in Commits /\ g.rows = c.rows /\ g.commit = c.commit /\ g.state = c.state
      /\ g.privacyDeleted = c.privacyDeleted /\ g.expired
  BY DEF Commits
<1> HIDE DEF e, g
<1>4. f \in Commits /\ f.rows = e.rows /\ f.commit = e.commit /\ f.state = e.state /\ f.expired = e.expired
      /\ f.privacyDeleted
  BY <1>1 DEF Commits
<1> HIDE DEF f
<1>5. /\ f \in Commits /\ f.rows = {} /\ f.commit = c.commit /\ f.state = c.state /\ f.expired = c.expired
      /\ f.privacyDeleted
  BY <1>1, <1>4
<1> QED BY <1>2, <1>3, <1>5 DEF g

-----------------------------------------------------------------------------
(* What a step does to the stored commit: it keeps it and may take rows    *)
(* away, or a request seals another one, or it expires.                    *)
SameCommit ==
  /\ outbox' \in OutboxStates /\ outbox'.commit = outbox.commit
  /\ Stored => outbox'.rows \subseteq outbox.rows
  /\ IsCurrent' => IsCurrent
  /\ Stored => /\ outbox.privacyDeleted => outbox'.privacyDeleted
               /\ outbox.state = "sealed" => outbox'.state = "sealed" \/ Activating

LEMMA SameOutbox == ASSUME OutboxPart, UNCHANGED outbox PROVE SameCommit
BY DEF OutboxPart, SameCommit, IsCurrent, IsPublishable, IsDelivered, Stored

LEMMA PrivacyDeleteEffect ==
  ASSUME OutboxPart, NEW rows \in SUBSET Rows, PrivacyDelete(rows)
  PROVE  /\ SameCommit /\ redacted' = redacted \cup rows /\ UNCHANGED <<tombstone, alarm, erased>>
         /\ IsCurrent => outbox'.rows = outbox.rows \ rows
         /\ Stored => /\ outbox'.state = outbox.state /\ outbox'.privacyDeleted = outbox.privacyDeleted
                      /\ outbox'.expired = outbox.expired
<1>1. redacted' = redacted \cup rows /\ UNCHANGED <<tombstone, alarm, erased>>
  BY DEF PrivacyDelete
<1>2. CASE ~IsCurrent
  <2>1. outbox' = outbox
    BY <1>2 DEF PrivacyDelete
  <2> QED BY <1>1, <1>2, <2>1, SameOutbox
<1>3. CASE IsCurrent
  <2>1. outbox \in Commits /\ Stored
    BY <1>3, Shapes DEF IsCurrent, OutboxPart
  <2>2. outbox.rows \ rows \in SUBSET Rows /\ outbox.state \in DeliveryStates
    BY <2>1 DEF Commits
  <2>3. outbox' = [outbox EXCEPT !.rows = outbox.rows \ rows]
    BY <1>3, <2>1 DEF PrivacyDelete
  <2>4. /\ outbox' \in Commits /\ outbox'.rows = outbox.rows \ rows /\ outbox'.commit = outbox.commit
        /\ outbox'.state = outbox.state /\ outbox'.privacyDeleted = outbox.privacyDeleted
        /\ outbox'.expired = outbox.expired
    BY <2>1, <2>2, <2>3, Writes
  <2> QED BY <1>1, <1>3, <2>4, Shapes DEF SameCommit, OutboxPart
<1> QED BY <1>2, <1>3

LEMMA PrivacyDeleteAllEffect ==
  ASSUME OutboxPart, PrivacyDeleteAll
  PROVE  /\ SameCommit /\ tombstone' = TRUE /\ UNCHANGED <<redacted, alarm, erased>>
         /\ IsCurrent' => outbox'.privacyDeleted
<1>1. tombstone' = TRUE /\ UNCHANGED <<redacted, alarm, erased>>
  BY DEF PrivacyDeleteAll
<1>2. CASE ~IsCurrent
  <2>1. outbox' = outbox
    BY <1>2 DEF PrivacyDeleteAll
  <2>2. SameCommit
    BY <2>1, SameOutbox
  <2> QED BY <1>1, <1>2, <2>2 DEF SameCommit
<1>3. CASE IsCurrent
  <2>1. outbox \in Commits /\ Stored
    BY <1>3, Shapes DEF IsCurrent, OutboxPart
  <2>2. outbox' = [outbox EXCEPT !.rows = {}, !.privacyDeleted = TRUE]
    BY <1>3 DEF PrivacyDeleteAll
  <2>3. outbox' \in Commits /\ outbox'.rows = {} /\ outbox'.commit = outbox.commit
        /\ outbox'.privacyDeleted /\ outbox'.state = outbox.state
    BY <2>1, <2>2, Voids
  <2> QED BY <1>1, <1>3, <2>3, Shapes DEF SameCommit, OutboxPart
<1> QED BY <1>2, <1>3

\* The expiry of the stored commit erases all three keys.
Expires ==
  /\ Stored /\ outbox.expired /\ outbox' = NoCommit /\ tombstone' = FALSE /\ redacted' = {}
  /\ erased' = erased \cup ErasedByExpiry

LEMMA ExpiryEffect ==
  ASSUME OutboxPart, Stored, ExpireOrSchedule
  PROVE  /\ Expires \/ (UNCHANGED <<outbox, tombstone, redacted, erased>> /\ ~outbox.expired)
         /\ alarm' \in {"none", "expiry"}
BY DEF ExpireOrSchedule, Expires

\* A state that is written while the commit is current.
LEMMA StateEffect ==
  ASSUME OutboxPart, IsCurrent, outbox.state # "sealed" \/ Activating, NEW st \in DeliveryStates,
         outbox' = [outbox EXCEPT !.state = st]
  PROVE  /\ SameCommit /\ outbox'.rows = outbox.rows /\ outbox'.state = st /\ outbox'.expired = outbox.expired
         /\ outbox'.privacyDeleted = outbox.privacyDeleted
<1>1. outbox \in Commits
  BY Shapes DEF IsCurrent, OutboxPart
<1>2. /\ outbox' \in Commits /\ outbox'.rows = outbox.rows /\ outbox'.commit = outbox.commit
      /\ outbox'.state = st /\ outbox'.privacyDeleted = outbox.privacyDeleted
      /\ outbox'.expired = outbox.expired
  <2>1. {} \in SUBSET Rows
    OBVIOUS
  <2> QED BY <1>1, <2>1, Writes
<1> QED BY <1>2, Shapes DEF SameCommit, OutboxPart

\* A commit that is not stored past its window, or is published, is current.
LEMMA Current ==
  ASSUME OutboxPart
  PROVE  /\ Stored /\ outbox.state # "sealed" /\ ~IsDelivered => IsCurrent
         /\ PublisherInv /\ publisher # "idle" => IsCurrent /\ Unresolved /\ ~IsDelivered
         /\ ~Unresolved => (PublisherInv => publisher = "idle")
<1>1. Stored /\ outbox.state # "sealed" /\ ~IsDelivered => IsCurrent
  BY DEF IsCurrent, IsPublishable
<1>2. PublisherInv /\ publisher # "idle" => Stored /\ outbox.state = "publishing" /\ ~IsDelivered
  BY DEF PublisherInv, IsDelivered
<1> QED BY <1>1, <1>2 DEF Unresolved

\* The first seal of a key, or the first after an expiry.
Reseals(q) ==
  /\ pc[q] = "seal" /\ ~IsCurrent /\ seals < MaxSeals /\ seals' = seals + 1
  /\ outbox' \in Commits
  /\ outbox'.rows = (IF tombstone THEN {} ELSE SealedRows(q))
  /\ outbox'.state = (IF tombstone THEN "delivered" ELSE "sealed")
  /\ tombstone => outbox'.privacyDeleted
  /\ UNCHANGED <<tombstone, redacted, erased>>

LEMMA SealEffect ==
  ASSUME OutboxPart, PublishPart, NEW q \in Requests, Seal(q)
  PROVE  /\ (outbox' = outbox /\ seals' = seals) \/ Reseals(q)
         /\ alarm' \in {alarm, "publish", "expiry"}
<1>1. UNCHANGED <<tombstone, redacted, erased>> /\ pc[q] = "seal"
  BY DEF Seal
<1>2. CASE IsCurrent
  BY <1>2 DEF Seal, SchedulePublication
<1>3. CASE ~IsCurrent
  <2> DEFINE rows == IF tombstone THEN {} ELSE SealedRows(q)
             state == IF tombstone THEN "delivered" ELSE "sealed"
             erasure == tombstone
             k == seals + 1
  <2>1. /\ outbox' = [commit |-> k, rows |-> rows, state |-> state, privacyDeleted |-> erasure,
                      expired |-> FALSE]
        /\ seals < MaxSeals /\ seals' = k /\ alarm' = "expiry"
    BY <1>3 DEF Seal
  <2>2. /\ k \in 1..MaxSeals /\ rows \in SUBSET Rows /\ state \in DeliveryStates /\ erasure \in BOOLEAN
    <3>1. k \in 1..MaxSeals
      BY <2>1, CommitAssumption DEF PublishPart
    <3>2. RowsOf[q] \subseteq Rows
      BY CommitAssumption
    <3> QED BY <3>1, <3>2 DEF SealedRows, DeliveryStates, OutboxPart
  <2> HIDE DEF rows, state, erasure, k
  <2>3. outbox' \in Commits /\ outbox'.rows = rows /\ outbox'.state = state
    BY <2>1, <2>2 DEF Commits
  <2>4. outbox'.privacyDeleted = erasure
    BY <2>1
  <2> QED BY <1>1, <1>3, <2>1, <2>3, <2>4 DEF Reseals, rows, state, erasure, k
<1> QED BY <1>2, <1>3

\* Every step, by its effect on the keys of the outbox.
Redacts ==
  /\ tombstone' = tombstone /\ erased' = erased /\ redacted \subseteq redacted' /\ redacted' \subseteq Rows
Buries == tombstone' = TRUE /\ erased' = erased /\ redacted' = redacted

LEMMA DeleteRecordsEffect ==
  ASSUME OutboxPart, EntityPart, NEW e, NEW at, DeleteRecords(e, at)
  PROVE  /\ SameCommit /\ Redacts /\ alarm' = alarm
         /\ EntriesOf(e) \subseteq redacted'
         /\ IsCurrent => outbox'.rows \cap EntriesOf(e) = {}
         /\ Stored => /\ outbox'.state = outbox.state /\ outbox'.privacyDeleted = outbox.privacyDeleted
                      /\ outbox'.expired = outbox.expired
<1>1. EntriesOf(e) \in SUBSET Rows
  BY DEF EntriesOf, EntityPart
<1>2. CASE EntriesOf(e) = {}
  <2>1. UNCHANGED outboxVars
    BY <1>2 DEF DeleteRecords
  <2> QED BY <1>2, <2>1, SameOutbox DEF outboxVars, Redacts, OutboxPart
<1>3. CASE EntriesOf(e) # {}
  <2>1. PrivacyDelete(EntriesOf(e))
    BY <1>3 DEF DeleteRecords
  <2> QED BY <1>1, <2>1, PrivacyDeleteEffect DEF Redacts, OutboxPart
<1> QED BY <1>2, <1>3

LEMMA Effects ==
  ASSUME CommitInv, Next
  PROVE  /\ OutboxPart'
         /\ \/ SameCommit /\ (Redacts \/ Buries)
            \/ Expires
            \/ \E q \in Requests : Seal(q) /\ Reseals(q)
<1> DEFINE Effect == \/ SameCommit /\ (Redacts \/ Buries)
                     \/ Expires
                     \/ \E q \in Requests : Seal(q) /\ Reseals(q)
           Alarms == {"none", "publish", "retry", "expiry"}
<1>0. /\ TypeOK /\ PublisherInv /\ OutboxPart /\ EntityPart /\ PublishPart /\ alarm \in Alarms
      /\ redacted \subseteq Rows
  BY TypeParts DEF CommitInv, OutboxPart
<1>0a. (Effect /\ alarm' \in Alarms) => OutboxPart'
  <2>1. CASE SameCommit /\ (Redacts \/ Buries)
    BY <1>0, <2>1 DEF SameCommit, Redacts, Buries, OutboxPart
  <2>2. CASE Expires
    <3>1. ErasedByExpiry \subseteq Rows \cup {Usage}
      BY <1>0 DEF ErasedByExpiry
    <3>2. outbox' \in OutboxStates /\ tombstone' \in BOOLEAN /\ redacted' \subseteq Rows
      BY <1>0, <2>2, Shapes DEF Expires, OutboxPart
    <3>3. erased' \subseteq Rows \cup {Usage}
      BY <1>0, <2>2, <3>1 DEF Expires, OutboxPart
    <3> QED BY <3>2, <3>3 DEF OutboxPart
  <2>3. ASSUME NEW q \in Requests, Reseals(q), alarm' \in Alarms PROVE OutboxPart'
    <3>1. Commits \subseteq OutboxStates
      BY <1>0, Shapes DEF OutboxPart
    <3> QED BY <1>0, <2>3, <3>1 DEF Reseals, OutboxPart
  <2> QED BY <2>1, <2>2, <2>3
<1>0b. UNCHANGED <<outbox, tombstone, redacted, erased>> => Effect
  BY <1>0, SameOutbox DEF Redacts
<1>0c. ASSUME IsCurrent, outbox.state # "sealed" \/ Activating, UNCHANGED <<tombstone, redacted, erased>>,
              NEW st \in DeliveryStates, outbox' = [outbox EXCEPT !.state = st]
       PROVE  Effect
  BY <1>0, <1>0c, StateEffect DEF Redacts
<1>0d. {"publishing", "delivered", "pending"} \subseteq DeliveryStates
  BY DEF DeliveryStates
<1> HIDE DEF Effect, Alarms
<1>1. SUFFICES Effect /\ alarm' \in Alarms
  BY <1>0a DEF Effect
<1>2. ASSUME UNCHANGED outboxVars PROVE Effect /\ alarm' \in Alarms
  BY <1>0, <1>0b, <1>2 DEF outboxVars
<1>3. ASSUME NEW rows \in SUBSET Rows, PrivacyDelete(rows) PROVE Effect /\ alarm' \in Alarms
  BY <1>0, <1>3, PrivacyDeleteEffect DEF Redacts, Effect
<1>4. ASSUME PrivacyDeleteAll PROVE Effect /\ alarm' \in Alarms
  BY <1>0, <1>4, PrivacyDeleteAllEffect DEF Buries, Effect
<1>5. ASSUME NEW e, NEW at, DeleteRecords(e, at) PROVE Effect /\ alarm' \in Alarms
  BY <1>0, <1>5, DeleteRecordsEffect DEF Effect
<1>6. ASSUME NEW q \in Requests, Start(q) \/ RequestStep(q) \/ Fail(q) PROVE Effect /\ alarm' \in Alarms
  <2>1. CASE Start(q) \/ Charge(q) \/ RegisterApp(q) \/ Confirm(q) \/ Fail(q)
             \/ \E x \in Rows : RegisterAppEntity(q, x) \/ RegisterEvaluation(q, x)
    BY <1>2, <2>1 DEF Start, Charge, RegisterApp, Confirm, RegisterCommit, Fail, RegisterAppEntity,
       RegisterEvaluation
  <2>2. CASE Lookup(q)
    BY <1>0, <1>0b, <2>2 DEF Lookup, SchedulePublication, Alarms
  <2>3. CASE Purge(q)
    BY <1>2, <1>4, <2>3 DEF Purge
  <2>4. CASE Redact(q)
    <3>1. {x \in RowsOf[q] : rowPc[x] = "suppressed"} \in SUBSET Rows
      BY CommitAssumption
    <3> QED BY <1>2, <1>3, <2>4, <3>1 DEF Redact
  <2>5. CASE Seal(q)
    <3>1. UNCHANGED <<tombstone, redacted, erased>>
      BY <2>5 DEF Seal
    <3> QED BY <1>0, <1>0b, <2>5, <3>1, SealEffect DEF Effect, Alarms
  <2>6. CASE Activate(q)
    <3>1. UNCHANGED <<tombstone, redacted, erased>> /\ Activating /\ alarm' \in Alarms
      BY <1>0, <2>6 DEF Activate, Activating, SchedulePublication, Alarms
    <3>2. \/ outbox' = outbox
          \/ IsCurrent /\ outbox' = [outbox EXCEPT !.state = "pending"]
      BY <2>6 DEF Activate
    <3> QED BY <1>0b, <1>0c, <1>0d, <3>1, <3>2
  <2> QED BY <1>6, <2>1, <2>2, <2>3, <2>4, <2>5, <2>6 DEF RequestStep
<1>7. CASE AlarmStep \/ PublishFails \/ PublisherDies \/ WindowEnds
  <2>1. CASE AlarmExpires
    <3>1. Stored /\ ExpireOrSchedule
      BY <2>1 DEF AlarmExpires
    <3> QED BY <1>0, <1>0b, <3>1, ExpiryEffect DEF Effect, Alarms
  <2>2. CASE AlarmPublishes
    <3>1. IsCurrent /\ outbox.state # "sealed"
      BY <1>0, <2>2, Current DEF AlarmPublishes
    <3>2. /\ UNCHANGED <<tombstone, redacted, erased>> /\ alarm' = "none"
          /\ outbox' = [outbox EXCEPT !.state = "publishing"]
      BY <2>2 DEF AlarmPublishes
    <3> QED BY <1>0c, <1>0d, <3>1, <3>2 DEF Alarms
  <2>3. CASE PublishUsage \/ PublishRows
    BY <1>2, <2>3 DEF PublishUsage, PublishRows
  <2>4. CASE FinishPublish
    <3>1. IsCurrent /\ Stored /\ outbox.state # "sealed"
      BY <1>0, <2>4, Current DEF FinishPublish, PublisherInv
    <3>2. CASE outbox.expired
      <4>1. ExpireOrSchedule
        BY <2>4, <3>2 DEF FinishPublish
      <4> QED BY <1>0, <1>0b, <3>1, <4>1, ExpiryEffect DEF Effect, Alarms
    <3>3. CASE ~outbox.expired
      <4>1. /\ UNCHANGED <<tombstone, redacted, erased>> /\ alarm' = "expiry"
            /\ outbox' = [outbox EXCEPT !.state = "delivered"]
        BY <2>4, <3>3 DEF FinishPublish
      <4> QED BY <1>0c, <1>0d, <3>1, <4>1 DEF Alarms
    <3> QED BY <3>2, <3>3
  <2>5. CASE PublishFails
    <3>1. IsCurrent /\ outbox.state # "sealed"
      BY <1>0, <2>5, Current DEF PublishFails, PublisherInv
    <3>2. /\ UNCHANGED <<tombstone, redacted, erased>> /\ alarm' = "retry"
          /\ outbox' = [outbox EXCEPT !.state = "pending"]
      BY <2>5 DEF PublishFails
    <3> QED BY <1>0c, <1>0d, <3>1, <3>2 DEF Alarms
  <2>6. CASE PublisherDies
    BY <1>0b, <2>6 DEF PublisherDies, Alarms
  <2>7. CASE WindowEnds
    <3>1. outbox \in Commits /\ UNCHANGED <<tombstone, redacted, erased, alarm>>
      BY <1>0, <2>7, Shapes DEF WindowEnds, OutboxPart
    <3>2. /\ outbox' \in Commits /\ outbox'.rows = outbox.rows /\ outbox'.commit = outbox.commit
          /\ outbox'.state = outbox.state /\ outbox'.privacyDeleted = outbox.privacyDeleted
      BY <2>7, <3>1, Voids DEF WindowEnds
    <3>3. SameCommit
      BY <1>0, <2>7, <3>2, Shapes
         DEF SameCommit, WindowEnds, Stored, IsCurrent, IsPublishable, IsDelivered, OutboxPart
    <3> QED BY <1>0, <3>1, <3>3 DEF Effect, Redacts
  <2> QED BY <1>7, <2>1, <2>2, <2>3, <2>4, <2>5, <2>6, <2>7 DEF AlarmStep
<1>8. ASSUME NEW e \in Entities, Delete(e) \/ PurgeEntity(e) \/ \E c \in 1..now : Suppress(e, c)
      PROVE  Effect /\ alarm' \in Alarms
  BY <1>2, <1>5, <1>8 DEF Delete, PurgeEntity, Suppress
<1>9. CASE ResetApp \/ PurgeCommit \/ ProveReset \/ CompleteReset \/ Tick
  BY <1>2, <1>4, <1>9 DEF ResetApp, PurgeCommit, ProveReset, CompleteReset, Tick
<1> QED BY <1>6, <1>7, <1>8, <1>9 DEF Next

-----------------------------------------------------------------------------
(* What the steps do to the requests and to the Entities.                  *)
OtherStep ==
  \/ AlarmStep \/ PublishFails \/ PublisherDies \/ WindowEnds
  \/ \E e \in Entities : Delete(e) \/ PurgeEntity(e) \/ \E c \in 1..now : Suppress(e, c)
  \/ ResetApp \/ PurgeCommit \/ ProveReset \/ CompleteReset \/ Tick

LEMMA OtherFrame == ASSUME OtherStep PROVE UNCHANGED requestVars
BY DEF OtherStep, AlarmStep, AlarmExpires, AlarmPublishes, PublishUsage, PublishRows, FinishPublish, PublishFails,
   PublisherDies, WindowEnds, Delete, PurgeEntity, Suppress, ResetApp, PurgeCommit, ProveReset,
   CompleteReset, Tick

LEMMA StepKinds ==
  ASSUME Next PROVE (\E q \in Requests : Start(q) \/ RequestStep(q) \/ Fail(q)) \/ OtherStep
BY DEF Next, OtherStep

\* Where a request goes: it comes to its rows and to its activation only if the App admits it.
Told == {"idle", "rows", "seal", "activate"}
Comes(p) ==
  \/ pc'[p] = pc[p] \/ pc'[p] \notin Told
  \/ pc'[p] = "rows" /\ RegisterApp(p) /\ AdmitsVersion
  \/ pc'[p] = "activate" /\ Confirm(p) /\ AdmitsVersion
  \/ pc'[p] = "seal" /\ Redact(p)

LEMMA RequestComes ==
  ASSUME RequestPart, NEW q \in Requests, Start(q) \/ RequestStep(q) \/ Fail(q)
  PROVE  /\ pc' \in [Requests -> Labels]
         /\ \A p \in Requests : Comes(p) /\ (p # q => pc'[p] = pc[p])
<1> DEFINE Goal == /\ pc' \in [Requests -> Labels]
                   /\ \A p \in Requests : Comes(p) /\ (p # q => pc'[p] = pc[p])
<1>0. pc \in [Requests -> Labels]
  BY DEF RequestPart
<1>1. ASSUME NEW l \in Labels \ Told, Goto(q, l) PROVE Goal
  BY <1>0, <1>1 DEF Goto, Comes
<1>2. ASSUME pc' = pc PROVE Goal
  BY <1>0, <1>2 DEF Comes
<1>3. ASSUME NEW l \in Labels, Goto(q, l), Comes(q) PROVE Goal
  BY <1>0, <1>3 DEF Goto, Comes
<1>4. ASSUME NEW l \in Labels, Goto(q, l) PROVE pc'[q] = l
  BY <1>0, <1>4 DEF Goto
<1>5. {"lookup", "charge", "register", "confirm", "purge", "accepted", "failed"} \subseteq Labels \ Told
  BY DEF Labels, Told
<1>6. {"rows", "seal", "activate"} \subseteq Labels
  BY DEF Labels
<1>0a. SUFFICES Goal
  OBVIOUS
<1> HIDE DEF Goal
<1>7. CASE Start(q) \/ Lookup(q) \/ Charge(q) \/ Purge(q) \/ Seal(q) \/ Activate(q) \/ Fail(q)
  <2>1. \E l \in {"lookup", "charge", "register", "confirm", "purge", "accepted", "failed"} : Goto(q, l)
    BY <1>7 DEF Start, Lookup, Charge, Purge, Seal, Activate, Accept, Fail
  <2> QED BY <1>1, <1>5, <2>1
<1>8. CASE RegisterApp(q)
  <2>1. Goto(q, "purge") \/ (Goto(q, "rows") /\ AdmitsVersion)
    BY <1>8 DEF RegisterApp, RegisterCommit
  <2> QED BY <1>1, <1>3, <1>4, <1>5, <1>6, <1>8, <2>1 DEF Comes
<1>9. CASE Confirm(q)
  <2>1. Goto(q, "purge") \/ (Goto(q, "activate") /\ AdmitsVersion)
    BY <1>9 DEF Confirm, RegisterCommit
  <2> QED BY <1>1, <1>3, <1>4, <1>5, <1>6, <1>9, <2>1 DEF Comes
<1>10. CASE Redact(q)
  <2>1. Goto(q, "failed") \/ Goto(q, "seal")
    BY <1>10 DEF Redact
  <2> QED BY <1>1, <1>3, <1>4, <1>5, <1>6, <1>10, <2>1 DEF Comes
<1>11. ASSUME NEW x \in Rows, RegisterAppEntity(q, x) \/ RegisterEvaluation(q, x) PROVE Goal
  BY <1>2, <1>11 DEF RegisterAppEntity, RegisterEvaluation
<1> QED BY <1>7, <1>8, <1>9, <1>10, <1>11 DEF RequestStep

LEMMA PcMoves ==
  ASSUME CommitInv, Next
  PROVE  pc' \in [Requests -> Labels] /\ \A p \in Requests : Comes(p)
<1>1. RequestPart
  BY TypeParts DEF CommitInv
<1>2. CASE OtherStep
  BY <1>1, <1>2, OtherFrame DEF requestVars, RequestPart, Comes
<1> QED BY <1>1, <1>2, RequestComes, StepKinds

\* A row is answered for while its request waits for its rows.
RowMoves(x) ==
  \/ rowPc'[x] = rowPc[x]
  \/ \E q \in Requests : /\ x \in RowsOf[q] /\ pc[q] = "rows" /\ pc'[q] = "rows"
                         /\ rowPc'[x] \in {"entity", "registered", "suppressed"}
                         /\ rowPc[x] # "registered"
                         /\ rowPc'[x] = "registered" => x \in entries'

LEMMA RowsMove ==
  ASSUME CommitInv, Next
  PROVE  /\ rowPc' \in [Rows -> {"todo", "entity", "registered", "suppressed"}]
         /\ \A x \in Rows : RowMoves(x)
<1>0. RequestPart /\ EntityPart
  BY TypeParts DEF CommitInv
<1>1. CASE rowPc' = rowPc
  BY <1>0, <1>1 DEF RowMoves, RequestPart
<1>2. ASSUME NEW q \in Requests, NEW x \in Rows, RegisterAppEntity(q, x) \/ RegisterEvaluation(q, x)
      PROVE  /\ rowPc' \in [Rows -> {"todo", "entity", "registered", "suppressed"}]
             /\ \A y \in Rows : RowMoves(y)
  <2>1. /\ x \in RowsOf[q] /\ pc[q] = "rows" /\ pc' = pc /\ rowPc[x] # "registered"
        /\ \E l \in {"entity", "registered", "suppressed"} :
             rowPc' = [rowPc EXCEPT ![x] = l] /\ (l = "registered" => x \in entries')
    BY <1>2 DEF RegisterAppEntity, RegisterEvaluation
  <2> QED BY <1>0, <2>1 DEF RowMoves, RequestPart
<1>3. ASSUME NEW q \in Requests, Start(q) \/ RequestStep(q) \/ Fail(q),
             ~\E x \in Rows : RegisterAppEntity(q, x) \/ RegisterEvaluation(q, x)
      PROVE  rowPc' = rowPc
  BY <1>3 DEF RequestStep, Start, Lookup, Charge, RegisterApp, Confirm, RegisterCommit, Purge, Redact, Seal,
     Activate, Fail
<1>4. OtherStep => rowPc' = rowPc
  BY OtherFrame DEF requestVars
<1> QED BY <1>1, <1>2, <1>3, <1>4, StepKinds

\* An Entity forgets the rows of a deletion, and the deletion has redacted them.
Forgets(e) ==
  /\ entries' = entries \ EntriesOf(e) /\ SameCommit /\ Redacts /\ EntriesOf(e) \subseteq redacted'
  /\ IsCurrent => outbox'.rows \cap EntriesOf(e) = {}

LEMMA EntriesMove ==
  ASSUME CommitInv, Next
  PROVE  /\ entries' \subseteq Rows
         /\ entries \subseteq entries' \/ \E e \in Entities : Forgets(e)
<1>0. OutboxPart /\ EntityPart
  BY TypeParts DEF CommitInv
<1>1. CASE entries' = entries
  BY <1>0, <1>1 DEF EntityPart
<1>2. ASSUME NEW e \in Entities, NEW at, DeleteRecords(e, at)
      PROVE  entries' \subseteq Rows /\ Forgets(e)
  <2>1. entries' = entries \ EntriesOf(e)
    BY <1>2 DEF DeleteRecords
  <2> QED BY <1>0, <1>2, <2>1, DeleteRecordsEffect DEF Forgets, EntityPart
<1>3. ASSUME NEW q \in Requests, Start(q) \/ RequestStep(q) \/ Fail(q)
      PROVE  entries' \subseteq Rows /\ entries \subseteq entries'
  <2>1. entries' = entries \/ \E x \in Rows : entries' = entries \cup {x}
    BY <1>3 DEF RequestStep, Start, Lookup, Charge, RegisterApp, Confirm, RegisterCommit, Purge, Redact, Seal,
       Activate, Fail, RegisterAppEntity, RegisterEvaluation, entityVars
  <2> QED BY <1>0, <2>1 DEF EntityPart
<1>4. ASSUME NEW e \in Entities, Delete(e) \/ PurgeEntity(e)
      PROVE  entries' = entries \/ \E at : DeleteRecords(e, at)
  BY <1>4 DEF Delete, PurgeEntity
<1>5. ASSUME AlarmStep \/ PublishFails \/ PublisherDies \/ WindowEnds
             \/ ResetApp \/ PurgeCommit \/ ProveReset \/ CompleteReset \/ Tick
             \/ \E e \in Entities : \E c \in 1..now : Suppress(e, c)
      PROVE  entries' = entries
  BY <1>5 DEF AlarmStep, AlarmExpires, AlarmPublishes, PublishUsage, PublishRows, FinishPublish, PublishFails,
     PublisherDies, WindowEnds, ResetApp, PurgeCommit, ProveReset, CompleteReset, Tick, Suppress, entityVars
<1> QED BY <1>1, <1>2, <1>3, <1>4, <1>5, StepKinds DEF OtherStep

-----------------------------------------------------------------------------
(* The rows: a deletion may fall between any two steps of a request.       *)
LEMMA KeptStays == ASSUME CommitInv, Next, NEW x \in Kept PROVE x \in Kept'
<1>1. \/ SameCommit /\ (Redacts \/ Buries)
      \/ Expires
      \/ \E q \in Requests : Seal(q) /\ Reseals(q)
  BY Effects
<1>2. redacted \subseteq redacted' \/ redacted \subseteq erased'
  BY <1>1 DEF Redacts, Buries, Expires, Reseals, ErasedByExpiry
<1>3. erased \subseteq erased'
  BY <1>1 DEF Redacts, Buries, Expires, Reseals
<1>4. \A e \in Entities : Forgets(e) => entries \subseteq entries' \cup redacted'
  BY DEF Forgets
<1>5. entries \subseteq entries' \cup redacted'
  BY <1>4, EntriesMove
<1> QED BY <1>2, <1>3, <1>5 DEF Kept

LEMMA RowStep == ASSUME CommitInv, Next PROVE RowInv'
<1>0. /\ RowInv /\ RequestPart /\ OutboxPart
      /\ \A q \in Requests : RowsOf[q] \subseteq Rows
      /\ \A p, q \in Requests : p # q => RowsOf[p] \cap RowsOf[q] = {}
  BY TypeParts, CommitAssumption DEF CommitInv
<1>1. ASSUME NEW x \in Rows, rowPc'[x] = "registered" PROVE x \in Kept'
  <2>1. CASE rowPc'[x] = rowPc[x]
    BY <1>0, <1>1, <2>1, KeptStays DEF RowInv
  <2>2. CASE rowPc'[x] # rowPc[x]
    BY <1>1, <2>2, RowsMove DEF RowMoves, Kept
  <2> QED BY <2>1, <2>2
\* A request gives up its rows only when it seals them, and seals them only when all have answered.
<1>2. ASSUME NEW q \in Requests, NEW x \in RowsOf[q]
      PROVE  /\ pc'[q] = "idle" => rowPc'[x] = "todo"
             /\ pc'[q] = "seal" => x \in Kept'
  <2>0. x \in Rows /\ Comes(q) /\ RowMoves(x)
    BY <1>0, PcMoves, RowsMove
  <2>1. pc'[q] = "idle" => pc[q] = "idle"
    BY <2>0 DEF Comes, Told
  <2>2. rowPc'[x] # rowPc[x] => pc'[q] = "rows"
    BY <1>0, <2>0 DEF RowMoves
  <2>3. ASSUME pc[q] = "seal" PROVE x \in Kept'
    BY <1>0, <2>3, KeptStays DEF RowInv
  <2>4. ASSUME pc'[q] = "seal", pc[q] # "seal" PROVE x \in Kept'
    <3>1. Redact(q)
      BY <2>0, <2>4 DEF Comes, Told
    <3>2. CASE rowPc[x] = "registered"
      BY <1>0, <2>0, <3>2, KeptStays DEF RowInv
    <3>3. CASE rowPc[x] = "suppressed"
      <4> DEFINE rows == {y \in RowsOf[q] : rowPc[y] = "suppressed"}
      <4>1. rows \in SUBSET Rows /\ x \in rows
        BY <1>0, <3>3
      <4>2. ~Goto(q, "failed")
        BY <1>0, <2>4 DEF Goto, RequestPart
      <4>3. PrivacyDelete(rows)
        BY <3>1, <4>1, <4>2 DEF Redact
      <4> QED BY <1>0, <4>1, <4>3, PrivacyDeleteEffect DEF Kept
    <3> QED BY <3>1, <3>2, <3>3 DEF Redact
  <2> QED BY <1>0, <2>1, <2>2, <2>3, <2>4 DEF RowInv
<1>3. ASSUME IsCurrent' PROVE outbox'.rows \subseteq entries' \cup erased'
  <2>1. CASE SameCommit /\ (Redacts \/ Buries)
    <3>1. outbox'.rows \subseteq outbox.rows /\ outbox.rows \subseteq entries \cup erased /\ IsCurrent
      BY <1>0, <1>3, <2>1 DEF SameCommit, RowInv, IsCurrent
    <3>2. erased' = erased
      BY <2>1 DEF Redacts, Buries
    <3>3. ASSUME NEW e \in Entities, Forgets(e) PROVE outbox'.rows \cap entries \subseteq entries'
      BY <3>1, <3>3 DEF Forgets
    <3> QED BY <3>1, <3>2, <3>3, EntriesMove
  <2>2. CASE Expires
    BY <1>3, <2>2, <1>0, Shapes DEF Expires, IsCurrent, Stored, OutboxPart
  <2>3. ASSUME NEW q \in Requests, Seal(q), Reseals(q) PROVE outbox'.rows \subseteq entries' \cup erased'
    <3>1. outbox'.rows \subseteq RowsOf[q] \ redacted /\ pc[q] = "seal" /\ erased' = erased
      BY <2>3 DEF Reseals, SealedRows
    <3>2. entries' = entries
      BY <2>3 DEF Seal, entityVars
    <3> QED BY <1>0, <3>1, <3>2 DEF RowInv, Kept
  <2> QED BY <2>1, <2>2, <2>3, Effects
<1> QED BY <1>1, <1>2, <1>3 DEF RowInv

LEMMA EntityStep == ASSUME CommitInv, Next PROVE EntityInv' /\ EntityPart' /\ received' \in [Rows -> 0..MaxNow]
<1> USE CommitAssumption
<1>0. /\ EntityInv /\ EntityPart /\ RequestPart /\ RowInv /\ entries' \subseteq Rows
      /\ 0..MaxNow \subseteq Nat /\ 1..MaxNow \subseteq 0..MaxNow
  BY TypeParts, EntriesMove DEF CommitInv
<1>0a. \A e \in Entities : cutoff[e] \in Nat /\ deletionProof[e] \in Nat
  BY <1>0 DEF EntityPart
<1>0b. \A x \in Rows : received[x] \in Nat /\ EntityOf[x] \in Entities
  BY <1>0 DEF RequestPart
<1> DEFINE Goal == EntityInv' /\ EntityPart' /\ received' \in [Rows -> 0..MaxNow]
<1>1. ASSUME UNCHANGED <<entityVars, now, received, rowPc>> PROVE Goal
  BY <1>0, <1>1 DEF entityVars, EntityInv, EntityPart, RequestPart
<1>2. ASSUME NEW q \in Requests, Start(q) PROVE Goal
  <2>1. UNCHANGED <<entityVars, now, rowPc>> /\ pc[q] = "idle"
        /\ received' = [x \in Rows |-> IF x \in RowsOf[q] THEN now ELSE received[x]]
    BY <1>2 DEF Start
  <2>2. received' \in [Rows -> 0..MaxNow]
    BY <1>0, <2>1 DEF EntityPart, RequestPart
  <2>3. \A x \in entries : x \in Rows /\ received'[x] = received[x]
    BY <1>0, <2>1 DEF EntityInv, RowInv, EntityPart
  <2> QED BY <1>0, <2>1, <2>2, <2>3 DEF entityVars, EntityInv, EntityPart
<1>3. ASSUME NEW q \in Requests, NEW x \in Rows, RegisterAppEntity(q, x) PROVE Goal
  <2>1. UNCHANGED <<entityVars, now, received>> /\ rowPc[x] = "todo"
        /\ \A y \in Rows \ {x} : rowPc'[y] = rowPc[y]
    BY <1>0, <1>3 DEF RegisterAppEntity, RequestPart
  <2> QED BY <1>0, <2>1 DEF entityVars, EntityInv, EntityPart, RequestPart
<1>4. ASSUME NEW q \in Requests, NEW x \in Rows, RegisterEvaluation(q, x) PROVE Goal
  <2>1. UNCHANGED <<cutoff, deletionProof, now, received>> /\ rowPc[x] = "entity"
        /\ \A y \in Rows \ {x} : rowPc'[y] = rowPc[y]
    BY <1>0, <1>4 DEF RegisterEvaluation, RequestPart
  <2>2. \/ entries' = entries
        \/ entries' = entries \cup {x} /\ rowPc'[x] = "registered" /\ ~(received[x] <= cutoff[EntityOf[x]])
    BY <1>0, <1>4 DEF RegisterEvaluation, RequestPart
  <2>3. x \notin entries
    BY <1>0, <2>1 DEF EntityInv
  <2>4. ~(received[x] <= cutoff[EntityOf[x]]) => received[x] > deletionProof[EntityOf[x]]
    BY <1>0, <1>0a, <1>0b DEF EntityInv
  <2>5. \A y \in entries' : rowPc'[y] = "registered" /\ received[y] > deletionProof[EntityOf[y]]
    BY <1>0, <2>1, <2>2, <2>3, <2>4 DEF EntityInv, EntityPart
  <2> QED BY <1>0, <2>1, <2>5 DEF EntityInv, EntityPart, RequestPart
<1>5. ASSUME NEW q \in Requests, Start(q) \/ RequestStep(q) \/ Fail(q), ~Start(q),
             ~\E x \in Rows : RegisterAppEntity(q, x) \/ RegisterEvaluation(q, x)
      PROVE  UNCHANGED <<entityVars, now, received, rowPc>>
  BY <1>5 DEF RequestStep, Lookup, Charge, RegisterApp, Confirm, RegisterCommit, Purge, Redact, Seal, Activate,
     Fail
\* A deletion: the rows that its proof covers are forgotten.
<1>6. ASSUME NEW e \in Entities, NEW at \in 0..MaxNow, DeleteRecords(e, at),
             cutoff' \in [Entities -> 0..MaxNow], cutoff'[e] = at, now' = now, at <= now,
             \A d \in Entities \ {e} : cutoff'[d] = cutoff[d], UNCHANGED <<rowPc, received>>
      PROVE  Goal
  <2>1. entries' = entries \ EntriesOf(e) /\ deletionProof' = [deletionProof EXCEPT ![e] = at]
    BY <1>6 DEF DeleteRecords
  <2>2. deletionProof' \in [Entities -> 0..MaxNow]
    BY <1>0, <1>6, <2>1 DEF EntityPart
  <2>3. \A d \in Entities : deletionProof'[d] <= cutoff'[d] /\ cutoff'[d] <= now'
    BY <1>0, <1>6, <2>1 DEF EntityInv, EntityPart
  <2>4. \A x \in entries' : deletionProof'[EntityOf[x]] = deletionProof[EntityOf[x]]
    BY <1>0, <1>0b, <2>1 DEF EntriesOf, EntityPart
  <2> QED BY <1>0, <1>6, <2>1, <2>2, <2>3, <2>4 DEF EntityInv, EntityPart, RequestPart
<1>7. ASSUME NEW e \in Entities, NEW at \in 0..MaxNow, cutoff' = [cutoff EXCEPT ![e] = at],
             cutoff[e] <= at, at <= now, UNCHANGED <<entries, deletionProof, now, received, rowPc>>
      PROVE  Goal
  <2>1. \A d \in Entities : deletionProof[d] <= cutoff'[d] /\ cutoff'[d] <= now
    BY <1>0, <1>0a, <1>7 DEF EntityInv, EntityPart
  <2> QED BY <1>0, <1>7, <2>1 DEF EntityInv, EntityPart, RequestPart
<1>8. ASSUME NEW e \in Entities, Delete(e) PROVE Goal
  <2>1. DeleteRecords(e, cutoff[e]) /\ UNCHANGED <<cutoff, now, received, rowPc>>
    BY <1>8 DEF Delete, requestVars
  <2>2. cutoff[e] \in 0..MaxNow /\ cutoff[e] <= now /\ cutoff' \in [Entities -> 0..MaxNow]
    BY <1>0, <2>1 DEF EntityPart, EntityInv
  <2> QED BY <1>6, <2>1, <2>2
<1>9. ASSUME NEW e \in Entities, PurgeEntity(e) PROVE Goal
  <2>1. cutoff' = [cutoff EXCEPT ![e] = now] /\ UNCHANGED <<now, received, rowPc>>
        /\ (DeleteRecords(e, now) \/ UNCHANGED <<entries, deletionProof>>)
    BY <1>9 DEF PurgeEntity, requestVars
  <2>2. now \in 0..MaxNow /\ now <= now /\ cutoff[e] <= now
    BY <1>0 DEF EntityPart, EntityInv
  <2>3. cutoff' \in [Entities -> 0..MaxNow] /\ cutoff'[e] = now /\ \A d \in Entities \ {e} : cutoff'[d] = cutoff[d]
    BY <1>0, <2>1, <2>2 DEF EntityPart
  <2> QED BY <1>6, <1>7, <2>1, <2>2, <2>3
<1>10. ASSUME NEW e \in Entities, NEW c \in 1..now, Suppress(e, c) PROVE Goal
  <2>1. /\ cutoff' = [cutoff EXCEPT ![e] = c] /\ c > cutoff[e]
        /\ UNCHANGED <<entries, deletionProof, now, received, rowPc>>
    BY <1>10 DEF Suppress, requestVars
  <2>2. c \in 0..MaxNow /\ c <= now /\ cutoff[e] <= c
    BY <1>0, <1>0a, <2>1 DEF EntityPart
  <2> QED BY <1>7, <2>1, <2>2
<1>11. ASSUME Tick PROVE Goal
  <2>1. now' = now + 1 /\ now < MaxNow /\ UNCHANGED <<entityVars, received, rowPc>>
    BY <1>11 DEF Tick, requestVars
  <2>2. now' \in 1..MaxNow /\ \A e \in Entities : cutoff[e] <= now'
    BY <1>0, <1>0a, <2>1 DEF EntityPart, EntityInv
  <2> QED BY <1>0, <2>1, <2>2 DEF entityVars, EntityInv, EntityPart, RequestPart
<1>12. ASSUME AlarmStep \/ PublishFails \/ PublisherDies \/ WindowEnds
              \/ ResetApp \/ PurgeCommit \/ ProveReset \/ CompleteReset
       PROVE  UNCHANGED <<entityVars, now, received, rowPc>>
  BY <1>12 DEF AlarmStep, AlarmExpires, AlarmPublishes, PublishUsage, PublishRows, FinishPublish, PublishFails,
     PublisherDies, WindowEnds, ResetApp, PurgeCommit, ProveReset, CompleteReset, requestVars
<1> HIDE DEF Goal
<1>13. Goal
  BY <1>1, <1>2, <1>3, <1>4, <1>5, <1>8, <1>9, <1>10, <1>11, <1>12, StepKinds DEF OtherStep
<1> QED BY <1>13 DEF Goal

-----------------------------------------------------------------------------
(* The publication. *)
LEMMA PublisherStep == ASSUME CommitInv, Next PROVE PublisherInv'
<1>0. PublisherInv /\ OutboxPart /\ PublishPart
  BY TypeParts DEF CommitInv
<1>1. ASSUME publisher' = "idle" PROVE PublisherInv'
  BY <1>1 DEF PublisherInv
<1>2. ASSUME publisher' # "idle" => publisher # "idle", outbox' = outbox PROVE PublisherInv'
  BY <1>0, <1>2 DEF PublisherInv, Stored
<1>3. ASSUME publisher' = publisher, ~Unresolved PROVE PublisherInv'
  BY <1>0, <1>1, <1>3, Current
<1>4. ASSUME NEW q \in Requests, Start(q) \/ RequestStep(q) \/ Fail(q) PROVE PublisherInv'
  <2>0. publisher' = publisher
    BY <1>4 DEF RequestStep, Start, Lookup, Charge, RegisterApp, Confirm, RegisterCommit, Purge, Redact, Seal,
       Activate, Fail, RegisterAppEntity, RegisterEvaluation, publishVars
  <2>1. CASE Purge(q) \/ Redact(q)
    <3>1. UNCHANGED outboxVars \/ ~Unresolved
      BY <2>1 DEF Purge, Redact, PrivacyDelete, PrivacyDeleteAll
    <3> QED BY <1>2, <1>3, <2>0, <3>1 DEF outboxVars
  <2>2. CASE Seal(q)
    <3>1. outbox' = outbox \/ ~IsCurrent
      BY <1>0, <2>2, SealEffect DEF Reseals
    <3> QED BY <1>2, <1>3, <2>0, <3>1 DEF Unresolved
  <2>3. CASE Activate(q)
    <3>1. outbox' = outbox \/ outbox.state = "sealed"
      BY <2>3 DEF Activate
    <3> QED BY <1>2, <1>3, <2>0, <3>1 DEF Unresolved
  <2>4. ASSUME ~Purge(q), ~Redact(q), ~Seal(q), ~Activate(q) PROVE outbox' = outbox
    BY <1>4, <2>4 DEF RequestStep, Start, Lookup, Charge, RegisterApp, Confirm, RegisterCommit, Fail,
       RegisterAppEntity, RegisterEvaluation, outboxVars
  <2> QED BY <1>2, <2>0, <2>1, <2>2, <2>3, <2>4
<1>5. CASE AlarmExpires \/ FinishPublish \/ PublishFails \/ PublisherDies
  BY <1>1, <1>5 DEF AlarmExpires, FinishPublish, PublishFails, PublisherDies, publishVars
<1>6. CASE AlarmPublishes
  <2>1. IsCurrent /\ Stored /\ outbox.state # "sealed" /\ ~outbox.privacyDeleted
    BY <1>0, <1>6, Current DEF AlarmPublishes, IsDelivered
  <2>2. outbox' = [outbox EXCEPT !.state = "publishing"] /\ "publishing" \in DeliveryStates
    BY <1>6 DEF AlarmPublishes, DeliveryStates
  <2>3. SameCommit /\ outbox'.state = "publishing" /\ outbox'.privacyDeleted = outbox.privacyDeleted
    BY <1>0, <2>1, <2>2, StateEffect
  <2> QED BY <2>1, <2>3 DEF PublisherInv, SameCommit, Stored
<1>7. CASE PublishUsage \/ PublishRows
  BY <1>2, <1>7 DEF PublishUsage, PublishRows, outboxVars
<1>8. CASE WindowEnds
  <2>1. outbox \in Commits /\ outbox' = [outbox EXCEPT !.expired = TRUE] /\ publisher' = publisher
    BY <1>0, <1>8, Shapes DEF WindowEnds, OutboxPart, publishVars
  <2>2. outbox'.state = outbox.state /\ outbox'.privacyDeleted = outbox.privacyDeleted /\ outbox'.commit = outbox.commit
    BY <2>1, Voids
  <2> QED BY <1>0, <2>1, <2>2 DEF PublisherInv, Stored
<1>9. ASSUME NEW e \in Entities, Delete(e) \/ PurgeEntity(e) \/ \E c \in 1..now : Suppress(e, c)
      PROVE  PublisherInv'
  <2>1. publisher' = publisher /\ (outbox' = outbox \/ ~Unresolved)
    BY <1>9 DEF Delete, PurgeEntity, Suppress, DeleteRecords, PrivacyDelete, publishVars, outboxVars
  <2> QED BY <1>2, <1>3, <2>1
<1>10. CASE ResetApp \/ PurgeCommit \/ ProveReset \/ CompleteReset \/ Tick
  <2>1. publisher' = publisher /\ (outbox' = outbox \/ ~Unresolved)
    BY <1>10 DEF ResetApp, PurgeCommit, ProveReset, CompleteReset, Tick, PrivacyDeleteAll, publishVars, outboxVars
  <2> QED BY <1>2, <1>3, <2>1
<1> QED BY <1>4, <1>5, <1>6, <1>7, <1>8, <1>9, <1>10, StepKinds DEF OtherStep, AlarmStep

\* What goes to the queues: the stored commit, and only while it is being published.
LEMMA QueueStep ==
  ASSUME CommitInv, Next
  PROVE  PublishPart' /\ NothingQueuedAfterReset'
<1> USE CommitAssumption
<1>0. /\ PublisherInv /\ OutboxPart /\ PublishPart /\ FenceInv /\ NothingQueuedAfterReset
      /\ erased \subseteq erased'
  <2>1. erased \subseteq erased'
    BY Effects DEF Redacts, Buries, Expires, Reseals
  <2> QED BY <2>1, TypeParts DEF CommitInv
<1>1. seals' \in 0..MaxSeals
  <2>1. seals' = seals \/ (seals < MaxSeals /\ seals' = seals + 1)
    <3>1. ASSUME NEW q \in Requests, Start(q) \/ RequestStep(q) \/ Fail(q)
          PROVE  seals' = seals \/ (seals < MaxSeals /\ seals' = seals + 1)
      <4>1. CASE Seal(q)
        BY <1>0, <4>1, SealEffect DEF Reseals
      <4>2. CASE ~Seal(q)
        BY <3>1, <4>2 DEF RequestStep, Start, Lookup, Charge, RegisterApp, Confirm, RegisterCommit, Purge,
           Redact, Activate, Fail, RegisterAppEntity, RegisterEvaluation
      <4> QED BY <4>1, <4>2
    <3>2. OtherStep => seals' = seals
      BY DEF OtherStep, AlarmStep, AlarmExpires, AlarmPublishes, PublishUsage, PublishRows, FinishPublish,
         PublishFails, PublisherDies, WindowEnds, Delete, PurgeEntity, Suppress, ResetApp, PurgeCommit,
         ProveReset, CompleteReset, Tick
    <3> QED BY <3>1, <3>2, StepKinds
  <2> QED BY <1>0, <2>1 DEF PublishPart
<1>2. failures' \in 0..MaxPublishFailures /\ publisher' \in {"idle", "usage", "rows", "finish"}
  <2>1. ASSUME NEW q \in Requests, Start(q) \/ RequestStep(q) \/ Fail(q) PROVE UNCHANGED publishVars
    BY <2>1 DEF RequestStep, Start, Lookup, Charge, RegisterApp, Confirm, RegisterCommit, Purge, Redact, Seal,
       Activate, Fail, RegisterAppEntity, RegisterEvaluation
  <2>2. OtherStep => /\ failures' = failures \/ (failures < MaxPublishFailures /\ failures' = failures + 1)
                     /\ publisher' = publisher \/ publisher' \in {"idle", "usage", "rows", "finish"}
    BY DEF OtherStep, AlarmStep, AlarmExpires, AlarmPublishes, PublishUsage, PublishRows, FinishPublish,
       PublishFails, PublisherDies, WindowEnds, Delete, PurgeEntity, Suppress, ResetApp, PurgeCommit,
       ProveReset, CompleteReset, Tick, publishVars
  <2> QED BY <1>0, <2>1, <2>2, StepKinds DEF PublishPart, publishVars
<1>3. CASE UNCHANGED <<queued, lateQueued>>
  BY <1>0, <1>1, <1>2, <1>3 DEF PublishPart, NothingQueuedAfterReset
<1>4. CASE PublishUsage \/ PublishRows
  <2>1. publisher # "idle" /\ Stored /\ IsCurrent /\ outbox.state = "publishing" /\ ~outbox.privacyDeleted
    BY <1>0, <1>4, Current DEF PublishUsage, PublishRows, PublisherInv
  <2>2. outbox \in Commits
    BY <1>0, <2>1, Shapes DEF OutboxPart
  <2>3. outbox.commit \in 1..MaxSeals /\ outbox.rows \subseteq Rows
    BY <2>2 DEF Commits
  <2>4. PICK rows : rows \subseteq (1..MaxSeals) \X (Rows \cup {Usage}) /\ QueueRows(rows)
    <3>1. {<<outbox.commit, Usage>>} \subseteq (1..MaxSeals) \X (Rows \cup {Usage})
      BY <2>3
    <3>2. {outbox.commit} \X outbox.rows \subseteq (1..MaxSeals) \X (Rows \cup {Usage})
      BY <2>3
    <3> QED BY <1>4, <3>1, <3>2 DEF PublishUsage, PublishRows
  <2>5. queued' \subseteq (1..MaxSeals) \X (Rows \cup {Usage}) /\ lateQueued' \subseteq queued'
    BY <1>0, <2>4 DEF QueueRows, PublishPart
  <2>6. Usage \notin erased => ~resetProof
    BY <1>0, <2>1 DEF FenceInv, Void
  <2>7. NothingQueuedAfterReset'
    BY <1>0, <2>4, <2>6 DEF QueueRows, NothingQueuedAfterReset
  <2> QED BY <1>1, <1>2, <2>5, <2>7 DEF PublishPart
<1>5. ASSUME ~(PublishUsage \/ PublishRows) PROVE UNCHANGED <<queued, lateQueued>>
  <2>1. ASSUME NEW q \in Requests, Start(q) \/ RequestStep(q) \/ Fail(q) PROVE UNCHANGED <<queued, lateQueued>>
    BY <2>1 DEF RequestStep, Start, Lookup, Charge, RegisterApp, Confirm, RegisterCommit, Purge, Redact, Seal,
       Activate, Fail, RegisterAppEntity, RegisterEvaluation, publishVars
  <2>2. OtherStep => UNCHANGED <<queued, lateQueued>>
    BY <1>5 DEF OtherStep, AlarmStep, AlarmExpires, AlarmPublishes, FinishPublish, PublishFails, PublisherDies,
       WindowEnds, Delete, PurgeEntity, Suppress, ResetApp, PurgeCommit, ProveReset, CompleteReset, Tick,
       publishVars
  <2> QED BY <2>1, <2>2, StepKinds
<1> QED BY <1>3, <1>4, <1>5

-----------------------------------------------------------------------------
(* The App: an identity that it has refused is never admitted again.       *)
AppMoves ==
  \/ UNCHANGED <<active, appCommit, resetPc, resetProof>>
  \/ AdmitsVersion /\ active' = 1 /\ (appCommit => appCommit') /\ AppOpen /\ UNCHANGED <<resetPc, resetProof>>
  \/ ResetApp
  \/ PurgeCommit /\ PrivacyDeleteAll /\ ~appCommit' /\ UNCHANGED <<active, resetPc, resetProof>>
  \/ resetPc' = "idle" /\ UNCHANGED <<active, appCommit, resetProof>>
  \/ ProveReset \/ CompleteReset

LEMMA AppStep == ASSUME CommitInv, Next PROVE AppPart' /\ AppMoves
<1>0. AppPart
  BY TypeParts DEF CommitInv
<1> USE CommitAssumption
<1>1. ASSUME NEW q \in Requests, Start(q) \/ RequestStep(q) \/ Fail(q) PROVE AppPart' /\ AppMoves
  <2>1. ASSUME NEW x \in Rows, RegisterAppEntity(q, x) PROVE AppPart' /\ AppMoves
    <3>1. EntityOf[x] \in Entities
      OBVIOUS
    <3> QED BY <1>0, <2>1, <3>1 DEF RegisterAppEntity, AppPart, AppMoves
  <2>2. CASE RegisterApp(q) \/ Confirm(q)
    <3>1. UNCHANGED <<resetPc, appEntities, resetProof>> /\ AppOpen
      BY <2>2 DEF RegisterApp, Confirm, RegisterCommit
    <3>2. CASE AdmitsVersion
      <4>1. active' = 1 /\ appCommit' = TRUE
        BY <2>2, <3>2 DEF RegisterApp, Confirm, RegisterCommit
      <4> QED BY <1>0, <3>1, <3>2, <4>1 DEF AppPart, AppMoves
    <3>3. CASE ~AdmitsVersion
      <4>1. UNCHANGED <<active, appCommit>>
        BY <2>2, <3>3 DEF RegisterApp, Confirm, RegisterCommit
      <4> QED BY <1>0, <3>1, <4>1 DEF AppPart, AppMoves
    <3> QED BY <3>2, <3>3
  <2>3. ASSUME ~RegisterApp(q), ~Confirm(q), ~\E x \in Rows : RegisterAppEntity(q, x)
        PROVE  UNCHANGED <<appVars, resetProof>>
    BY <1>1, <2>3 DEF RequestStep, Start, Lookup, Charge, Purge, Redact, Seal, Activate, Fail, RegisterEvaluation
  <2>4. UNCHANGED <<appVars, resetProof>> => AppPart' /\ AppMoves
    BY <1>0 DEF appVars, AppPart, AppMoves
  <2> QED BY <2>1, <2>2, <2>3, <2>4
<1>2. CASE AlarmStep \/ PublishFails \/ PublisherDies \/ WindowEnds \/ Tick
  <2>1. UNCHANGED <<appVars, resetProof>>
    BY <1>2 DEF AlarmStep, AlarmExpires, AlarmPublishes, PublishUsage, PublishRows, FinishPublish, PublishFails,
       PublisherDies, WindowEnds, Tick
  <2> QED BY <1>0, <2>1 DEF appVars, AppPart, AppMoves
<1>3. ASSUME NEW e \in Entities, Delete(e) \/ PurgeEntity(e) \/ \E c \in 1..now : Suppress(e, c)
      PROVE  AppPart' /\ AppMoves
  <2>1. /\ UNCHANGED <<active, appCommit, resetProof>> /\ appEntities' \subseteq appEntities
        /\ resetPc' = resetPc \/ resetPc' = "idle"
    <3>1. CASE PurgeEntity(e)
      BY <3>1 DEF PurgeEntity
    <3>2. CASE Delete(e) \/ \E c \in 1..now : Suppress(e, c)
      BY <3>2 DEF Delete, Suppress, appVars
    <3> QED BY <1>3, <3>1, <3>2
  <2> QED BY <1>0, <2>1 DEF AppPart, AppMoves
<1>4. CASE ResetApp \/ PurgeCommit \/ ProveReset \/ CompleteReset
  <2>1. CASE ResetApp
    BY <1>0, <2>1 DEF ResetApp, AppPart, AppMoves
  <2>2. CASE PurgeCommit
    <3>1. UNCHANGED <<active, appEntities, resetProof>>
      BY <2>2 DEF PurgeCommit
    <3>2. \/ PrivacyDeleteAll /\ appCommit' = FALSE /\ resetPc' = resetPc
          \/ resetPc' = "idle" /\ appCommit' = appCommit
      BY <2>2 DEF PurgeCommit, outboxVars
    <3>3. AppPart'
      BY <1>0, <3>1, <3>2 DEF AppPart
    <3> QED BY <2>2, <3>1, <3>2, <3>3 DEF AppMoves
  <2>3. CASE ProveReset
    BY <1>0, <2>3 DEF ProveReset, AppPart, AppMoves
  <2>4. CASE CompleteReset
    BY <1>0, <2>4 DEF CompleteReset, AppPart, AppMoves
  <2> QED BY <1>4, <2>1, <2>2, <2>3, <2>4
<1> QED BY <1>1, <1>2, <1>3, <1>4, StepKinds DEF OtherStep

\* Who is sealing or activating, once the App refuses the identity.
LEMMA NobodyComes ==
  ASSUME CommitInv, Next, ~AdmitsVersion
  PROVE  (Sealing' => Sealing) /\ (Activating' => Activating)
<1>1. \A p \in Requests : Comes(p)
  BY PcMoves
<1>2. \A p \in Requests : pc'[p] \in {"rows", "seal"} => pc[p] \in {"rows", "seal"}
  BY <1>1 DEF Comes, Told, Redact
<1>3. \A p \in Requests : pc'[p] = "activate" => pc[p] = "activate"
  BY <1>1 DEF Comes, Told
<1> QED BY <1>2, <1>3 DEF Sealing, Activating

\* A fence stays up, whatever is sealed, redacted or expires behind it.
LEMMA FenceHolds ==
  ASSUME CommitInv, Next, Fenced, Usage \notin erased'
  PROVE  Void' /\ (tombstone' \/ ~Sealing' \/ ~Activating')
<1>0. /\ OutboxPart /\ FenceInv /\ ~AdmitsVersion
      /\ (Sealing' => Sealing) /\ (Activating' => Activating)
  <2>1. ~AdmitsVersion
    BY DEF Fenced, AdmitsVersion
  <2> QED BY <2>1, TypeParts, NobodyComes DEF CommitInv
<1>1. Usage \notin erased
  BY Effects DEF Redacts, Buries, Expires, Reseals
<1>2. Void /\ (tombstone \/ ~Sealing \/ ~Activating)
  BY <1>0, <1>1 DEF FenceInv
<1>3. CASE SameCommit /\ (Redacts \/ Buries)
  <2>1. tombstone' = tombstone \/ tombstone' = TRUE
    BY <1>3 DEF Redacts, Buries
  <2>2. IsCurrent' => /\ IsCurrent /\ Stored
                      /\ outbox.privacyDeleted => outbox'.privacyDeleted
                      /\ outbox.state = "sealed" => outbox'.state = "sealed" \/ Activating
    BY <1>3 DEF SameCommit, IsCurrent
  <2>3. Void'
    BY <1>0, <1>2, <2>2 DEF Void
  <2> QED BY <1>0, <1>2, <2>1, <2>3
<1>4. CASE Expires
  <2>1. ~IsCurrent'
    BY <1>0, <1>4, Shapes DEF Expires, IsCurrent, Stored, OutboxPart
  <2>2. ~(tombstone /\ Sealing /\ Activating)
    BY <1>4 DEF Expires, ErasedByExpiry, Sealing, Activating
  <2> QED BY <1>0, <1>2, <2>1, <2>2 DEF Void
<1>5. ASSUME NEW q \in Requests, Reseals(q) PROVE Void' /\ (tombstone' \/ ~Sealing' \/ ~Activating')
  <2>1. Sealing /\ tombstone' = tombstone
    BY <1>5 DEF Reseals, Sealing
  <2>2. tombstone => outbox'.privacyDeleted
    BY <1>5 DEF Reseals
  <2>3. ~tombstone => outbox'.state = "sealed"
    BY <1>5 DEF Reseals
  <2>4. Void'
    BY <1>0, <1>2, <2>1, <2>2, <2>3 DEF Void
  <2> QED BY <1>0, <1>2, <2>1, <2>4
<1> QED BY <1>3, <1>4, <1>5, Effects

LEMMA FenceStep == ASSUME CommitInv, Next PROVE FenceInv'
<1>0. /\ OutboxPart /\ AppPart /\ FenceInv /\ AppMoves
      /\ resetPc = "purging" => active = 3
      /\ resetProof => Fenced
      /\ active \in {0, 1} /\ ~appCommit => ~Stored /\ ~Sealing /\ ~Activating
  BY TypeParts, AppStep DEF CommitInv, FenceInv
<1>1. resetPc' = "purging" => active' = 3
  BY <1>0 DEF AppMoves, AppOpen, ResetApp, ProveReset, CompleteReset
<1>2. Fenced => Fenced'
  BY <1>0 DEF AppMoves, AdmitsVersion, Fenced, ResetApp, ProveReset, CompleteReset
<1>3. resetProof' => Fenced'
  <2>1. CASE ProveReset
    BY <1>0, <2>1 DEF ProveReset, Fenced
  <2>2. CASE ~ProveReset
    <3>1. resetProof' = resetProof
      BY <1>0, <2>2 DEF AppMoves, ResetApp, CompleteReset
    <3> QED BY <1>0, <1>2, <3>1
  <2> QED BY <2>1, <2>2
\* Before the reset, what has no commit at the App has nothing at the outbox.
<1>4. ASSUME active' \in {0, 1}, ~appCommit' PROVE ~Stored' /\ ~Sealing' /\ ~Activating'
  <2>1. active \in {0, 1} /\ ~appCommit
    BY <1>0, <1>4 DEF AppMoves, AdmitsVersion, ResetApp, PurgeCommit, ProveReset, CompleteReset, FenceInv
  <2>2. ~Stored /\ ~Sealing /\ ~Activating
    BY <1>0, <2>1
  <2>3. \A p \in Requests : Comes(p)
    BY PcMoves
  <2>4. \A p \in Requests : ~(RegisterApp(p) /\ AdmitsVersion) /\ ~(Confirm(p) /\ AdmitsVersion)
    BY <1>4 DEF RegisterApp, Confirm, RegisterCommit
  <2>5. \A p \in Requests : pc'[p] \in {"rows", "seal"} => pc[p] \in {"rows", "seal"}
    BY <2>3, <2>4 DEF Comes, Told, Redact
  <2>6. \A p \in Requests : pc'[p] # "activate"
    BY <2>2, <2>3, <2>4 DEF Comes, Told, Activating
  <2>7. ~Stored'
    BY <2>2, Effects DEF SameCommit, Expires, Reseals, Sealing, Stored
  <2> QED BY <2>2, <2>5, <2>6, <2>7 DEF Sealing, Activating
<1>5. ASSUME Fenced', Usage \notin erased' PROVE Void' /\ (tombstone' \/ ~Sealing' \/ ~Activating')
  <2>1. CASE Fenced
    BY <1>5, <2>1, FenceHolds
  <2>2. CASE PurgeCommit /\ PrivacyDeleteAll
    BY <1>0, <2>2, PrivacyDeleteAllEffect DEF Void
  <2>3. CASE ResetApp /\ ~Fenced
    <3>1. active \in {0, 1} /\ ~appCommit /\ outbox' = outbox
      BY <1>5, <2>3 DEF ResetApp, Fenced, outboxVars
    <3>2. ~Stored /\ ~Sealing
      BY <1>0, <3>1
    <3>3. pc' = pc
      BY <2>3 DEF ResetApp, requestVars
    <3> QED BY <3>1, <3>2, <3>3 DEF Void, IsCurrent, Stored, Sealing
  <2>4. CASE ~Fenced /\ ~ResetApp /\ ~(PurgeCommit /\ PrivacyDeleteAll)
    BY <1>0, <1>5, <2>4 DEF AppMoves, Fenced, AdmitsVersion, ProveReset, CompleteReset
  <2> QED BY <2>1, <2>2, <2>3, <2>4
<1> QED BY <1>1, <1>3, <1>4, <1>5 DEF FenceInv

-----------------------------------------------------------------------------
(* The theorems. *)
LEMMA RequestType == ASSUME CommitInv, Next PROVE accepted' \in [Requests -> 0..MaxSeals]
<1>0. RequestPart /\ OutboxPart
  BY TypeParts DEF CommitInv
<1>1. Stored => outbox.commit \in 0..MaxSeals
  <2>1. Stored => outbox.commit \in 1..MaxSeals
    BY <1>0, Shapes DEF OutboxPart, Commits
  <2> QED BY <2>1, CommitAssumption
<1>2. ASSUME NEW q \in Requests, Lookup(q) \/ Activate(q) PROVE accepted' \in [Requests -> 0..MaxSeals]
  <2>1. accepted' = accepted \/ (Stored /\ accepted' = [accepted EXCEPT ![q] = outbox.commit])
    BY <1>2 DEF Lookup, Activate, Accept, IsCurrent
  <2> QED BY <1>0, <1>1, <2>1 DEF RequestPart
<1>3. ASSUME NEW q \in Requests, Start(q) \/ RequestStep(q) \/ Fail(q), ~(Lookup(q) \/ Activate(q))
      PROVE  accepted' = accepted
  BY <1>3 DEF RequestStep, Start, Charge, RegisterApp, Confirm, RegisterCommit, Purge, Redact, Seal, Fail,
     RegisterAppEntity, RegisterEvaluation
<1>4. OtherStep => accepted' = accepted
  BY OtherFrame DEF requestVars
<1> QED BY <1>0, <1>2, <1>3, <1>4, StepKinds DEF RequestPart

LEMMA InitCommit == ASSUME Init PROVE CommitInv
<1> USE CommitAssumption DEF Init
<1>1. NoCommit \in OutboxStates /\ ~Stored /\ "idle" \in Labels
  BY DEF NoCommit, OutboxStates, Stored, Labels
<1>2. RequestPart /\ OutboxPart /\ PublishPart /\ AppPart /\ EntityPart
  <2>1. 0 \in 0..MaxNow /\ 0 \in 0..MaxSeals /\ 1 \in 1..MaxNow /\ 0 \in 0..MaxPublishFailures
    OBVIOUS
  <2>2. RequestPart
    BY <1>1, <2>1 DEF RequestPart
  <2>3. OutboxPart
    BY <1>1 DEF OutboxPart
  <2>4. PublishPart
    BY <2>1 DEF PublishPart
  <2>5. AppPart
    <3>1. active \in 0..3
      <4>1. active = 0
        OBVIOUS
      <4> QED BY <4>1
    <3>2. appCommit \in BOOLEAN /\ resetProof \in BOOLEAN
      OBVIOUS
    <3>3. resetPc = "idle" /\ appEntities = {}
      OBVIOUS
    <3> QED BY <3>1, <3>2, <3>3 DEF AppPart
  <2>6. EntityPart
    BY <2>1 DEF EntityPart
  <2> QED BY <2>2, <2>3, <2>4, <2>5, <2>6
<1>3. PublisherInv /\ EntityInv /\ RowInv
  <2>1. \A q \in Requests : RowsOf[q] \subseteq Rows
    OBVIOUS
  <2> QED BY <1>1, <2>1 DEF PublisherInv, EntityInv, RowInv, IsCurrent
<1>4. FenceInv /\ NothingQueuedAfterReset
  BY <1>1 DEF FenceInv, NothingQueuedAfterReset, Fenced, Sealing, Activating
<1> QED BY <1>2, <1>3, <1>4, TypeParts DEF CommitInv

LEMMA CommitStutters == ASSUME CommitInv, UNCHANGED vars PROVE CommitInv'
<1> USE DEF vars, requestVars, outboxVars, publishVars, appVars, entityVars
<1>1. TypeOK' /\ PublisherInv' /\ EntityInv' /\ NothingQueuedAfterReset'
  BY DEF CommitInv, TypeOK, PublisherInv, EntityInv, NothingQueuedAfterReset, Stored
<1>2. RowInv' /\ FenceInv'
  BY DEF CommitInv, RowInv, FenceInv, Kept, Fenced, Void, Sealing, Activating, IsCurrent, IsPublishable,
         IsDelivered, Stored
<1> QED BY <1>1, <1>2 DEF CommitInv

(***************************************************************************)
(* The inductive invariant of the commit: what the requests, the outbox,   *)
(* its publication and the privacy authorities agree on between any two of *)
(* their steps.                                                            *)
(***************************************************************************)
THEOREM CommitInvariant == Spec => []CommitInv
<1>1. Init => CommitInv
  BY InitCommit
<1>2. CommitInv /\ [Next]_vars => CommitInv'
  <2>1. ASSUME CommitInv, Next PROVE CommitInv'
    <3>1. RequestPart'
      BY <2>1, PcMoves, RowsMove, EntityStep, RequestType DEF RequestPart
    <3>2. OutboxPart' /\ PublishPart' /\ AppPart' /\ EntityPart'
      BY <2>1, Effects, QueueStep, AppStep, EntityStep
    <3>3. TypeOK'
      BY <3>1, <3>2 DEF TypeOK, RequestPart, OutboxPart, PublishPart, AppPart, EntityPart, Labels
    <3>4. PublisherInv' /\ EntityInv' /\ RowInv' /\ FenceInv' /\ NothingQueuedAfterReset'
      BY <2>1, PublisherStep, EntityStep, RowStep, FenceStep, QueueStep
    <3> QED BY <3>3, <3>4 DEF CommitInv
  <2> QED BY <2>1, CommitStutters
<1> QED BY <1>1, <1>2, PTL DEF Spec

(* Every key of the outbox, of the requests and of the authorities keeps   *)
(* its shape: nothing is queued, or answered 202, but a commit that was    *)
(* sealed.                                                                 *)
THEOREM CommitTypeCorrect == Spec => []TypeOK
<1>1. CommitInv => TypeOK
  BY DEF CommitInv
<1> QED BY <1>1, CommitInvariant, PTL

(* Once the deletion of an Entity is proved, a commit that can still be    *)
(* published holds none of the rows that the proof covers, but for a row   *)
(* whose redaction an expiry erased before it was sealed.                  *)
THEOREM ProvedDeletionsAreRedacted == Spec => []ProvedDeletionIsRedacted
<1>1. CommitInv => ProvedDeletionIsRedacted
  BY DEF CommitInv, RowInv, EntityInv, ProvedDeletionIsRedacted
<1> QED BY <1>1, CommitInvariant, PTL

(* After the App reset is proved, nothing of the old identity is handed to *)
(* the raw queues, unless an expiry took the tombstone from under a        *)
(* request that was yet to seal while another was about to activate.       *)
THEOREM NothingIsQueuedAfterReset == Spec => []NothingQueuedAfterReset
<1>1. CommitInv => NothingQueuedAfterReset
  BY DEF CommitInv
<1> QED BY <1>1, CommitInvariant, PTL

(* Inside the replay window every step leaves the commit that was sealed   *)
(* first, and can only take rows away from it: "a retry replays the same   *)
(* pair".                                                                  *)
THEOREM RetriesReplayTheSameCommit == Spec => RetriesReplaySameCommit
<1> DEFINE Replays ==
      Stored /\ ~outbox.expired => outbox'.commit = outbox.commit /\ outbox'.rows \subseteq outbox.rows
<1>1. ASSUME CommitInv, Next PROVE Replays
  <2>1. SUFFICES ASSUME Stored, ~outbox.expired
                 PROVE  outbox'.commit = outbox.commit /\ outbox'.rows \subseteq outbox.rows
    OBVIOUS
  <2>2. IsCurrent
    BY <2>1 DEF IsCurrent
  <2> QED BY <1>1, <2>1, <2>2, Effects DEF SameCommit, Expires, Reseals
<1>2. CommitInv /\ [Next]_vars => [Replays]_vars
  BY <1>1
<1> QED BY <1>2, CommitInvariant, PTL DEF Spec, RetriesReplaySameCommit

=============================================================================
