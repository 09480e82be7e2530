------------------------ MODULE ExposureRedemption ------------------------
(***************************************************************************)
(* POST /api/sdk/exposures: the redemption of Exposure Tickets by the      *)
(* Evaluation Worker (redeemOne), against the claim Durable Object         *)
(* (RedemptionClaims), Event Ingest and the holdover-write outbox.         *)
(*                                                                         *)
(* An SDK keeps an item queued until a result other than                   *)
(* SERVICE_UNAVAILABLE ("retry") reaches it.  It sends an item again when  *)
(* it gets no answer, while an earlier request may still be under way.  A  *)
(* call between Workers is lost before or after it took effect, and an     *)
(* isolate is killed anywhere; MaxFaults bounds these.  Every item that is *)
(* sent was issued at time 1.                                              *)
(***************************************************************************)
EXTENDS RedemptionClaims

CONSTANTS
  Redemptions,         \* requests the Worker runs at a time
  Items,               \* records [exposureId, ticket] an SDK has queued
  TicketTTL,           \* how long a ticket can be redeemed
  MaxFaults            \* bound on lost calls, failed calls and killed isolates

ASSUME RedemptionAssumption ==
  /\ Items \subseteq [exposureId : Exposures, ticket : Tickets]
  /\ TicketTTL \in Nat /\ MaxFaults \in Nat

VARIABLES
  pc, item, result,    \* redemption: where it is, what it redeems, what it will answer
  leaseEnd,            \* history: when the claim it acquired lapses
  queued,              \* SDK: items still to be redeemed
  landed,              \* history: tickets whose Exposure Event Ingest has
  holdover,            \* history: tickets whose holdover is written or owned by the outbox
  settledUntil,        \* history: when a ticket was sealed, plus the claim TTL
  overran,             \* history: tickets a redemption of which outlived its lease
  reset,               \* the App identity generation has changed
  faults

sdkVars == <<pc, item, result, leaseEnd, queued>>
historyVars == <<landed, holdover, settledUntil, overran>>
vars == <<claimsState, sdkVars, historyVars, reset, faults>>

Results == {"none", "accepted", "deduplicated", "suppressed", "retry", "validation",
            "internal", "conflict", "expired", "invalid"}

NoItem == [exposureId |-> 0, ticket |-> 0]

Init ==
  /\ ClaimsInit
  /\ pc = [r \in Redemptions |-> "idle"]
  /\ item = [r \in Redemptions |-> NoItem]
  /\ result = [r \in Redemptions |-> "none"]
  /\ leaseEnd = [r \in Redemptions |-> 0]
  /\ queued = Items
  /\ landed = {} /\ holdover = {} /\ overran = {}
  /\ settledUntil = [t \in Tickets |-> 0]
  /\ reset = FALSE /\ faults = 0

X(r) == item[r].exposureId
T(r) == item[r].ticket

Goto(r, label) == pc' = [pc EXCEPT ![r] = label] /\ UNCHANGED <<item, result, leaseEnd, queued>>
Plan(r, label, answer) ==
  /\ pc' = [pc EXCEPT ![r] = label]
  /\ result' = [result EXCEPT ![r] = answer]
  /\ UNCHANGED <<item, leaseEnd, queued>>
Answer(r, answer) == Plan(r, "reply", answer)
\* The request is over.
Idle(r) ==
  /\ pc' = [pc EXCEPT ![r] = "idle"]
  /\ item' = [item EXCEPT ![r] = NoItem]
  /\ result' = [result EXCEPT ![r] = "none"]
  /\ leaseEnd' = [leaseEnd EXCEPT ![r] = 0]
Fault == faults < MaxFaults /\ faults' = faults + 1
NoFault == UNCHANGED faults

-----------------------------------------------------------------------------
(* SDK *)
Flush(r, i) ==
  /\ pc[r] = "idle" /\ i \in queued
  /\ pc' = [pc EXCEPT ![r] = "verify"]
  /\ item' = [item EXCEPT ![r] = i]
  /\ UNCHANGED <<result, leaseEnd, queued, claimsState, historyVars, reset, faults>>

\* retainRetryableExposures, when the answer arrives.
Reply(r) ==
  /\ pc[r] = "reply" /\ Idle(r)
  /\ \/ queued' = (IF result[r] = "retry" THEN queued ELSE queued \ {item[r]}) /\ NoFault
     \/ UNCHANGED queued /\ Fault
  /\ UNCHANGED <<claimsState, historyVars, reset>>

\* The isolate is killed; the claim it holds stays.
Crash(r) ==
  /\ pc[r] \notin {"idle", "reply"} /\ Fault
  /\ Idle(r)
  /\ UNCHANGED <<queued, claimsState, historyVars, reset>>

-----------------------------------------------------------------------------
(* redeemOne *)
Verify(r) ==
  /\ pc[r] = "verify"
  /\ IF now - 1 > TicketTTL THEN Answer(r, "expired")
     ELSE IF reset THEN Answer(r, "invalid") \/ Answer(r, "retry")
     ELSE Goto(r, "claim")
  /\ UNCHANGED <<claimsState, historyVars, reset, faults>>

ClaimCall(r) ==
  LET outcome == ClaimOutcome(X(r), T(r)) IN
  /\ pc[r] = "claim" /\ NoFault
  /\ Claim(X(r), T(r))
  /\ \/ outcome = "conflict" /\ Answer(r, "conflict")
     \/ outcome = "busy" /\ Answer(r, "retry")
     \/ outcome = "deduplicated" /\ Goto(r, "deduplicated")
     \/ outcome = "resume_ack" /\ Goto(r, "resume")
     \/ /\ outcome = "acquired"
        /\ pc' = [pc EXCEPT ![r] = "assemble"]
        /\ leaseEnd' = [leaseEnd EXCEPT ![r] = now + Lease]
        /\ UNCHANGED <<item, result, queued>>
  /\ UNCHANGED <<now, historyVars, reset>>

\* A transport failure, before or after the claim was written.
ClaimLost(r) ==
  /\ pc[r] = "claim" /\ Fault
  /\ Claim(X(r), T(r)) \/ UNCHANGED claimVars
  /\ Answer(r, "retry")
  /\ UNCHANGED <<now, historyVars, reset>>

\* completeDeduplicated and completeAcknowledgeOnly: the check of the generation.
ResumeCheck(r) ==
  /\ pc[r] \in {"deduplicated", "resume"}
  /\ IF reset THEN Answer(r, "retry")
     ELSE IF pc[r] = "resume" THEN Goto(r, "ack") ELSE Plan(r, "holdover", "deduplicated")
  /\ UNCHANGED <<claimsState, historyVars, reset, faults>>

\* assembleClaimedExposure: a stale generation leaves the claim, a missing source id releases it.
Assemble(r) ==
  /\ pc[r] = "assemble"
  /\ IF reset THEN Answer(r, "retry") /\ NoFault
     ELSE \/ Goto(r, "ingest") /\ NoFault
          \/ Plan(r, "release", "retry") /\ Fault
  /\ UNCHANGED <<claimsState, historyVars, reset>>

\* Event Ingest has the Exposure, or refuses it (400 or another status), or its answer is lost.
IngestExposure(r) ==
  /\ pc[r] = "ingest"
  /\ \/ landed' = landed \cup {T(r)} /\ Goto(r, "confirm") /\ NoFault
     \/ landed' \in {landed, landed \cup {T(r)}} /\ Plan(r, "release", "retry") /\ Fault
     \/ UNCHANGED landed /\ Plan(r, "release", "validation") /\ Fault
  /\ UNCHANGED <<claimsState, holdover, settledUntil, overran, reset>>

ReleaseClaimQuietly(r) ==
  /\ pc[r] = "release"
  /\ \/ Release(X(r), T(r)) /\ NoFault
     \/ UNCHANGED claimVars /\ Fault
  /\ Goto(r, "reply")
  /\ UNCHANGED <<now, historyVars, reset>>

Confirm(r) ==
  /\ pc[r] = "confirm"
  /\ IF reset THEN Answer(r, "retry") ELSE Goto(r, "seal")
  /\ UNCHANGED <<claimsState, historyVars, reset, faults>>

Seals(r) ==
  /\ MarkSealed(X(r), T(r))
  /\ settledUntil' = IF MarkSealedOutcome(X(r), T(r)) = "sealed"
                     THEN [settledUntil EXCEPT ![T(r)] = now + ClaimTTL] ELSE settledUntil

MarkSealedCall(r) ==
  /\ pc[r] = "seal"
  /\ \/ /\ Seals(r) /\ NoFault
        /\ IF MarkSealedOutcome(X(r), T(r)) \in {"ok", "sealed"} THEN Goto(r, "ack")
           ELSE Plan(r, "fault", "internal")
     \/ /\ Seals(r) \/ UNCHANGED <<claimVars, settledUntil>>
        /\ Fault /\ Plan(r, "fault", "retry")
  /\ UNCHANGED <<now, landed, holdover, overran, reset>>

AcknowledgeCall(r) ==
  LET outcome == AcknowledgeOutcome(X(r), T(r)) IN
  /\ pc[r] = "ack"
  /\ \/ /\ Acknowledge(X(r), T(r)) /\ NoFault
        /\ IF outcome = "accepted" THEN Plan(r, "holdover", "accepted")
           ELSE IF outcome = "already_accepted" THEN Plan(r, "holdover", "deduplicated")
           ELSE Plan(r, "fault", "internal")
     \/ /\ Acknowledge(X(r), T(r)) \/ UNCHANGED claimVars
        /\ Fault /\ Plan(r, "fault", "retry")
  /\ UNCHANGED <<now, historyVars, reset>>

\* Mutant: a failed holdover write is passed over.
EnsureHoldoverQuietly(r) ==
  /\ pc[r] \in {"holdover", "fault"}
  /\ \/ holdover' = holdover \cup {T(r)} /\ NoFault
     \/ UNCHANGED holdover /\ Fault
  /\ Goto(r, IF pc[r] = "holdover" THEN "settle" ELSE "reply")
  /\ UNCHANGED <<claimsState, landed, settledUntil, overran, reset>>

\* ensureHoldoverWrite, before a success ("holdover") and in the catch blocks ("fault").
EnsureHoldover(r) ==
  /\ pc[r] \in {"holdover", "fault"}
  /\ \/ /\ holdover' = holdover \cup {T(r)} /\ NoFault
        /\ Goto(r, IF pc[r] = "holdover" THEN "settle" ELSE "reply")
     \/ UNCHANGED holdover /\ Fault /\ \E answer \in {"internal", "suppressed", "retry"} : Answer(r, answer)
  /\ UNCHANGED <<claimsState, landed, settledUntil, overran, reset>>

\* The last check of the generation before a success is reported.
Settle(r) ==
  /\ pc[r] = "settle"
  /\ IF reset THEN Answer(r, "retry") ELSE Goto(r, "reply")
  /\ UNCHANGED <<claimsState, historyVars, reset, faults>>

-----------------------------------------------------------------------------
(* App identity reset *)
ResetIdentity ==
  /\ ~reset /\ reset' = TRUE
  /\ UNCHANGED <<claimsState, sdkVars, historyVars, faults>>

PurgeClaims ==
  /\ reset /\ DeleteAll
  /\ settledUntil' = [t \in Tickets |-> 0]
  /\ UNCHANGED <<now, sdkVars, landed, holdover, overran, reset, faults>>

RunAlarm == RunClaimAlarm /\ UNCHANGED <<now, sdkVars, historyVars, reset, faults>>

\* Between its claim and its seal, a redemption appends or has appended.
MayAppend(r) == pc[r] \in {"ingest", "confirm", "seal"} \/ (pc[r] = "assemble" /\ ~reset)
Holding(r) == MayAppend(r) \/ pc[r] = "release"

Tick ==
  /\ Clock
  /\ overran' = overran \cup {T(r) : r \in {q \in Redemptions : Holding(q) /\ leaseEnd[q] <= now'}}
  /\ UNCHANGED <<sdkVars, landed, holdover, settledUntil, reset, faults>>

Redeem(r) ==
  \/ Verify(r) \/ ClaimCall(r) \/ ClaimLost(r) \/ ResumeCheck(r) \/ Assemble(r)
  \/ IngestExposure(r) \/ ReleaseClaimQuietly(r) \/ Confirm(r) \/ MarkSealedCall(r)
  \/ AcknowledgeCall(r) \/ EnsureHoldover(r) \/ Settle(r) \/ Reply(r) \/ Crash(r)

Next ==
  \/ \E r \in Redemptions : Redeem(r) \/ \E i \in Items : Flush(r, i)
  \/ ResetIdentity \/ PurgeClaims \/ RunAlarm \/ Tick

Spec == Init /\ [][Next]_vars

-----------------------------------------------------------------------------
TypeOK ==
  /\ ClaimsTypeOK
  /\ pc \in [Redemptions -> {"idle", "verify", "claim", "deduplicated", "resume", "assemble",
                             "ingest", "release", "confirm", "seal", "ack", "holdover",
                             "fault", "settle", "reply"}]
  /\ item \in [Redemptions -> Items \cup {NoItem}] /\ queued \subseteq Items
  /\ result \in [Redemptions -> Results]
  /\ leaseEnd \in [Redemptions -> Nat]
  /\ landed \subseteq Tickets /\ holdover \subseteq Tickets /\ overran \subseteq Tickets
  /\ settledUntil \in [Tickets -> Nat]
  /\ reset \in BOOLEAN /\ faults \in 0..MaxFaults

(* `deduplicated` is returned only after an append has been committed, and *)
(* an item leaves the SDK's queue as accepted, deduplicated, suppressed or *)
(* INTERNAL_SERVER_ERROR only with its Exposure in Event Ingest, whatever  *)
(* leases lapsed, calls were lost and claims were purged on the way.       *)
NothingLost ==
  \A r \in Redemptions :
    pc[r] = "reply" /\ result[r] \in {"accepted", "deduplicated", "suppressed", "internal"} =>
      T(r) \in landed

(* A success is reported only when the holdover is written or owned.       *)
SuccessOwnsHoldover ==
  \A r \in Redemptions :
    pc[r] = "reply" /\ result[r] \in {"accepted", "deduplicated"} => T(r) \in holdover

(* Two redemptions may append the same ticket at the same time only once   *)
(* one of that ticket outlived its pending lease.                          *)
OneAppender ==
  \A q, r \in Redemptions :
    q # r /\ MayAppend(q) /\ MayAppend(r) /\ T(q) = T(r) => T(r) \in overran

(* Once a redemption of a ticket is sealed, no other one acquires it for   *)
(* the claim TTL, unless the claims were purged: a replay under the same   *)
(* or a fresh exposureId appends no second row, even when the first        *)
(* redemption is late and releases or seals a claim it no longer holds.    *)
SealedAppendsOnce ==
  [][\A r \in Redemptions :
       pc[r] = "claim" /\ pc'[r] = "assemble" => now >= settledUntil[T(r)]]_vars
=============================================================================
