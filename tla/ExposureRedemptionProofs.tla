--------------------- MODULE ExposureRedemptionProofs ---------------------
(***************************************************************************)
(* Proofs about the redemption route, for every number of redemptions,     *)
(* items and faults, every lease and every time to live.                   *)
(***************************************************************************)
EXTENDS ExposureRedemption, RedemptionClaimsProofs

Success == {"accepted", "deduplicated"}
Appended == {"deduplicated", "resume", "confirm", "seal", "ack", "holdover", "fault", "settle"}

\* What a redemption knows where it stands.
PathOK(r) ==
  /\ pc[r] = "idle" \/ item[r] \in Items
  /\ pc[r] \in Appended => T(r) \in landed
  /\ pc[r] = "release" => result[r] \in {"retry", "validation"}
  /\ pc[r] = "fault" => result[r] \in {"internal", "retry"}
  /\ pc[r] = "settle" => T(r) \in holdover
  /\ pc[r] = "reply" /\ result[r] \in Success \cup {"suppressed", "internal"} => T(r) \in landed
  /\ pc[r] = "reply" /\ result[r] \in Success => T(r) \in holdover

\* A row is remembered only for an Exposure that Event Ingest has.
TicketLanded(t) == Remembered(ticket[t]) => t \in landed
ExposureLanded(x) == Remembered(exposure[x]) => exposure[x].bound \in landed
\* A seal is remembered for the claim TTL.
SettledOK(t) == settledUntil[t] > now => Remembered(ticket[t]) /\ ticket[t].expiresAt >= settledUntil[t]

\* A redemption within its lease has the ticket's row, and has it alone.
HeldOK(r) ==
  ~reset /\ Holding(r) /\ T(r) \notin overran =>
    leaseEnd[r] > now /\ ticket[T(r)] = Row(X(r), "pending", leaseEnd[r])
HeldAlone(q, r) == q # r /\ Holding(q) /\ Holding(r) /\ T(q) = T(r) => T(r) \in overran

Inv ==
  /\ TypeOK /\ ClaimsInv
  /\ \A r \in Redemptions : PathOK(r)
  /\ \A t \in Tickets : TicketLanded(t) /\ SettledOK(t)
  /\ \A x \in Exposures : ExposureLanded(x)

HeldInv ==
  /\ \A r \in Redemptions : HeldOK(r)
  /\ \A q, r \in Redemptions : HeldAlone(q, r)

LEMMA InitInv == ASSUME Init PROVE Inv /\ HeldInv
<1>1. ClaimsInv BY InitClaims DEF Init
<1>2. TypeOK
  <2>1. ClaimsTypeOK BY <1>1 DEF ClaimsInv
  <2>2. item \in [Redemptions -> Items \cup {NoItem}] BY DEF Init
  <2>3. pc = [r \in Redemptions |-> "idle"] /\ result = [r \in Redemptions |-> "none"]
    BY DEF Init
  <2>4. leaseEnd \in [Redemptions -> Nat] /\ settledUntil \in [Tickets -> Nat]
    BY DEF Init
  <2>5. queued \subseteq Items /\ landed \subseteq Tickets /\ holdover \subseteq Tickets
        /\ overran \subseteq Tickets /\ reset \in BOOLEAN
    BY DEF Init
  <2>6. faults \in 0..MaxFaults BY RedemptionAssumption DEF Init
  <2> QED BY <2>1, <2>2, <2>3, <2>4, <2>5, <2>6 DEF TypeOK, Results
<1>3. \A r \in Redemptions : PathOK(r) /\ HeldOK(r)
  BY DEF Init, PathOK, HeldOK, Holding, MayAppend, Appended
<1>4. \A q, r \in Redemptions : HeldAlone(q, r)
  BY DEF Init, HeldAlone, Holding, MayAppend
<1>5. /\ \A t \in Tickets : TicketLanded(t) /\ SettledOK(t)
      /\ \A x \in Exposures : ExposureLanded(x)
  BY DEF Init, ClaimsInit, TicketLanded, SettledOK, ExposureLanded, Remembered, NoRow
<1> QED BY <1>1, <1>2, <1>3, <1>4, <1>5 DEF Inv, HeldInv

(* The item of a redemption that is under way. *)
LEMMA ActiveItem ==
  ASSUME Inv, NEW r \in Redemptions, pc[r] # "idle"
  PROVE  item[r] \in Items /\ X(r) \in Exposures /\ T(r) \in Tickets
BY RedemptionAssumption DEF Inv, PathOK, X, T

-----------------------------------------------------------------------------
(* What a step does to the claims, to landed and to settledUntil. *)
Apart == UNCHANGED <<claimsState, settledUntil>> /\ landed \subseteq landed'
CallShape(r) ==
  /\ UNCHANGED <<now, landed>>
  /\ \/ (Quiet(X(r), T(r)) \/ Accept(X(r), T(r))) /\ UNCHANGED settledUntil
     \/ /\ Seal(X(r), T(r)) /\ pc[r] = "seal"
        /\ settledUntil' = [settledUntil EXCEPT ![T(r)] = now + ClaimTTL]
Called(r) ==
  pc[r] # "idle" /\ CallShape(r) /\ (ClaimCall(r) \/ ClaimLost(r) \/ ReleaseClaimQuietly(r) \/ MarkSealedCall(r) \/ AcknowledgeCall(r))
Purged == reset /\ DeleteAll /\ settledUntil' = [t \in Tickets |-> 0] /\ UNCHANGED <<now, landed>>
Swept == RunClaimAlarm /\ UNCHANGED <<now, landed, settledUntil>>
Ticked == Clock /\ UNCHANGED <<landed, settledUntil>>

LEMMA StepShapes ==
  ASSUME Inv, [Next]_vars
  PROVE  \/ Apart \/ (\E r \in Redemptions : Called(r)) \/ Purged \/ Swept \/ Ticked
<1>1. CASE UNCHANGED vars BY <1>1 DEF vars, historyVars, Apart
<1>2. ASSUME NEW r \in Redemptions, \E i \in Items : Flush(r, i) PROVE Apart
  BY <1>2 DEF Flush, historyVars, Apart
<1>3. ASSUME NEW r \in Redemptions, Redeem(r) PROVE Apart \/ Called(r)
  <2>1. CASE Verify(r) \/ ResumeCheck(r) \/ Assemble(r) \/ Confirm(r) \/ Settle(r)
    BY <2>1 DEF Verify, ResumeCheck, Assemble, Confirm, Settle, historyVars, Apart
  <2>2. CASE Reply(r) \/ Crash(r) \/ EnsureHoldover(r)
    BY <2>2 DEF Reply, Crash, EnsureHoldover, historyVars, Apart
  <2>3. CASE IngestExposure(r)
    BY <2>3 DEF IngestExposure, Apart
  <2>4. CASE ClaimCall(r)
    <3>1. pc[r] # "idle" BY <2>4 DEF ClaimCall
    <3>2. Quiet(X(r), T(r)) BY <3>1, <2>4, ActiveItem, RouteShapes DEF ClaimCall, Inv
    <3> QED BY <3>1, <3>2, <2>4 DEF ClaimCall, historyVars, CallShape, Called
  <2>5. CASE ClaimLost(r)
    <3>1. pc[r] # "idle" BY <2>5 DEF ClaimLost
    <3>2. Claim(X(r), T(r)) => Quiet(X(r), T(r)) BY <3>1, ActiveItem, RouteShapes DEF Inv
    <3> QED BY <3>1, <3>2, <2>5 DEF ClaimLost, historyVars, claimsState, CallShape, Called, Apart
  <2>6. CASE ReleaseClaimQuietly(r)
    <3>1. pc[r] # "idle" BY <2>6 DEF ReleaseClaimQuietly
    <3>2. Release(X(r), T(r)) => Quiet(X(r), T(r)) BY <3>1, ActiveItem, RouteShapes DEF Inv
    <3> QED BY <3>1, <3>2, <2>6 DEF ReleaseClaimQuietly, historyVars, claimsState, CallShape, Called, Apart
  <2>7. CASE MarkSealedCall(r)
    <3>1. pc[r] # "idle" /\ pc[r] = "seal" BY <2>7 DEF MarkSealedCall
    <3>2. MarkSealed(X(r), T(r)) =>
            IF MarkSealedOutcome(X(r), T(r)) = "sealed" THEN Seal(X(r), T(r)) ELSE Quiet(X(r), T(r))
      BY <3>1, ActiveItem, RouteShapes DEF Inv
    <3> QED BY <3>1, <3>2, <2>7 DEF MarkSealedCall, Seals, claimsState, CallShape, Called, Apart
  <2>8. CASE AcknowledgeCall(r)
    <3>1. pc[r] # "idle" BY <2>8 DEF AcknowledgeCall
    <3>2. Acknowledge(X(r), T(r)) => Quiet(X(r), T(r)) \/ Accept(X(r), T(r))
      BY <3>1, ActiveItem, RouteShapes DEF Inv
    <3> QED BY <3>1, <3>2, <2>8 DEF AcknowledgeCall, historyVars, claimsState, CallShape, Called, Apart
  <2> QED BY <1>3, <2>1, <2>2, <2>3, <2>4, <2>5, <2>6, <2>7, <2>8 DEF Redeem
<1>4. CASE ResetIdentity BY <1>4 DEF ResetIdentity, historyVars, Apart
<1>5. CASE PurgeClaims BY <1>5 DEF PurgeClaims, Purged
<1>6. CASE RunAlarm BY <1>6 DEF RunAlarm, historyVars, Swept
<1>7. CASE Tick BY <1>7 DEF Tick, Ticked
<1> QED BY <1>1, <1>2, <1>3, <1>4, <1>5, <1>6, <1>7 DEF Next

-----------------------------------------------------------------------------
LEMMA ClaimsInvStep == ASSUME Inv, [Next]_vars PROVE ClaimsInv'
<1>0. ClaimsInv BY DEF Inv
<1>1. CASE Apart BY <1>0, <1>1, ClaimsStutter DEF Apart
<1>2. ASSUME NEW r \in Redemptions, Called(r) PROVE ClaimsInv'
  <2>1. X(r) \in Exposures /\ T(r) \in Tickets /\ UNCHANGED now
    BY <1>2, ActiveItem DEF Called, CallShape
  <2>2. CASE Claim(X(r), T(r)) BY <2>1, <2>2, <1>0, RoutesKeepInv
  <2>3. CASE Release(X(r), T(r)) BY <2>1, <2>3, <1>0, RoutesKeepInv
  <2>4. CASE MarkSealed(X(r), T(r)) BY <2>1, <2>4, <1>0, RoutesKeepInv
  <2>5. CASE Acknowledge(X(r), T(r)) BY <2>1, <2>5, <1>0, RoutesKeepInv
  <2>6. CASE UNCHANGED claimVars BY <2>1, <2>6, <1>0, ClaimsStutter DEF claimsState
  <2> QED BY <1>2, <2>2, <2>3, <2>4, <2>5, <2>6
          DEF Called, ClaimCall, ClaimLost, ReleaseClaimQuietly, MarkSealedCall, AcknowledgeCall, Seals
<1>3. CASE Purged BY <1>0, <1>3, DeleteAllKeepsInv DEF Purged
<1>4. CASE Swept BY <1>0, <1>4, SweepKeepsInv DEF Swept
<1>5. CASE Ticked BY <1>0, <1>5, ClockKeepsInv DEF Ticked
<1> QED BY <1>1, <1>2, <1>3, <1>4, <1>5, StepShapes

(* The rows remember what has landed, and a seal for the claim TTL. *)
RowsOK(u, y) ==
  /\ u \in Tickets => TicketLanded(u) /\ SettledOK(u)
  /\ y \in Exposures => ExposureLanded(y)

LEMMA RowsStep ==
  ASSUME Inv, [Next]_vars, NEW u, NEW y
  PROVE  RowsOK(u, y)'
<1> USE RowTypes, ClaimsAssumption
<1>0. /\ ClaimsInv /\ ClaimsTypeOK /\ now \in Nat \ {0}
      /\ exposure \in [Exposures -> ExposureRows \cup {NoRow}]
      /\ ticket \in [Tickets -> TicketRows \cup {NoRow}]
      /\ settledUntil \in [Tickets -> Nat]
      /\ RowsOK(u, y)
      /\ \A t \in Tickets : TicketLanded(t) /\ SettledOK(t)
      /\ \A x \in Exposures : ExposureLanded(x) /\ PairOK(x)
  BY PairDef DEF RowsOK, Inv, ClaimsInv, ClaimsTypeOK, TypeOK
<1>1. CASE Apart
  BY <1>0, <1>1 DEF Apart, claimsState, claimVars, RowsOK, TicketLanded, ExposureLanded, SettledOK
<1>2. ASSUME NEW r \in Redemptions, Called(r) PROVE RowsOK(u, y)'
  <2>1. PICK x \in Exposures, t \in Tickets :
          /\ x = X(r) /\ t = T(r)
          /\ UNCHANGED <<now, landed>>
          /\ \/ (Quiet(x, t) \/ Accept(x, t)) /\ UNCHANGED settledUntil
             \/ /\ Seal(x, t) /\ t \in landed
                /\ settledUntil' = [settledUntil EXCEPT ![t] = now + ClaimTTL]
    BY <1>2, ActiveItem DEF Called, CallShape, Inv, PathOK, Appended
  <2>2. PairOK(x) /\ TicketLanded(t) /\ ExposureLanded(x) BY <1>0
  <2>3. CASE Quiet(x, t) /\ UNCHANGED settledUntil
    <3>1. CASE UNCHANGED <<exposure, ticket>>
      BY <3>1, <2>1, <2>3, <1>0 DEF RowsOK, TicketLanded, ExposureLanded, SettledOK
    <3>2. CASE DropExposure(x)
      BY <3>2, <2>1, <2>3, <1>0 DEF DropExposure, RowsOK, TicketLanded, ExposureLanded, SettledOK, Remembered, NoRow
    <3>3. CASE DropTicket(t)
      BY <3>3, <2>1, <2>3, <1>0 DEF DropTicket, RowsOK, TicketLanded, ExposureLanded, SettledOK, Remembered, NoRow, Live
    <3>4. CASE Bind(x, t)
      <4>1. Remembered(ticket[t])
        BY <3>4, <1>0 DEF Bind, Remembered, TicketRows, Deliveries
      <4> QED BY <4>1, <3>4, <2>1, <2>2, <2>3, <1>0
              DEF Bind, RowsOK, TicketLanded, ExposureLanded, SettledOK, Remembered, Row
    <3>5. CASE Unclaim(x, t)
      <4>1. ~Remembered(ticket[t])
        BY <3>5, <2>2 DEF Unclaim, PairOK, Remembered
      <4> QED BY <4>1, <3>5, <2>1, <2>3, <1>0
              DEF Unclaim, RowsOK, TicketLanded, ExposureLanded, SettledOK, Remembered, NoRow
    <3>6. CASE AcquirePending(x, t)
      BY <3>6, <2>1, <2>3, <1>0
      DEF AcquirePending, RowsOK, TicketLanded, ExposureLanded, SettledOK, Remembered, Row, Live
    <3> QED BY <2>3, <3>1, <3>2, <3>3, <3>4, <3>5, <3>6 DEF Quiet
  <2>4. CASE Accept(x, t) /\ UNCHANGED settledUntil
    <3>1. t \in landed BY <2>4, <2>2 DEF Accept, ExposureLanded, Remembered
    <3> QED BY <3>1, <2>1, <2>4, <1>0
            DEF Accept, RowsOK, TicketLanded, ExposureLanded, SettledOK, Remembered, Row
  <2>5. CASE Seal(x, t) /\ t \in landed /\ settledUntil' = [settledUntil EXCEPT ![t] = now + ClaimTTL]
    BY <2>1, <2>5, <1>0 DEF Seal, RowsOK, TicketLanded, ExposureLanded, SettledOK, Remembered, Row
  <2> QED BY <2>1, <2>3, <2>4, <2>5
<1>3. CASE Purged
  BY <1>0, <1>3 DEF Purged, DeleteAll, RowsOK, TicketLanded, ExposureLanded, SettledOK, Remembered, NoRow
<1>4. CASE Swept
  <2>1. PICK page : DeleteExpired(page) BY <1>4 DEF Swept, RunClaimAlarm
  <2>2. /\ y \in Exposures => exposure'[y] = exposure[y] \/ exposure'[y] = NoRow
        /\ u \in Tickets => ticket'[u] = ticket[u] \/ (ticket'[u] = NoRow /\ ~Live(ticket[u]))
    BY <2>1 DEF DeleteExpired
  <2>3. UNCHANGED <<now, landed, settledUntil>> BY <1>4 DEF Swept
  <2>4. y \in Exposures => ExposureLanded(y)'
    BY <2>2, <2>3, <1>0 DEF RowsOK, ExposureLanded, Remembered, NoRow
  <2>5. u \in Tickets => TicketLanded(u)'
    BY <2>2, <2>3, <1>0 DEF RowsOK, TicketLanded, Remembered, NoRow
  <2>6. u \in Tickets => SettledOK(u)'
    BY <2>2, <2>3, <1>0 DEF RowsOK, SettledOK, Remembered, NoRow, Live
  <2> QED BY <2>4, <2>5, <2>6 DEF RowsOK
<1>5. CASE Ticked
  <2>1. UNCHANGED <<exposure, ticket, landed, settledUntil>> /\ now' = now + 1
    BY <1>5 DEF Ticked, Clock, claimVars
  <2>2. u \in Tickets => TicketLanded(u)' /\ SettledOK(u)'
    BY <2>1, <1>0 DEF RowsOK, TicketLanded, SettledOK, Remembered
  <2> QED BY <2>1, <2>2, <1>0 DEF RowsOK, ExposureLanded, Remembered
<1> QED BY <1>1, <1>2, <1>3, <1>4, <1>5, StepShapes

-----------------------------------------------------------------------------
(* A claim that answers deduplicated or resume_ack has landed. *)
LEMMA ClaimAnswer ==
  ASSUME Inv, NEW x \in Exposures, NEW t \in Tickets,
         ClaimOutcome(x, t) \in {"deduplicated", "resume_ack"}
  PROVE  t \in landed
<1> USE RowTypes
<1>1. /\ ClaimsTypeOK /\ TicketLanded(t) /\ ExposureLanded(x)
      /\ Live(exposure[x]) => exposure[x].delivery \in Deliveries
      /\ Live(ticket[t]) => ticket[t].delivery \in Deliveries
  BY DEF Inv, ClaimsInv, ExposureRows, TicketRows
<1> QED BY <1>1 DEF ClaimOutcome, TicketLanded, ExposureLanded, Remembered, Deliveries

LEMMA PathStep ==
  ASSUME Inv, [Next]_vars, NEW q \in Redemptions
  PROVE  PathOK(q)'
<1>0. /\ PathOK(q) /\ q \in DOMAIN pc /\ q \in DOMAIN item /\ q \in DOMAIN result /\ q \in DOMAIN leaseEnd
      /\ pc \in [Redemptions -> {pc[r] : r \in Redemptions}]
      /\ item \in [Redemptions -> {item[r] : r \in Redemptions}]
      /\ result \in [Redemptions -> {result[r] : r \in Redemptions}]
  BY DEF Inv, TypeOK
<1>1. CASE pc'[q] = pc[q] /\ item'[q] = item[q] /\ result'[q] = result[q]
            /\ landed \subseteq landed' /\ holdover \subseteq holdover'
  BY <1>0, <1>1 DEF PathOK, T
<1>2. CASE UNCHANGED vars
  BY <1>1, <1>2 DEF vars, sdkVars, historyVars
<1>3. CASE ResetIdentity \/ PurgeClaims \/ RunAlarm \/ Tick
  BY <1>1, <1>3 DEF ResetIdentity, PurgeClaims, RunAlarm, Tick, sdkVars, historyVars
<1>4. ASSUME NEW r \in Redemptions, Redeem(r) \/ \E i \in Items : Flush(r, i) PROVE PathOK(q)'
  <2>1. CASE q # r
    <3>1. pc'[q] = pc[q] /\ item'[q] = item[q] /\ result'[q] = result[q]
      BY <1>0, <1>4, <2>1
      DEF Redeem, Flush, Verify, ClaimCall, ClaimLost, ResumeCheck, Assemble, IngestExposure,
          ReleaseClaimQuietly, Confirm, MarkSealedCall, AcknowledgeCall, EnsureHoldover, Settle, Reply,
          Crash, Goto, Plan, Answer, Idle
    <3>2. landed \subseteq landed' /\ holdover \subseteq holdover'
      BY <1>4
      DEF Redeem, Flush, Verify, ClaimCall, ClaimLost, ResumeCheck, Assemble, IngestExposure,
          ReleaseClaimQuietly, Confirm, MarkSealedCall, AcknowledgeCall, EnsureHoldover, Settle, Reply,
          Crash, historyVars
    <3> QED BY <1>1, <3>1, <3>2
  <2>2. CASE q = r
    <3>0. /\ pc[r] # "idle" => item[r] \in Items /\ X(r) \in Exposures /\ T(r) \in Tickets
          /\ PathOK(r) BY ActiveItem, <1>0, <2>2
    <3>1. CASE \E i \in Items : Flush(r, i)
      BY <1>0, <2>2, <3>0, <3>1 DEF Flush, PathOK, Appended
    <3>2. CASE Verify(r)
      BY <1>0, <2>2, <3>0, <3>2 DEF Verify, Goto, Plan, Answer, PathOK, Appended, Success, historyVars, T
    <3>3. CASE ClaimCall(r)
      <4>1. ClaimOutcome(X(r), T(r)) \in {"deduplicated", "resume_ack"} => T(r) \in landed
        BY <3>0, <3>3, ClaimAnswer DEF ClaimCall
      <4> QED BY <4>1, <1>0, <2>2, <3>0, <3>3
              DEF ClaimCall, Goto, Plan, Answer, PathOK, Appended, Success, historyVars, T
    <3>4. CASE ClaimLost(r)
      BY <1>0, <2>2, <3>0, <3>4 DEF ClaimLost, Plan, Answer, PathOK, Appended, Success, historyVars, T
    <3>5. CASE ResumeCheck(r)
      BY <1>0, <2>2, <3>0, <3>5 DEF ResumeCheck, Goto, Plan, Answer, PathOK, Appended, Success, historyVars, T
    <3>6. CASE Assemble(r)
      BY <1>0, <2>2, <3>0, <3>6 DEF Assemble, Goto, Plan, Answer, PathOK, Appended, Success, historyVars, T
    <3>7. CASE IngestExposure(r)
      BY <1>0, <2>2, <3>0, <3>7 DEF IngestExposure, Goto, Plan, PathOK, Appended, Success, T
    <3>8. CASE ReleaseClaimQuietly(r)
      BY <1>0, <2>2, <3>0, <3>8 DEF ReleaseClaimQuietly, Goto, PathOK, Appended, Success, historyVars, T
    <3>9. CASE Confirm(r)
      BY <1>0, <2>2, <3>0, <3>9 DEF Confirm, Goto, Plan, Answer, PathOK, Appended, Success, historyVars, T
    <3>10. CASE MarkSealedCall(r)
      BY <1>0, <2>2, <3>0, <3>10 DEF MarkSealedCall, Goto, Plan, PathOK, Appended, Success, T
    <3>11. CASE AcknowledgeCall(r)
      BY <1>0, <2>2, <3>0, <3>11 DEF AcknowledgeCall, Plan, PathOK, Appended, Success, historyVars, T
    <3>12. CASE EnsureHoldover(r)
      BY <1>0, <2>2, <3>0, <3>12 DEF EnsureHoldover, Goto, Plan, Answer, PathOK, Appended, Success, T
    <3>13. CASE Settle(r)
      BY <1>0, <2>2, <3>0, <3>13 DEF Settle, Goto, Plan, Answer, PathOK, Appended, Success, historyVars, T
    <3>14. CASE Reply(r) \/ Crash(r)
      BY <1>0, <2>2, <3>0, <3>14 DEF Reply, Crash, Idle, PathOK, Appended, Success, historyVars, T
    <3> QED BY <1>4, <3>1, <3>2, <3>3, <3>4, <3>5, <3>6, <3>7, <3>8, <3>9, <3>10, <3>11, <3>12, <3>13, <3>14 DEF Redeem
  <2> QED BY <2>1, <2>2
<1> QED BY <1>2, <1>3, <1>4 DEF Next
-----------------------------------------------------------------------------
(* A redemption begins to hold its ticket by acquiring it. *)
Acquires(r) ==
  /\ ClaimCall(r) /\ ClaimOutcome(X(r), T(r)) = "acquired" /\ ~reset
  /\ UNCHANGED <<now, item, overran, reset>> /\ leaseEnd'[r] = now + Lease
Keeps(r) == Holding(r) /\ item'[r] = item[r] /\ leaseEnd'[r] = leaseEnd[r]

LEMMA HoldingStep ==
  ASSUME Inv, [Next]_vars, NEW r \in Redemptions, Holding(r)'
  PROVE  overran \subseteq overran' /\ (Keeps(r) \/ Acquires(r))
<1>0. /\ r \in DOMAIN pc /\ r \in DOMAIN item /\ r \in DOMAIN leaseEnd
      /\ pc \in [Redemptions -> {pc[q] : q \in Redemptions}]
      /\ item \in [Redemptions -> {item[q] : q \in Redemptions}]
      /\ leaseEnd \in [Redemptions -> Nat]
  BY DEF Inv, TypeOK
<1>1. CASE UNCHANGED vars
  BY <1>1 DEF vars, sdkVars, historyVars, Keeps, Holding, MayAppend
<1>2. CASE ResetIdentity \/ PurgeClaims \/ RunAlarm \/ Tick
  BY <1>2 DEF ResetIdentity, PurgeClaims, RunAlarm, Tick, sdkVars, historyVars, Keeps, Holding, MayAppend
<1>3. ASSUME NEW q \in Redemptions, Redeem(q) \/ \E i \in Items : Flush(q, i)
      PROVE  overran \subseteq overran' /\ (Keeps(r) \/ Acquires(r))
  <2>1. reset' = reset /\ overran' = overran
    BY <1>3
    DEF Redeem, Flush, Verify, ClaimCall, ClaimLost, ResumeCheck, Assemble, IngestExposure,
        ReleaseClaimQuietly, Confirm, MarkSealedCall, AcknowledgeCall, EnsureHoldover, Settle, Reply,
        Crash, historyVars
  <2>2. CASE q # r
    <3>1. pc'[r] = pc[r] /\ item'[r] = item[r] /\ leaseEnd'[r] = leaseEnd[r]
      BY <1>0, <1>3, <2>2
      DEF Redeem, Flush, Verify, ClaimCall, ClaimLost, ResumeCheck, Assemble, IngestExposure,
          ReleaseClaimQuietly, Confirm, MarkSealedCall, AcknowledgeCall, EnsureHoldover, Settle, Reply,
          Crash, Goto, Plan, Answer, Idle
    <3> QED BY <2>1, <3>1 DEF Keeps, Holding, MayAppend
  <2>3. CASE q = r
    <3> USE <1>0, <2>1, <2>3
    <3>1. CASE \E i \in Items : Flush(r, i) BY <3>1 DEF Flush, Holding, MayAppend
    <3>2. CASE Verify(r) \/ ClaimLost(r) \/ ResumeCheck(r) \/ AcknowledgeCall(r) \/ EnsureHoldover(r)
               \/ Settle(r)
      BY <3>2 DEF Verify, ClaimLost, ResumeCheck, AcknowledgeCall, EnsureHoldover, Settle, Goto, Plan,
                  Answer, Holding, MayAppend
    <3>3. CASE Reply(r) \/ Crash(r) BY <3>3 DEF Reply, Crash, Idle, Holding, MayAppend
    <3>4. CASE Assemble(r) \/ IngestExposure(r) \/ ReleaseClaimQuietly(r)
      BY <3>4 DEF Assemble, IngestExposure, ReleaseClaimQuietly, Goto, Plan, Answer, Holding, MayAppend,
                  Keeps
    <3>5. CASE Confirm(r) \/ MarkSealedCall(r)
      BY <3>5 DEF Confirm, MarkSealedCall, Goto, Plan, Answer, Holding, MayAppend, Keeps
    <3>6. CASE ClaimCall(r)
      BY <3>6 DEF ClaimCall, Goto, Plan, Answer, Holding, MayAppend, Acquires
    <3> QED BY <1>3, <3>1, <3>2, <3>3, <3>4, <3>5, <3>6 DEF Redeem
  <2> QED BY <2>2, <2>3
<1> QED BY <1>1, <1>2, <1>3 DEF Next
(* Nobody but its holder changes the row of a ticket that is held. *)
LEMMA HeldRowStays ==
  ASSUME Inv, HeldInv, [Next]_vars, ~reset, NEW r \in Redemptions,
         Holding(r), Holding(r)', T(r) \notin overran
  PROVE  ticket'[T(r)] = ticket[T(r)]
<1> USE RowTypes
<1>0. /\ T(r) \in Tickets /\ X(r) \in Exposures
      /\ ClaimsTypeOK /\ ClaimsInv /\ now \in Nat
      /\ leaseEnd[r] > now /\ ticket[T(r)] = Row(X(r), "pending", leaseEnd[r])
      /\ ticket \in [Tickets -> TicketRows \cup {NoRow}]
  BY ActiveItem DEF Inv, HeldInv, HeldOK, Holding, MayAppend, ClaimsInv, ClaimsTypeOK
<1>1. Live(ticket[T(r)]) /\ ticket[T(r)].delivery = "pending"
  BY <1>0 DEF Live, Row
<1>2. \A t \in Tickets : Read(ticket, t)[T(r)] = ticket[T(r)]
  BY <1>0, <1>1 DEF Read
<1>3. CASE Apart BY <1>3 DEF Apart, claimsState, claimVars
<1>4. ASSUME NEW q \in Redemptions, Called(q) PROVE ticket'[T(r)] = ticket[T(r)]
  <2>0. T(q) \in Tickets /\ X(q) \in Exposures BY <1>4, ActiveItem DEF Called
  <2>1. CASE Claim(X(q), T(q))
    BY <2>0, <2>1, <1>0, <1>1, <1>2
    DEF Claim, ClaimAgainstExposure, ClaimAgainstTicket, AcquirePending
  <2>2. CASE Release(X(q), T(q)) /\ ReleaseClaimQuietly(q)
    <3>1. pc[q] = "release" /\ pc'[q] = "reply"
      BY <2>2 DEF ReleaseClaimQuietly, Goto, Inv, TypeOK
    <3>2. q # r /\ Holding(q) BY <3>1 DEF Holding, MayAppend
    <3>3. T(q) # T(r) BY <3>2 DEF HeldInv, HeldAlone
    <3> QED BY <2>0, <2>2, <3>3, <1>0, <1>2 DEF Release
  <2>3. CASE MarkSealed(X(q), T(q)) /\ MarkSealedCall(q)
    <3>1. pc[q] = "seal" /\ pc'[q] \in {"ack", "fault"}
      BY <2>3 DEF MarkSealedCall, Goto, Plan, Inv, TypeOK
    <3>2. q # r /\ Holding(q) BY <3>1 DEF Holding, MayAppend
    <3>3. T(q) # T(r) BY <3>2 DEF HeldInv, HeldAlone
    <3> QED BY <2>0, <2>3, <3>3, <1>0, <1>2 DEF MarkSealed
  <2>4. CASE Acknowledge(X(q), T(q))
    <3>1. T(q) = T(r) => AcknowledgeOutcome(X(q), T(q)) # "accepted"
      <4>1. PairOK(X(q)) BY <2>0, <1>0, PairDef DEF ClaimsInv
      <4> QED BY <4>1, <2>0, <1>0, <1>1 DEF AcknowledgeOutcome, PairOK, Deliveries, ExposureRows
    <3> QED BY <3>1, <2>0, <2>4, <1>0, <1>2 DEF Acknowledge
  <2>5. CASE UNCHANGED claimVars BY <2>5 DEF claimVars
  <2> QED BY <1>4, <2>1, <2>2, <2>3, <2>4, <2>5
          DEF Called, ClaimCall, ClaimLost, ReleaseClaimQuietly, MarkSealedCall, AcknowledgeCall, Seals
<1>5. ~Purged BY DEF Purged
<1>6. CASE Swept
  <2>1. PICK page : DeleteExpired(page) BY <1>6 DEF Swept, RunClaimAlarm
  <2> QED BY <2>1, <1>0, <1>1 DEF DeleteExpired
<1>7. CASE Ticked BY <1>7 DEF Ticked, Clock, claimVars
<1> QED BY <1>3, <1>4, <1>5, <1>6, <1>7, StepShapes
LEMMA HeldStep ==
  ASSUME Inv, HeldInv, [Next]_vars
  PROVE  HeldInv'
<1> USE RowTypes, ClaimsAssumption
<1>0. /\ ClaimsTypeOK /\ now \in Nat /\ ticket \in [Tickets -> TicketRows \cup {NoRow}]
      /\ leaseEnd \in [Redemptions -> Nat]
  BY DEF Inv, ClaimsInv, ClaimsTypeOK, TypeOK
<1>1. ASSUME NEW r \in Redemptions, Acquires(r)
      PROVE  /\ T(r) \in Tickets /\ ~Live(ticket[T(r)])
             /\ ticket'[T(r)] = Row(X(r), "pending", now + Lease)
  <2>1. T(r) \in Tickets /\ X(r) \in Exposures BY <1>1, ActiveItem DEF Acquires, ClaimCall
  <2>2. ~Live(exposure[X(r)]) /\ ~Live(ticket[T(r)]) BY <1>1 DEF Acquires, ClaimOutcome
  <2>3. Claim(X(r), T(r)) BY <1>1 DEF Acquires, ClaimCall
  <2> QED BY <2>1, <2>2, <2>3, <1>0
          DEF Claim, ClaimAgainstExposure, ClaimAgainstTicket, AcquirePending
<1>2. ASSUME NEW r \in Redemptions PROVE HeldOK(r)'
  <2>1. SUFFICES ASSUME ~reset', Holding(r)', T(r)' \notin overran'
                 PROVE  leaseEnd'[r] > now' /\ ticket'[T(r)'] = Row(X(r)', "pending", leaseEnd'[r])
    BY DEF HeldOK
  <2>2. overran \subseteq overran' /\ (Keeps(r) \/ Acquires(r)) BY <2>1, HoldingStep
  <2>3. CASE Acquires(r)
    <3>1. X(r)' = X(r) /\ T(r)' = T(r) BY <2>3 DEF Acquires, X, T
    <3>2. now' = now /\ leaseEnd'[r] = now + Lease BY <2>3 DEF Acquires
    <3> QED BY <1>0, <1>1, <2>3, <3>1, <3>2
  <2>4. CASE Keeps(r)
    <3>1. /\ X(r)' = X(r) /\ T(r)' = T(r) /\ leaseEnd'[r] = leaseEnd[r] /\ Holding(r)
          /\ T(r) \notin overran
      BY <2>1, <2>2, <2>4 DEF Keeps, X, T
    <3>2. ~reset
      BY <2>1 DEF Next, vars, Redeem, Flush, Verify, ClaimCall, ClaimLost, ResumeCheck, Assemble,
         IngestExposure, ReleaseClaimQuietly, Confirm, MarkSealedCall, AcknowledgeCall, EnsureHoldover,
         Settle, Reply, Crash, ResetIdentity, PurgeClaims, RunAlarm, Tick
    <3>3. ticket'[T(r)] = ticket[T(r)] BY <2>1, <3>1, <3>2, HeldRowStays
    <3>4. leaseEnd[r] > now /\ ticket[T(r)] = Row(X(r), "pending", leaseEnd[r])
      BY <3>1, <3>2 DEF HeldInv, HeldOK
    <3>5. leaseEnd[r] > now'
      <4>1. CASE Tick BY <4>1, <3>1, <2>1, <1>0 DEF Tick, Clock
      <4>2. CASE ~Tick
        <5>1. UNCHANGED now
          BY <4>2 DEF Next, vars, Redeem, Flush, Verify, ClaimCall, ClaimLost, ResumeCheck, Assemble,
             IngestExposure, ReleaseClaimQuietly, Confirm, MarkSealedCall, AcknowledgeCall, EnsureHoldover,
             Settle, Reply, Crash, ResetIdentity, PurgeClaims, RunAlarm, claimsState
        <5> QED BY <5>1, <3>4
      <4> QED BY <4>1, <4>2
    <3> QED BY <3>1, <3>3, <3>4, <3>5
  <2> QED BY <2>2, <2>3, <2>4
<1>3. ASSUME NEW q \in Redemptions, NEW r \in Redemptions PROVE HeldAlone(q, r)'
  <2>1. SUFFICES ASSUME q # r, Holding(q)', Holding(r)', T(q)' = T(r)' PROVE T(r)' \in overran'
    BY DEF HeldAlone
  <2>2. /\ overran \subseteq overran'
        /\ Keeps(q) \/ Acquires(q)
        /\ Keeps(r) \/ Acquires(r)
    BY <2>1, HoldingStep
  <2>3. CASE Keeps(q) /\ Keeps(r)
    BY <2>1, <2>2, <2>3 DEF Keeps, T, HeldInv, HeldAlone
  <2>4. \A o, h \in Redemptions : Acquires(o) /\ Keeps(h) /\ T(o)' = T(h)' => T(h)' \in overran'
    <3>1. SUFFICES ASSUME NEW o \in Redemptions, NEW h \in Redemptions,
                          Acquires(o), Keeps(h), T(o)' = T(h)', T(h)' \notin overran' PROVE FALSE
      OBVIOUS
    <3>2. T(h) = T(h)' /\ T(o) = T(o)' /\ ~reset /\ Holding(h) /\ T(h) \notin overran
      BY <3>1, <2>2 DEF Acquires, Keeps, T
    <3>3. leaseEnd[h] > now /\ ticket[T(h)] = Row(X(h), "pending", leaseEnd[h])
      BY <3>2 DEF HeldInv, HeldOK
    <3>4. ~Live(ticket[T(h)]) BY <3>1, <3>2, <1>1
    <3>5. ticket[T(h)].expiresAt = leaseEnd[h] BY <3>3 DEF Row
    <3> QED BY <3>3, <3>4, <3>5 DEF Live
  <2>5. ~(Acquires(q) /\ Acquires(r))
    BY <2>1, <1>0 DEF Acquires, ClaimCall, Goto, Plan, Answer, Inv, TypeOK
  <2> QED BY <2>1, <2>2, <2>3, <2>4, <2>5
<1> QED BY <1>2, <1>3 DEF HeldInv

-----------------------------------------------------------------------------
LEMMA TypeStep ==
  ASSUME Inv, [Next]_vars
  PROVE  TypeOK'
<1>0. TypeOK /\ ClaimsTypeOK' BY ClaimsInvStep DEF Inv, ClaimsInv
<1>1. CASE UNCHANGED vars BY <1>0, <1>1 DEF TypeOK, vars, sdkVars, historyVars
<1>2. CASE ResetIdentity \/ RunAlarm
  BY <1>0, <1>2 DEF ResetIdentity, RunAlarm, TypeOK, sdkVars, historyVars
<1>3. CASE PurgeClaims BY <1>0, <1>3 DEF PurgeClaims, TypeOK, sdkVars
<1>4. CASE Tick
  <2>1. \A r \in Redemptions : Holding(r) => T(r) \in Tickets
    BY ActiveItem DEF Holding, MayAppend
  <2> QED BY <2>1, <1>0, <1>4 DEF Tick, TypeOK, sdkVars
<1>5. ASSUME NEW r \in Redemptions, Redeem(r) \/ \E i \in Items : Flush(r, i) PROVE TypeOK'
  <2>0. pc[r] # "idle" => T(r) \in Tickets BY ActiveItem
  <2>1. CASE \E i \in Items : Flush(r, i)
    BY <1>0, <2>1 DEF Flush, TypeOK, historyVars
  <2>2. CASE Verify(r) \/ ResumeCheck(r) \/ Confirm(r) \/ Settle(r)
    BY <1>0, <2>2 DEF Verify, ResumeCheck, Confirm, Settle, Goto, Plan, Answer, TypeOK, historyVars, Results
  <2>3. CASE ClaimLost(r) \/ Assemble(r) \/ ReleaseClaimQuietly(r)
    BY <1>0, <2>3, RedemptionAssumption
    DEF ClaimLost, Assemble, ReleaseClaimQuietly, Goto, Plan, Answer, TypeOK, historyVars, Fault, NoFault,
        Results
  <2>4. CASE ClaimCall(r)
    <3>1. now + Lease \in Nat BY <1>0, ClaimsAssumption DEF TypeOK, ClaimsTypeOK
    <3> QED BY <1>0, <3>1, <2>4
            DEF ClaimCall, Goto, Plan, Answer, TypeOK, historyVars, NoFault, Results
  <2>5. CASE IngestExposure(r)
    BY <1>0, <2>0, <2>5, RedemptionAssumption
    DEF IngestExposure, Goto, Plan, TypeOK, Fault, NoFault, Results
  <2>6. CASE MarkSealedCall(r)
    <3>1. now + ClaimTTL \in Nat BY <1>0, ClaimsAssumption DEF TypeOK, ClaimsTypeOK
    <3>2. settledUntil' \in [Tickets -> Nat]
      BY <1>0, <3>1, <2>6 DEF MarkSealedCall, Seals, TypeOK
    <3> QED BY <1>0, <3>2, <2>6, RedemptionAssumption
            DEF MarkSealedCall, Goto, Plan, TypeOK, Fault, NoFault, Results
  <2>7. CASE AcknowledgeCall(r)
    BY <1>0, <2>7, RedemptionAssumption
    DEF AcknowledgeCall, Plan, TypeOK, historyVars, Fault, NoFault, Results
  <2>8. CASE EnsureHoldover(r)
    BY <1>0, <2>0, <2>8, RedemptionAssumption
    DEF EnsureHoldover, Goto, Plan, Answer, TypeOK, Fault, NoFault, Results
  <2>9. CASE Reply(r) \/ Crash(r)
    BY <1>0, <2>9, RedemptionAssumption DEF Reply, Crash, Idle, TypeOK, historyVars, Fault, NoFault, Results
  <2> QED BY <1>5, <2>1, <2>2, <2>3, <2>4, <2>5, <2>6, <2>7, <2>8, <2>9 DEF Redeem
<1> QED BY <1>1, <1>2, <1>3, <1>4, <1>5 DEF Next

LEMMA InvStep == ASSUME Inv, HeldInv, [Next]_vars PROVE Inv' /\ HeldInv'
<1>1. TypeOK' BY TypeStep
<1>2. ClaimsInv' BY ClaimsInvStep
<1>3. \A r \in Redemptions : PathOK(r)' BY PathStep
<1>4. \A t, x : RowsOK(t, x)' BY RowsStep
<1>5. HeldInv' BY HeldStep
<1> QED BY <1>1, <1>2, <1>3, <1>4, <1>5 DEF Inv, RowsOK

LEMMA InvHolds == Spec => [](Inv /\ HeldInv)
<1>1. Init => Inv /\ HeldInv BY InitInv
<1>2. Inv /\ HeldInv /\ [Next]_vars => Inv' /\ HeldInv' BY InvStep
<1> QED BY <1>1, <1>2, PTL DEF Spec

-----------------------------------------------------------------------------
(* Type correctness of the route, its redemptions and their histories.     *)
THEOREM TypeCorrect == Spec => []TypeOK
<1>1. Inv => TypeOK BY DEF Inv
<1> QED BY <1>1, InvHolds, PTL

(* No item leaves the SDK's queue as delivered without its Exposure in     *)
(* Event Ingest, however many redemptions race, lose calls or die.         *)
THEOREM NothingIsLost == Spec => []NothingLost
<1>1. Inv => NothingLost BY DEF Inv, PathOK, NothingLost, Success
<1> QED BY <1>1, InvHolds, PTL

(* A success is reported only with the holdover written or owned.          *)
THEOREM SuccessHasHoldover == Spec => []SuccessOwnsHoldover
<1>1. Inv => SuccessOwnsHoldover BY DEF Inv, PathOK, SuccessOwnsHoldover, Success
<1> QED BY <1>1, InvHolds, PTL

(* Within its lease, a redemption appends its ticket alone.                *)
THEOREM AppendsAlone == Spec => []OneAppender
<1>1. HeldInv => OneAppender BY DEF HeldInv, HeldAlone, OneAppender, Holding
<1> QED BY <1>1, InvHolds, PTL

(* A sealed ticket is not acquired again for the claim TTL.                *)
THEOREM SealedTicketStays == Spec => SealedAppendsOnce
<1>1. ASSUME Inv, [Next]_vars, NEW r \in Redemptions, pc[r] = "claim", pc'[r] = "assemble"
      PROVE  now >= settledUntil[T(r)]
  <2>0. /\ r \in DOMAIN pc /\ pc \in [Redemptions -> {pc[q] : q \in Redemptions}] /\ now \in Nat
        /\ settledUntil \in [Tickets -> Nat] /\ T(r) \in Tickets /\ X(r) \in Exposures
    BY <1>1, ActiveItem DEF Inv, TypeOK, ClaimsTypeOK
  <2>1. Next BY <1>1 DEF vars, sdkVars
  <2>2. PICK q \in Redemptions : Redeem(q) \/ \E i \in Items : Flush(q, i)
    BY <2>1, <1>1 DEF Next, ResetIdentity, PurgeClaims, RunAlarm, Tick, sdkVars
  <2>3. ClaimCall(r) /\ ClaimOutcome(X(r), T(r)) = "acquired"
    BY <2>0, <2>2, <1>1
    DEF Redeem, Flush, Verify, ClaimCall, ClaimLost, ResumeCheck, Assemble, IngestExposure,
        ReleaseClaimQuietly, Confirm, MarkSealedCall, AcknowledgeCall, EnsureHoldover, Settle, Reply,
        Crash, Goto, Plan, Answer, Idle
  <2>4. ~Live(ticket[T(r)]) BY <2>3 DEF ClaimOutcome
  <2>5. SettledOK(T(r)) /\ ticket[T(r)].expiresAt \in Nat BY <2>0, <1>1, RowTypes DEF Inv, ClaimsInv
  <2> QED BY <2>0, <2>4, <2>5 DEF SettledOK, Live
<1>2. Inv /\ [Next]_vars =>
        [\A r \in Redemptions : pc[r] = "claim" /\ pc'[r] = "assemble" => now >= settledUntil[T(r)]]_vars
  BY <1>1
<1> QED BY <1>2, InvHolds, PTL DEF Spec, SealedAppendsOnce
=============================================================================
