---------------------- MODULE RedemptionClaimsProofs ----------------------
(***************************************************************************)
(* Proofs about the Exposure redemption claims, for every number of        *)
(* exposureIds and tickets, every lease, time to live and page size.       *)
(***************************************************************************)
EXTENDS RedemptionClaims, TLAPS

(* The converse of ClaimHasItsTicket: a live ticket row has its owner.     *)
TicketHasItsOwner ==
  \A t \in Tickets : Live(ticket[t]) =>
    LET x == ticket[t].bound IN
    /\ exposure[x].bound = t
    /\ exposure[x].expiresAt = ticket[t].expiresAt

(* A sweep under way comes back at once.                                   *)
CursorIsArmed == after # NoKey => alarm # NoTime /\ alarm <= now

ClaimsInv ==
  /\ ClaimsTypeOK /\ ClaimHasItsTicket /\ TicketHasItsOwner
  /\ CursorIsArmed /\ SealedIsOwned

-----------------------------------------------------------------------------
(* Types of the rows. *)
LEMMA RowTypes ==
  ASSUME ClaimsTypeOK
  PROVE  /\ \A x \in Exposures : /\ exposure[x] \in ExposureRows \cup {NoRow}
                                 /\ exposure[x].expiresAt \in Nat
                                 /\ Live(exposure[x]) => exposure[x] \in ExposureRows
         /\ \A t \in Tickets : /\ ticket[t] \in TicketRows \cup {NoRow}
                               /\ ticket[t].expiresAt \in Nat
                               /\ Live(ticket[t]) => ticket[t] \in TicketRows
BY DEF ClaimsTypeOK, ExposureRows, TicketRows, NoRow, Live

LEMMA InitClaims == ASSUME ClaimsInit PROVE ClaimsInv
BY ClaimsAssumption DEF ClaimsInit, ClaimsInv, ClaimsTypeOK, ClaimHasItsTicket, TicketHasItsOwner,
   CursorIsArmed, SealedIsOwned, Remembered, Live, NoRow, NoTime, NoKey

(* The type is preserved by the routes. *)
LEMMA RoutesType ==
  ASSUME ClaimsTypeOK, NEW x \in Exposures, NEW t \in Tickets, UNCHANGED now,
         \/ Claim(x, t) \/ Release(x, t) \/ MarkSealed(x, t) \/ Acknowledge(x, t)
  PROVE  ClaimsTypeOK'
<1> USE ClaimsAssumption, RowTypes
<1> DEFINE ER == ExposureRows \cup {NoRow}
           TR == TicketRows \cup {NoRow}
<1>1. \A d \in Deliveries, e \in Nat \ {0} : Row(t, d, e) \in ExposureRows /\ Row(x, d, e) \in TicketRows
  BY DEF Row, ExposureRows, TicketRows
<1>2. now \in Nat \ {0} /\ now' = now
  BY DEF ClaimsTypeOK
<1>3. now + Lease \in Nat \ {0} /\ now + ClaimTTL \in Nat \ {0}
  BY <1>2
<1>4. /\ Row(t, "pending", now + Lease) \in ER /\ Row(x, "pending", now + Lease) \in TR
      /\ Row(t, "sealed", now + ClaimTTL) \in ER /\ Row(x, "sealed", now + ClaimTTL) \in TR
  BY <1>1, <1>3 DEF Deliveries
<1>5. exposure \in [Exposures -> ER] /\ ticket \in [Tickets -> TR]
  BY DEF ClaimsTypeOK
<1>6. Read(exposure, x) \in [Exposures -> ER] /\ Read(ticket, t) \in [Tickets -> TR]
  BY <1>5 DEF Read
<1>7. /\ [exposure EXCEPT ![x] = NoRow] \in [Exposures -> ER]
      /\ [ticket EXCEPT ![t] = NoRow] \in [Tickets -> TR]
  BY <1>5
<1>8. Live(ticket[t]) =>
        /\ ticket[t].delivery \in Deliveries /\ ticket[t].expiresAt \in Nat \ {0}
        /\ Row(t, ticket[t].delivery, ticket[t].expiresAt) \in ER
        /\ Row(t, "accepted", ticket[t].expiresAt) \in ER
        /\ Row(x, "accepted", ticket[t].expiresAt) \in TR
  BY <1>1 DEF TicketRows, Deliveries
<1>9. exposure' \in [Exposures -> ER] /\ ticket' \in [Tickets -> TR]
  <2>1. CASE Claim(x, t)
    BY <2>1, <1>4, <1>5, <1>6, <1>8
    DEF Claim, ClaimAgainstExposure, ClaimAgainstTicket, AcquirePending
  <2>2. CASE Release(x, t)
    BY <2>2, <1>5, <1>6, <1>7 DEF Release
  <2>3. CASE MarkSealed(x, t)
    BY <2>3, <1>4, <1>5, <1>6 DEF MarkSealed
  <2>4. CASE Acknowledge(x, t)
    BY <2>4, <1>5, <1>6, <1>8 DEF Acknowledge, AcknowledgeOutcome
  <2> QED BY <2>1, <2>2, <2>3, <2>4
<1>10. /\ alarm' \in Nat \cup {NoTime} /\ floor' \in Nat \cup {NoTime}
       /\ after' = after /\ nextExpiry' = nextExpiry
  <2>1. CASE Claim(x, t) \/ Release(x, t)
    BY <2>1 DEF Claim, ClaimAgainstExposure, ClaimAgainstTicket, AcquirePending, Release, sweepVars,
       ClaimsTypeOK
  <2>2. CASE MarkSealed(x, t)
    BY <2>2, <1>3 DEF MarkSealed, SetExpiryAlarm, sweepVars, ClaimsTypeOK
  <2>3. CASE Acknowledge(x, t)
    BY <2>3, <1>8 DEF Acknowledge, AcknowledgeOutcome, SetExpiryAlarm, sweepVars, ClaimsTypeOK
  <2> QED BY <2>1, <2>2, <2>3
<1> QED BY <1>2, <1>9, <1>10 DEF ClaimsTypeOK

-----------------------------------------------------------------------------
(* What each route does to the rows, with the outcome it came to. *)
DropExposure(x) == ~Live(exposure[x]) /\ exposure' = [exposure EXCEPT ![x] = NoRow] /\ ticket' = ticket
DropTicket(t) == ~Live(ticket[t]) /\ ticket' = [ticket EXCEPT ![t] = NoRow] /\ exposure' = exposure
Bind(x, t) ==
  /\ ~Live(exposure[x]) /\ Live(ticket[t]) /\ ticket[t].delivery # "pending"
  /\ exposure' = [exposure EXCEPT ![x] = Row(t, ticket[t].delivery, ticket[t].expiresAt)]
  /\ ticket' = ticket
Unclaim(x, t) ==
  /\ Live(exposure[x]) /\ exposure[x].bound = t /\ exposure[x].delivery = "pending"
  /\ exposure' = [exposure EXCEPT ![x] = NoRow]
  /\ ticket' = [ticket EXCEPT ![t] = NoRow]
Seal(x, t) ==
  /\ Live(exposure[x]) /\ exposure[x].bound = t /\ exposure[x].delivery = "pending"
  /\ Live(ticket[t]) /\ ticket[t].bound = x
  /\ exposure' = [exposure EXCEPT ![x] = Row(t, "sealed", now + ClaimTTL)]
  /\ ticket' = [ticket EXCEPT ![t] = Row(x, "sealed", now + ClaimTTL)]
  /\ SetExpiryAlarm(now + ClaimTTL)
  /\ UNCHANGED <<after, nextExpiry>>
Accept(x, t) ==
  /\ Live(exposure[x]) /\ exposure[x].bound = t /\ exposure[x].delivery = "sealed"
  /\ Live(ticket[t]) /\ ticket[t].bound = x
  /\ exposure' = [exposure EXCEPT ![x] = Row(t, "accepted", ticket[t].expiresAt)]
  /\ ticket' = [ticket EXCEPT ![t] = Row(x, "accepted", ticket[t].expiresAt)]
  /\ SetExpiryAlarm(ticket[t].expiresAt)
  /\ UNCHANGED <<after, nextExpiry>>
Quiet(x, t) ==
  /\ UNCHANGED sweepVars
  /\ \/ UNCHANGED <<exposure, ticket>> \/ DropExposure(x) \/ DropTicket(t) \/ Bind(x, t)
     \/ Unclaim(x, t) \/ AcquirePending(x, t)

LEMMA RouteShapes ==
  ASSUME ClaimsInv, NEW x \in Exposures, NEW t \in Tickets
  PROVE  /\ Claim(x, t) => Quiet(x, t)
         /\ Release(x, t) => Quiet(x, t)
         /\ MarkSealed(x, t) => IF MarkSealedOutcome(x, t) = "sealed" THEN Seal(x, t) ELSE Quiet(x, t)
         /\ Acknowledge(x, t) => Quiet(x, t) \/ Accept(x, t)
<1> USE RowTypes, ClaimsAssumption
<1>0. ClaimsTypeOK BY DEF ClaimsInv
<1>1. Read(exposure, x) = exposure \/ (~Live(exposure[x]) /\ Read(exposure, x) = [exposure EXCEPT ![x] = NoRow])
  BY DEF Read
<1>2. Read(ticket, t) = ticket \/ (~Live(ticket[t]) /\ Read(ticket, t) = [ticket EXCEPT ![t] = NoRow])
  BY DEF Read
<1>3. Claim(x, t) => Quiet(x, t)
  <2>1. ClaimAgainstExposure(x, t) => Quiet(x, t)
    BY <1>2 DEF ClaimAgainstExposure, Quiet, DropTicket
  <2>2. ClaimAgainstTicket(x, t) => Quiet(x, t)
    BY <1>1 DEF ClaimAgainstTicket, Quiet, DropExposure, Bind
  <2>3. AcquirePending(x, t) => Quiet(x, t)
    BY DEF AcquirePending, Quiet
  <2> QED BY <2>1, <2>2, <2>3 DEF Claim
<1>4. Release(x, t) => Quiet(x, t)
  <2>1. CASE Live(exposure[x]) /\ exposure[x].bound = t /\ exposure[x].delivery = "pending"
    <3>1. Live(ticket[t]) /\ ticket[t].bound = x /\ ticket[t].delivery = "pending"
      BY <2>1, <1>0 DEF ClaimsInv, ClaimHasItsTicket, Live
    <3> QED BY <3>1, <2>1 DEF Release, Quiet, Unclaim
  <2>2. CASE ~(Live(exposure[x]) /\ exposure[x].bound = t /\ exposure[x].delivery = "pending")
    BY <2>2, <1>1 DEF Release, Quiet, DropExposure
  <2> QED BY <2>1, <2>2
<1>5. MarkSealed(x, t) => IF MarkSealedOutcome(x, t) = "sealed" THEN Seal(x, t) ELSE Quiet(x, t)
  BY <1>1, <1>2 DEF MarkSealed, MarkSealedOutcome, Quiet, DropExposure, DropTicket, Seal
<1>6. Acknowledge(x, t) => Quiet(x, t) \/ Accept(x, t)
  <2>1. Live(exposure[x]) => exposure[x].delivery \in Deliveries
    BY <1>0 DEF ExposureRows
  <2> QED BY <2>1, <1>1, <1>2
          DEF Acknowledge, AcknowledgeOutcome, Quiet, DropExposure, DropTicket, Accept, Deliveries
<1> QED BY <1>3, <1>4, <1>5, <1>6

-----------------------------------------------------------------------------
(* A row keeps its pair. *)
PairOK(x) ==
  Live(exposure[x]) =>
    /\ ticket[exposure[x].bound].expiresAt = exposure[x].expiresAt
    /\ exposure[x].delivery = "pending" <=> ticket[exposure[x].bound].delivery = "pending"
    /\ exposure[x].delivery = "pending" => ticket[exposure[x].bound].bound = x
OwnerOK(t) ==
  Live(ticket[t]) =>
    /\ exposure[ticket[t].bound].bound = t
    /\ exposure[ticket[t].bound].expiresAt = ticket[t].expiresAt

LEMMA PairDef == /\ ClaimHasItsTicket <=> \A x \in Exposures : PairOK(x)
                 /\ TicketHasItsOwner <=> \A t \in Tickets : OwnerOK(t)
BY DEF ClaimHasItsTicket, TicketHasItsOwner, PairOK, OwnerOK

LEMMA RoutesPair ==
  ASSUME ClaimsInv, ClaimsTypeOK', NEW x \in Exposures, NEW t \in Tickets, UNCHANGED now,
         Quiet(x, t) \/ Seal(x, t) \/ Accept(x, t)
  PROVE  ClaimHasItsTicket' /\ TicketHasItsOwner'
<1> USE RowTypes, ClaimsAssumption
<1>1. /\ ClaimsTypeOK /\ now \in Nat \ {0} /\ now' = now
      /\ exposure \in [Exposures -> ExposureRows \cup {NoRow}]
      /\ ticket \in [Tickets -> TicketRows \cup {NoRow}]
      /\ \A y \in Exposures : PairOK(y)
      /\ \A u \in Tickets : OwnerOK(u)
  BY PairDef DEF ClaimsInv, ClaimsTypeOK
<1>2. ASSUME NEW y \in Exposures, NEW u \in Tickets PROVE PairOK(y)' /\ OwnerOK(u)'
  <2>0. /\ PairOK(x) /\ PairOK(y) /\ OwnerOK(t) /\ OwnerOK(u)
        /\ Live(exposure[y]) => exposure[y].bound \in Tickets
        /\ Live(ticket[u]) => ticket[u].bound \in Exposures
    BY <1>1 DEF ExposureRows, TicketRows
  <2>1. CASE UNCHANGED <<exposure, ticket>>
    BY <2>1, <2>0, <1>1 DEF PairOK, OwnerOK, Live
  <2>2. CASE DropExposure(x)
    BY <2>2, <2>0, <1>1 DEF DropExposure, PairOK, OwnerOK, Live, NoRow
  <2>3. CASE DropTicket(t)
    BY <2>3, <2>0, <1>1 DEF DropTicket, PairOK, OwnerOK, Live, NoRow
  <2>4. CASE Bind(x, t)
    BY <2>4, <2>0, <1>1 DEF Bind, PairOK, OwnerOK, Live, Row
  <2>5. CASE Unclaim(x, t)
    BY <2>5, <2>0, <1>1 DEF Unclaim, PairOK, OwnerOK, Live, NoRow
  <2>6. CASE AcquirePending(x, t)
    BY <2>6, <2>0, <1>1 DEF AcquirePending, PairOK, OwnerOK, Live, Row
  <2>7. CASE Seal(x, t)
    BY <2>7, <2>0, <1>1 DEF Seal, PairOK, OwnerOK, Live, Row
  <2>8. CASE Accept(x, t)
    BY <2>8, <2>0, <1>1 DEF Accept, PairOK, OwnerOK, Live, Row
  <2> QED BY <2>1, <2>2, <2>3, <2>4, <2>5, <2>6, <2>7, <2>8 DEF Quiet
<1>3. (\A y \in Exposures : PairOK(y)') /\ (\A u \in Tickets : OwnerOK(u)')
  <2>1. ASSUME NEW y \in Exposures PROVE PairOK(y)' BY <1>2
  <2>2. ASSUME NEW u \in Tickets PROVE OwnerOK(u)' BY <1>2
  <2> QED BY <2>1, <2>2
<1> QED BY <1>3 DEF ClaimHasItsTicket, TicketHasItsOwner, PairOK, OwnerOK

-----------------------------------------------------------------------------
(* A remembered row keeps its owner. *)
TicketOwned(t) == Remembered(ticket[t]) => Owned(t, ticket[t].expiresAt)
ExposureOwned(x) ==
  Remembered(exposure[x]) /\ ticket[exposure[x].bound].bound = x => Owned(x, exposure[x].expiresAt)

LEMMA OwnedDef == SealedIsOwned <=> /\ \A t \in Tickets : TicketOwned(t)
                                    /\ \A x \in Exposures : ExposureOwned(x)
BY DEF SealedIsOwned, TicketOwned, ExposureOwned

(* Moving the alarm takes no row from its owner, and the new expiry has one. *)
LEMMA AlarmOwns ==
  ASSUME ClaimsInv, NEW e \in Nat, e > now, SetExpiryAlarm(e), UNCHANGED <<now, after, nextExpiry>>
  PROVE  /\ \A k \in Nat, d \in Nat : Owned(k, d) => Owned(k, d)'
         /\ \A k \in Nat : Owned(k, e)'
         /\ CursorIsArmed'
BY DEF ClaimsInv, ClaimsTypeOK, CursorIsArmed, SetExpiryAlarm, Owned, NoTime, NoKey

LEMMA RoutesOwned ==
  ASSUME ClaimsInv, ClaimsTypeOK', NEW x \in Exposures, NEW t \in Tickets, UNCHANGED now,
         Quiet(x, t) \/ Seal(x, t) \/ Accept(x, t)
  PROVE  SealedIsOwned' /\ CursorIsArmed'
<1> USE RowTypes, ClaimsAssumption
<1>1. /\ ClaimsTypeOK /\ now \in Nat \ {0} /\ now' = now
      /\ exposure \in [Exposures -> ExposureRows \cup {NoRow}]
      /\ ticket \in [Tickets -> TicketRows \cup {NoRow}]
      /\ \A y \in Exposures : PairOK(y) /\ ExposureOwned(y) /\ y \in Nat
      /\ \A u \in Tickets : OwnerOK(u) /\ TicketOwned(u) /\ u \in Nat
  BY PairDef, OwnedDef DEF ClaimsInv, ClaimsTypeOK
<1>2. CursorIsArmed'
  <2>1. CASE Quiet(x, t) BY <2>1 DEF Quiet, ClaimsInv, CursorIsArmed, sweepVars
  <2>2. CASE Seal(x, t)
    <3>1. now + ClaimTTL \in Nat /\ now + ClaimTTL > now BY <1>1
    <3> QED BY <3>1, <2>2, AlarmOwns DEF Seal
  <2>3. CASE Accept(x, t)
    <3>1. ticket[t].expiresAt \in Nat /\ ticket[t].expiresAt > now BY <2>3, <1>1 DEF Accept, Live
    <3> QED BY <3>1, <2>3, AlarmOwns DEF Accept
  <2> QED BY <2>1, <2>2, <2>3
<1>3. ASSUME NEW y \in Exposures, NEW u \in Tickets PROVE ExposureOwned(y)' /\ TicketOwned(u)'
  <2>0. /\ PairOK(x) /\ PairOK(y) /\ OwnerOK(t) /\ OwnerOK(u)
        /\ ExposureOwned(x) /\ ExposureOwned(y) /\ TicketOwned(t) /\ TicketOwned(u)
        /\ exposure[y].bound \in Tickets \cup {0} /\ ticket[u].bound \in Exposures \cup {0}
        /\ Remembered(exposure[y]) => exposure[y].bound \in Tickets
        /\ exposure[y].expiresAt \in Nat /\ ticket[u].expiresAt \in Nat
        /\ 0 \notin Exposures
    BY <1>1 DEF ExposureRows, TicketRows, NoRow, Remembered
  <2>1. CASE Quiet(x, t)
    <3>0. \A k, e \in Nat : Owned(k, e)' <=> Owned(k, e)
      BY <2>1 DEF Quiet, sweepVars, Owned
    <3>1. CASE UNCHANGED <<exposure, ticket>>
      BY <3>1, <3>0, <2>0, <1>1 DEF ExposureOwned, TicketOwned, Remembered
    <3>2. CASE DropExposure(x)
      BY <3>2, <3>0, <2>0, <1>1 DEF DropExposure, ExposureOwned, TicketOwned, Remembered, NoRow
    <3>3. CASE DropTicket(t)
      BY <3>3, <3>0, <2>0, <1>1 DEF DropTicket, ExposureOwned, TicketOwned, Remembered, NoRow
    <3>4. CASE Bind(x, t)
      <4>1. ticket[t].bound # x
        BY <3>4, <2>0, <1>1 DEF Bind, OwnerOK, Live
      <4> QED BY <4>1, <3>4, <3>0, <2>0, <1>1 DEF Bind, ExposureOwned, TicketOwned, Remembered, Row
    <3>5. CASE Unclaim(x, t)
      BY <3>5, <3>0, <2>0, <1>1 DEF Unclaim, ExposureOwned, TicketOwned, Remembered, NoRow
    <3>6. CASE AcquirePending(x, t)
      BY <3>6, <3>0, <2>0, <1>1 DEF AcquirePending, ExposureOwned, TicketOwned, Remembered, Row
    <3> QED BY <2>1, <3>1, <3>2, <3>3, <3>4, <3>5, <3>6 DEF Quiet
  <2>2. CASE Seal(x, t)
    <3>1. now + ClaimTTL \in Nat /\ now + ClaimTTL > now BY <1>1
    <3>2. /\ \A k \in Nat, d \in Nat : Owned(k, d) => Owned(k, d)'
          /\ \A k \in Nat : Owned(k, now + ClaimTTL)'
      BY <3>1, <2>2, AlarmOwns DEF Seal
    <3> QED BY <3>1, <3>2, <2>2, <2>0, <1>1 DEF Seal, ExposureOwned, TicketOwned, Remembered, Row
  <2>3. CASE Accept(x, t)
    <3>1. PICK e \in Nat : e = ticket[t].expiresAt /\ e > now BY <2>3, <1>1 DEF Accept, Live
    <3>2. /\ \A k \in Nat, d \in Nat : Owned(k, d) => Owned(k, d)'
          /\ \A k \in Nat : Owned(k, e)'
      BY <3>1, <2>3, AlarmOwns DEF Accept
    <3> QED BY <3>1, <3>2, <2>3, <2>0, <1>1 DEF Accept, ExposureOwned, TicketOwned, Remembered, Row
  <2> QED BY <2>1, <2>2, <2>3
<1>4. (\A y \in Exposures : ExposureOwned(y)') /\ (\A u \in Tickets : TicketOwned(u)')
  <2>1. ASSUME NEW y \in Exposures PROVE ExposureOwned(y)' BY <1>3
  <2>2. ASSUME NEW u \in Tickets PROVE TicketOwned(u)' BY <1>3
  <2> QED BY <2>1, <2>2
<1> QED BY <1>2, <1>4 DEF SealedIsOwned, TicketOwned, ExposureOwned

(* Every route keeps the invariant. *)
LEMMA RoutesKeepInv ==
  ASSUME ClaimsInv, NEW x \in Exposures, NEW t \in Tickets, UNCHANGED now,
         \/ Claim(x, t) \/ Release(x, t) \/ MarkSealed(x, t) \/ Acknowledge(x, t)
  PROVE  ClaimsInv'
<1>1. ClaimsTypeOK' BY RoutesType DEF ClaimsInv
<1>2. Quiet(x, t) \/ Seal(x, t) \/ Accept(x, t) BY RouteShapes
<1> QED BY <1>1, <1>2, RoutesPair, RoutesOwned DEF ClaimsInv

LEMMA DeleteAllKeepsInv == ASSUME ClaimsInv, DeleteAll, UNCHANGED now PROVE ClaimsInv'
<1>1. ClaimsTypeOK' BY DEF ClaimsInv, ClaimsTypeOK, DeleteAll
<1>2. now \in Nat /\ now' = now BY DEF ClaimsInv, ClaimsTypeOK
<1>3. (\A x \in Exposures : exposure'[x] = NoRow) /\ (\A t \in Tickets : ticket'[t] = NoRow)
  BY DEF DeleteAll
<1>4. ClaimHasItsTicket' /\ TicketHasItsOwner'
  BY <1>2, <1>3 DEF ClaimHasItsTicket, TicketHasItsOwner, Live, NoRow
<1>5. CursorIsArmed' /\ SealedIsOwned'
  BY <1>3 DEF DeleteAll, CursorIsArmed, SealedIsOwned, Remembered, NoRow
<1> QED BY <1>1, <1>4, <1>5 DEF ClaimsInv

LEMMA ClockKeepsInv == ASSUME ClaimsInv, Clock PROVE ClaimsInv'
<1> USE RowTypes, ClaimsAssumption
<1>1. ClaimsTypeOK /\ now \in Nat /\ now' = now + 1 /\ UNCHANGED claimVars
  BY DEF Clock, ClaimsInv, ClaimsTypeOK
<1>2. ClaimsTypeOK' BY <1>1 DEF ClaimsTypeOK, claimVars
<1>3. ClaimHasItsTicket' /\ TicketHasItsOwner'
  BY <1>1 DEF ClaimsInv, ClaimHasItsTicket, TicketHasItsOwner, Live, claimVars
<1>4. CursorIsArmed'
  BY <1>1 DEF ClaimsInv, CursorIsArmed, claimVars, ClaimsTypeOK, NoTime
<1>5. SealedIsOwned'
  BY <1>1 DEF ClaimsInv, SealedIsOwned, Owned, claimVars
<1> QED BY <1>2, <1>3, <1>4, <1>5 DEF ClaimsInv

-----------------------------------------------------------------------------
(* The sweep keeps every row that has not expired, and the expiry of each  *)
(* row it keeps goes into the cursor or into the next alarm.               *)
LEMMA SweepKeepsInv == ASSUME ClaimsInv, RunClaimAlarm, UNCHANGED now PROVE ClaimsInv'
<1> USE RowTypes, ClaimsAssumption
<1>1. /\ ClaimsTypeOK /\ now \in Nat \ {0} /\ now' = now
      /\ exposure \in [Exposures -> ExposureRows \cup {NoRow}]
      /\ ticket \in [Tickets -> TicketRows \cup {NoRow}]
      /\ alarm \in Nat \cup {NoTime} /\ floor \in Nat \cup {NoTime}
      /\ nextExpiry \in Nat \cup {NoTime} /\ after \in Nat \cup {NoKey}
      /\ \A y \in Exposures : PairOK(y) /\ ExposureOwned(y)
      /\ \A u \in Tickets : OwnerOK(u) /\ TicketOwned(u)
  BY PairDef, OwnedDef DEF ClaimsInv, ClaimsTypeOK
<1>2. PICK page \in SUBSET Unlisted :
        /\ IsPage(page) /\ DeleteExpired(page)
        /\ SweepFullPage(page) \/ SweepLastPage(page)
  BY DEF RunClaimAlarm
<1>3. page \subseteq Exposures \cup Tickets \cup {FloorKey} /\ page \subseteq Nat
  <2>1. Unlisted \subseteq Exposures \cup Tickets \cup {FloorKey}
    BY DEF Unlisted, RowKeys
  <2>2. Exposures \cup Tickets \cup {FloorKey} \subseteq Nat
    BY DEF FloorKey
  <2> QED BY <1>2, <2>1, <2>2
<1>4. LiveExpiries(page) \subseteq Nat
  <2>1. \A k \in page \ {FloorKey} : ExpiryOf(k) \in Nat
    BY <1>1, <1>3 DEF ExpiryOf
  <2> QED BY <2>1 DEF LiveExpiries
<1>5. /\ \A x \in Exposures : exposure'[x] = IF x \in page /\ ~Live(exposure[x]) THEN NoRow ELSE exposure[x]
      /\ \A t \in Tickets : ticket'[t] = IF t \in page /\ ~Live(ticket[t]) THEN NoRow ELSE ticket[t]
      /\ exposure' \in [Exposures -> ExposureRows \cup {NoRow}]
      /\ ticket' \in [Tickets -> TicketRows \cup {NoRow}]
  BY <1>1, <1>2 DEF DeleteExpired
<1>6. ClaimsTypeOK'
  <2>1. CASE SweepFullPage(page)
    <3>1. after' \in Nat /\ alarm' = now /\ floor' = floor
      BY <2>1, <1>3 DEF SweepFullPage
    <3>2. nextExpiry' \in Nat \cup {NoTime}
      BY <2>1, <1>1, <1>4 DEF SweepFullPage
    <3> QED BY <3>1, <3>2, <1>1, <1>5 DEF ClaimsTypeOK
  <2>2. CASE SweepLastPage(page)
    <3>1. after' = NoKey /\ nextExpiry' = NoTime /\ floor' = NoTime
      BY <2>2 DEF SweepLastPage
    <3>2. alarm' \in Nat \cup {NoTime}
      BY <2>2, <1>1, <1>4 DEF SweepLastPage
    <3> QED BY <3>1, <3>2, <1>1, <1>5 DEF ClaimsTypeOK
  <2> QED BY <1>2, <2>1, <2>2
<1>7. ClaimHasItsTicket' /\ TicketHasItsOwner'
  <2>1. ASSUME NEW x \in Exposures PROVE PairOK(x)'
    <3>1. Live(exposure[x])' => Live(exposure[x]) /\ exposure'[x] = exposure[x]
      BY <1>1, <1>5 DEF Live, NoRow
    <3>2. Live(exposure[x]) =>
            exposure[x].bound \in Tickets /\ ticket'[exposure[x].bound] = ticket[exposure[x].bound]
      BY <1>1, <1>5 DEF PairOK, Live, ExposureRows
    <3> QED BY <3>1, <3>2, <1>1 DEF PairOK
  <2>2. ASSUME NEW t \in Tickets PROVE OwnerOK(t)'
    <3>1. Live(ticket[t])' => Live(ticket[t]) /\ ticket'[t] = ticket[t]
      BY <1>1, <1>5 DEF Live, NoRow
    <3>2. Live(ticket[t]) =>
            ticket[t].bound \in Exposures /\ exposure'[ticket[t].bound] = exposure[ticket[t].bound]
      BY <1>1, <1>5 DEF OwnerOK, Live, TicketRows
    <3> QED BY <3>1, <3>2, <1>1 DEF OwnerOK
  <2> QED BY <2>1, <2>2 DEF ClaimHasItsTicket, TicketHasItsOwner, PairOK, OwnerOK
<1>8. CursorIsArmed'
  BY <1>1, <1>2 DEF CursorIsArmed, SweepFullPage, SweepLastPage, NoTime
\* A row at k that stays, with expiry e, was listed live or is not in the page.
<1>9. ASSUME NEW k \in Nat, NEW e \in Nat, Owned(k, e),
             k \in page => e \in LiveExpiries(page),
             k \notin page => k \in Unlisted \/ ~(k > after)
      PROVE  Owned(k, e)'
  <2>1. CASE SweepFullPage(page)
    <3>1. /\ after' \in page /\ after' \in Nat /\ (\A j \in page : j <= after')
          /\ alarm' = now /\ floor' = floor
          /\ IsEarliest(nextExpiry', Times(nextExpiry) \cup LiveExpiries(page))
      BY <2>1, <1>3 DEF SweepFullPage
    <3>2. CASE k \in page
      <4>1. nextExpiry' \in Nat /\ nextExpiry' <= e
        BY <3>1, <3>2, <1>9, <1>4, <1>1 DEF IsEarliest, Times, NoTime
      <4> QED BY <4>1, <3>1, <1>1 DEF Owned, NoTime, NoKey
    <3>3. CASE k \notin page /\ k \in Unlisted
      <4>1. k > after'
        BY <3>1, <3>3, <1>2, <1>3 DEF IsPage
      <4> QED BY <4>1, <3>1, <1>1 DEF Owned, NoTime, NoKey
    <3>4. CASE k \notin page /\ ~(k > after)
      <4>1. \/ nextExpiry # NoTime /\ nextExpiry <= e
            \/ floor # NoTime /\ floor <= e
        BY <3>4, <1>9, <1>1 DEF Owned
      <4>2. nextExpiry # NoTime => nextExpiry' \in Nat /\ nextExpiry' <= nextExpiry
        BY <3>1, <1>4, <1>1 DEF IsEarliest, Times, NoTime
      <4> QED BY <4>1, <4>2, <3>1, <1>1 DEF Owned, NoTime, NoKey
    <3> QED BY <3>2, <3>3, <3>4, <1>9
  <2>2. CASE SweepLastPage(page)
    <3>1. /\ page = Unlisted /\ after' = NoKey
          /\ IsEarliest(alarm', Times(nextExpiry) \cup Times(floor) \cup LiveExpiries(page))
      BY <2>2, <1>2 DEF SweepLastPage, IsPage
    <3>2. \/ nextExpiry # NoTime /\ nextExpiry <= e
          \/ floor # NoTime /\ floor <= e
          \/ e \in LiveExpiries(page)
      BY <3>1, <1>9, <1>1 DEF Owned
    <3>3. alarm' \in Nat /\ alarm' <= e
      BY <3>1, <3>2, <1>4, <1>1 DEF IsEarliest, Times, NoTime
    <3> QED BY <3>1, <3>3 DEF Owned, NoTime, NoKey
  <2> QED BY <1>2, <2>1, <2>2
<1>10. SealedIsOwned'
  <2>1. ASSUME NEW t \in Tickets, Remembered(ticket[t])' PROVE Owned(t, ticket[t].expiresAt)'
    <3>1. /\ ticket'[t] = ticket[t] /\ Remembered(ticket[t])
          /\ t \in page => Live(ticket[t])
          /\ ticket[t].expiresAt \in Nat /\ t \in Nat /\ t # FloorKey /\ t \notin Exposures
      BY <2>1, <1>1, <1>5 DEF Remembered, NoRow, FloorKey
    <3>2. PICK e \in Nat : e = ticket[t].expiresAt
      BY <3>1
    <3>3. t \in page => e \in LiveExpiries(page)
      BY <3>1, <3>2 DEF LiveExpiries, ExpiryOf, Live
    <3>4. t \in RowKeys
      BY <3>1 DEF RowKeys, Remembered, NoRow
    <3>5. Owned(t, e)
      BY <3>1, <3>2, <1>1 DEF TicketOwned
    <3>6. Owned(t, e)'
      BY <3>1, <3>3, <3>4, <3>5, <1>9 DEF Unlisted
    <3> QED BY <3>1, <3>2, <3>6
  <2>2. ASSUME NEW x \in Exposures, Remembered(exposure[x])', (ticket[exposure[x].bound].bound = x)'
        PROVE  Owned(x, exposure[x].expiresAt)'
    <3>1. /\ exposure'[x] = exposure[x] /\ Remembered(exposure[x])
          /\ x \in page => Live(exposure[x])
          /\ exposure[x].expiresAt \in Nat /\ x \in Nat /\ x # FloorKey
          /\ exposure[x].bound \in Tickets
      BY <2>2, <1>1, <1>5 DEF Remembered, NoRow, FloorKey, ExposureRows
    <3>2. ticket[exposure[x].bound].bound = x
      <4>1. ticket'[exposure[x].bound].bound = x
        BY <3>1, <2>2
      <4>2. NoRow.bound # x
        BY DEF NoRow
      <4> QED BY <4>1, <4>2, <3>1, <1>5
    <3>3. PICK e \in Nat : e = exposure[x].expiresAt
      BY <3>1
    <3>4. x \in page => e \in LiveExpiries(page)
      BY <3>1, <3>3 DEF LiveExpiries, ExpiryOf, Live
    <3>5. x \in RowKeys
      BY <3>1 DEF RowKeys, Remembered, NoRow
    <3>6. Owned(x, e)
      BY <3>1, <3>2, <3>3, <1>1 DEF ExposureOwned
    <3>7. Owned(x, e)'
      BY <3>1, <3>4, <3>5, <3>6, <1>9 DEF Unlisted
    <3> QED BY <3>1, <3>3, <3>7
  <2> QED BY <2>1, <2>2 DEF SealedIsOwned
<1> QED BY <1>6, <1>7, <1>8, <1>10 DEF ClaimsInv

-----------------------------------------------------------------------------
LEMMA ClaimsStutter == ASSUME ClaimsInv, UNCHANGED claimsState PROVE ClaimsInv'
BY DEF ClaimsInv, ClaimsTypeOK, ClaimHasItsTicket, TicketHasItsOwner, CursorIsArmed, SealedIsOwned,
   Owned, Live, Remembered, claimsState, claimVars

LEMMA ClaimsInvInductive == ClaimsSpec => []ClaimsInv
<1>1. ClaimsInit => ClaimsInv BY InitClaims
<1>2. ClaimsInv /\ [ClaimsNext]_claimsState => ClaimsInv'
  <2> SUFFICES ASSUME ClaimsInv, [ClaimsNext]_claimsState PROVE ClaimsInv'
    OBVIOUS
  <2>1. CASE Routes /\ UNCHANGED now
    BY <2>1, RoutesKeepInv, DeleteAllKeepsInv DEF Routes
  <2>2. CASE RunClaimAlarm /\ UNCHANGED now BY <2>2, SweepKeepsInv
  <2>3. CASE Clock BY <2>3, ClockKeepsInv
  <2>4. CASE UNCHANGED claimsState BY <2>4, ClaimsStutter
  <2> QED BY <2>1, <2>2, <2>3, <2>4 DEF ClaimsNext
<1> QED BY <1>1, <1>2, PTL DEF ClaimsSpec

(* The rows, the alarm, the cursor and the floor keep their types. *)
THEOREM ClaimsTypeCorrect == ClaimsSpec => []ClaimsTypeOK
<1>1. ClaimsInv => ClaimsTypeOK BY DEF ClaimsInv
<1> QED BY <1>1, ClaimsInvInductive, PTL

(* A live claim always has its ticket row, with its own expiry: markSealed *)
(* and acknowledge never lose the ticket of a live claim.                  *)
THEOREM ClaimsArePaired == ClaimsSpec => []ClaimHasItsTicket
<1>1. ClaimsInv => ClaimHasItsTicket BY DEF ClaimsInv
<1> QED BY <1>1, ClaimsInvInductive, PTL

(* A sealed or accepted redemption is always owned by the alarm, by the    *)
(* cursor or by the floor, for every page size.                            *)
THEOREM SealedRowsAreOwned == ClaimsSpec => []SealedIsOwned
<1>1. ClaimsInv => SealedIsOwned BY DEF ClaimsInv
<1> QED BY <1>1, ClaimsInvInductive, PTL
=============================================================================
