-------------------------- MODULE RedemptionClaims --------------------------
(***************************************************************************)
(* The Exposure redemption claim Durable Object of one App Environment:    *)
(* which exposureId redeems which Exposure Ticket, how far the redemption  *)
(* got, and the alarm that collects the rows when they expire.             *)
(*                                                                         *)
(* A row is pending (the seal is in flight), sealed (Event Ingest has the  *)
(* Exposure) or accepted.  Every route is one storage transaction, and the *)
(* alarm handler awaits nothing but storage, so each is one step.  A read  *)
(* of a row that has expired deletes it.                                   *)
(*                                                                         *)
(* Keys are numbers in the order in which the storage lists them: the      *)
(* expiry floor first, then the exposure rows, then the ticket rows.       *)
(***************************************************************************)
EXTENDS Integers, FiniteSets

CONSTANTS
  Exposures, Tickets,  \* keys of the two kinds of rows
  Lease,               \* how long a pending row blocks its ticket
  ClaimTTL,            \* how long a sealed or an accepted row is remembered
  PageSize,            \* rows one alarm tick lists
  MaxNow               \* bound on the clock

ASSUME ClaimsAssumption ==
  /\ Exposures \subseteq Nat \ {0} /\ Tickets \subseteq Nat \ {0}
  /\ \A x \in Exposures, t \in Tickets : x < t
  /\ Lease \in Nat \ {0} /\ ClaimTTL \in Nat \ {0}
  /\ PageSize \in Nat /\ PageSize >= 2
  /\ MaxNow \in Nat

VARIABLES
  exposure, ticket,    \* the rows
  alarm,               \* when the alarm fires
  after, nextExpiry,   \* cursor of a sweep of several ticks: last key listed, earliest expiry met
  floor,               \* earliest expiry that did not move the alarm
  now

claimVars == <<exposure, ticket, alarm, after, nextExpiry, floor>>
sweepVars == <<alarm, after, nextExpiry, floor>>
claimsState == <<claimVars, now>>

NoTime == -1
NoKey == -1
FloorKey == 0
Deliveries == {"pending", "sealed", "accepted"}
NoRow == [bound |-> 0, delivery |-> "absent", expiresAt |-> 0]

\* An exposure row is bound to its ticket, a ticket row to the exposureId that owns it.
Row(peer, delivery, expiresAt) ==
  [bound |-> peer, delivery |-> delivery, expiresAt |-> expiresAt]
ExposureRows == [bound : Tickets, delivery : Deliveries, expiresAt : Nat \ {0}]
TicketRows == [bound : Exposures, delivery : Deliveries, expiresAt : Nat \ {0}]

\* NoRow has expired at every time.
Live(row) == row.expiresAt > now

\* The rows after a read of the row at k.
Read(rows, k) == IF Live(rows[k]) THEN rows ELSE [rows EXCEPT ![k] = NoRow]

ClaimsInit ==
  /\ exposure = [x \in Exposures |-> NoRow]
  /\ ticket = [t \in Tickets |-> NoRow]
  /\ alarm = NoTime /\ floor = NoTime
  /\ after = NoKey /\ nextExpiry = NoTime
  /\ now = 1

-----------------------------------------------------------------------------
\* Mutant: an expiry that does not move the alarm is not remembered.
SetExpiryAlarmForgets(expiresAt) ==
  /\ alarm' = IF alarm = NoTime \/ alarm > expiresAt THEN expiresAt ELSE alarm
  /\ UNCHANGED floor

(* The alarm is moved earlier, never later. *)
SetExpiryAlarm(expiresAt) ==
  IF alarm = NoTime \/ alarm > expiresAt
  THEN alarm' = expiresAt /\ UNCHANGED floor
  ELSE /\ floor' = IF floor = NoTime \/ floor > expiresAt THEN expiresAt ELSE floor
       /\ UNCHANGED alarm

\* Mutant: a redemption that is under way counts as delivered.
ClaimOutcomeEager(x, t) ==
  IF Live(exposure[x])
  THEN IF exposure[x].bound # t THEN "conflict" ELSE "deduplicated"
  ELSE IF ~Live(ticket[t]) THEN "acquired" ELSE "deduplicated"

\* Mutant: only the exposureId is looked up, not the ticket.
ClaimOutcomeByExposure(x, t) ==
  IF ~Live(exposure[x]) THEN "acquired"
  ELSE IF exposure[x].bound # t THEN "conflict"
  ELSE IF exposure[x].delivery = "pending" THEN "busy" ELSE "deduplicated"

ClaimOutcome(x, t) ==
  IF Live(exposure[x])
  THEN IF exposure[x].bound # t THEN "conflict"
       ELSE IF exposure[x].delivery = "accepted" THEN "deduplicated"
       ELSE IF exposure[x].delivery = "pending" THEN "busy"
       ELSE IF Live(ticket[t]) /\ ticket[t].bound = x THEN "resume_ack" ELSE "deduplicated"
  ELSE IF ~Live(ticket[t]) THEN "acquired"
       ELSE IF ticket[t].delivery = "pending" THEN "busy" ELSE "deduplicated"

\* A live exposure row answers; a sealed one asks the ticket row who owns it.
ClaimAgainstExposure(x, t) ==
  /\ Live(exposure[x])
  /\ ticket' = IF exposure[x].bound = t /\ exposure[x].delivery = "sealed"
               THEN Read(ticket, t) ELSE ticket
  /\ UNCHANGED <<exposure, sweepVars>>

\* A ticket another exposureId redeemed: this one is bound to it, with no alarm of its own.
ClaimAgainstTicket(x, t) ==
  /\ ~Live(exposure[x]) /\ Live(ticket[t])
  /\ exposure' = IF ticket[t].delivery = "pending" THEN Read(exposure, x)
                 ELSE [exposure EXCEPT ![x] = Row(t, ticket[t].delivery, ticket[t].expiresAt)]
  /\ UNCHANGED <<ticket, sweepVars>>

\* The pending lease arms no alarm.
AcquirePending(x, t) ==
  /\ ~Live(exposure[x]) /\ ~Live(ticket[t])
  /\ exposure' = [exposure EXCEPT ![x] = Row(t, "pending", now + Lease)]
  /\ ticket' = [ticket EXCEPT ![t] = Row(x, "pending", now + Lease)]
  /\ UNCHANGED sweepVars

Claim(x, t) == ClaimAgainstExposure(x, t) \/ ClaimAgainstTicket(x, t) \/ AcquirePending(x, t)

Release(x, t) ==
  /\ LET pending == Live(exposure[x]) /\ exposure[x].bound = t /\ exposure[x].delivery = "pending"
         owner == Live(ticket[t]) /\ ticket[t].bound = x /\ ticket[t].delivery = "pending"
     IN  IF ~pending
         THEN exposure' = Read(exposure, x) /\ UNCHANGED ticket
         ELSE /\ exposure' = [exposure EXCEPT ![x] = NoRow]
              /\ ticket' = IF owner THEN [ticket EXCEPT ![t] = NoRow] ELSE Read(ticket, t)
  /\ UNCHANGED sweepVars

\* The refusals are all HTTP 409.
MarkSealedOutcome(x, t) ==
  IF ~Live(exposure[x]) \/ exposure[x].bound # t THEN "mismatch"
  ELSE IF exposure[x].delivery # "pending" THEN "ok"
  ELSE IF ~Live(ticket[t]) THEN "ticket_missing"
  ELSE IF ticket[t].bound # x THEN "owner_mismatch" ELSE "sealed"

\* Mutant: the ticket's row keeps the expiry of the lease.
MarkSealedOneRow(x, t) ==
  /\ MarkSealedOutcome(x, t) = "sealed"
  /\ exposure' = [exposure EXCEPT ![x] = Row(t, "sealed", now + ClaimTTL)]
  /\ ticket' = [ticket EXCEPT ![t] = Row(x, "sealed", ticket[t].expiresAt)]
  /\ SetExpiryAlarm(ticket[t].expiresAt)
  /\ UNCHANGED <<after, nextExpiry>>

\* Mutant: the rows are sealed for the lease, not for the claim TTL.
MarkSealedForLease(x, t) ==
  /\ exposure' = [exposure EXCEPT ![x] = Row(t, "sealed", now + Lease)]
  /\ ticket' = [ticket EXCEPT ![t] = Row(x, "sealed", now + Lease)]
  /\ SetExpiryAlarm(now + Lease)
  /\ UNCHANGED <<after, nextExpiry>>

MarkSealed(x, t) ==
  \/ /\ MarkSealedOutcome(x, t) \in {"mismatch", "ok"}
     /\ exposure' = Read(exposure, x) /\ UNCHANGED <<ticket, sweepVars>>
  \/ /\ MarkSealedOutcome(x, t) \in {"ticket_missing", "owner_mismatch"}
     /\ ticket' = Read(ticket, t) /\ UNCHANGED <<exposure, sweepVars>>
  \/ /\ MarkSealedOutcome(x, t) = "sealed"
     /\ exposure' = [exposure EXCEPT ![x] = Row(t, "sealed", now + ClaimTTL)]
     /\ ticket' = [ticket EXCEPT ![t] = Row(x, "sealed", now + ClaimTTL)]
     /\ SetExpiryAlarm(now + ClaimTTL)
     /\ UNCHANGED <<after, nextExpiry>>

AcknowledgeOutcome(x, t) ==
  IF ~Live(exposure[x]) \/ exposure[x].bound # t THEN "mismatch"
  ELSE IF exposure[x].delivery = "accepted" THEN "already_accepted"
  ELSE IF exposure[x].delivery = "pending" THEN "not_sealed"
  ELSE IF ~Live(ticket[t]) THEN "ticket_missing"
  ELSE IF ticket[t].bound # x THEN "owner_mismatch" ELSE "accepted"

Acknowledge(x, t) ==
  \/ /\ AcknowledgeOutcome(x, t) \in {"mismatch", "already_accepted", "not_sealed"}
     /\ exposure' = Read(exposure, x) /\ UNCHANGED <<ticket, sweepVars>>
  \/ /\ AcknowledgeOutcome(x, t) \in {"ticket_missing", "owner_mismatch"}
     /\ ticket' = Read(ticket, t) /\ UNCHANGED <<exposure, sweepVars>>
  \/ /\ AcknowledgeOutcome(x, t) = "accepted"
     /\ exposure' = [exposure EXCEPT ![x] = Row(t, "accepted", ticket[t].expiresAt)]
     /\ ticket' = [ticket EXCEPT ![t] = Row(x, "accepted", ticket[t].expiresAt)]
     /\ SetExpiryAlarm(ticket[t].expiresAt)
     /\ UNCHANGED <<after, nextExpiry>>

DeleteAll ==
  /\ exposure' = [x \in Exposures |-> NoRow]
  /\ ticket' = [t \in Tickets |-> NoRow]
  /\ alarm' = NoTime /\ floor' = NoTime
  /\ after' = NoKey /\ nextExpiry' = NoTime

-----------------------------------------------------------------------------
(* The sweep.  The keys that are left to list; the cursor's own key is     *)
(* below every cursor.                                                     *)
RowKeys == {x \in Exposures : exposure[x] # NoRow} \cup {t \in Tickets : ticket[t] # NoRow}
Unlisted == {k \in RowKeys \cup (IF floor = NoTime THEN {} ELSE {FloorKey}) : k > after}
ExpiryOf(k) == IF k \in Exposures THEN exposure[k].expiresAt ELSE ticket[k].expiresAt

\* What list() returns with a limit: the first keys, all of them if they fit.
IsPage(page) ==
  /\ Cardinality(page) <= PageSize
  /\ \A k \in page, j \in Unlisted : j < k => j \in page
  /\ Cardinality(page) < PageSize => page = Unlisted

\* t is the earliest of the times in S, NoTime if there is none.
IsEarliest(t, S) == IF S = {} THEN t = NoTime ELSE t \in S /\ \A s \in S : t <= s

LiveExpiries(page) == {ExpiryOf(k) : k \in {j \in page \ {FloorKey} : ExpiryOf(j) > now}}
Times(t) == {t} \ {NoTime}

DeleteExpired(page) ==
  /\ exposure' = [x \in Exposures |-> IF x \in page /\ ~Live(exposure[x]) THEN NoRow ELSE exposure[x]]
  /\ ticket' = [t \in Tickets |-> IF t \in page /\ ~Live(ticket[t]) THEN NoRow ELSE ticket[t]]

\* Mutant: no cursor is kept, and the next tick lists the same page.
SweepFullPageRestarts(page) ==
  /\ Cardinality(page) >= PageSize
  /\ UNCHANGED sweepVars

\* A full page leaves a cursor and comes back at once.
SweepFullPage(page) ==
  /\ Cardinality(page) >= PageSize
  /\ after' \in page /\ \A k \in page : k <= after'
  /\ nextExpiry' \in {NoTime, nextExpiry} \cup LiveExpiries(page)
  /\ IsEarliest(nextExpiry', Times(nextExpiry) \cup LiveExpiries(page))
  /\ alarm' = now
  /\ UNCHANGED floor

\* The last page arms the alarm for the earliest expiry met, or remembered in the floor.
SweepLastPage(page) ==
  /\ Cardinality(page) < PageSize
  /\ after' = NoKey /\ nextExpiry' = NoTime /\ floor' = NoTime
  /\ alarm' \in {NoTime, nextExpiry, floor} \cup LiveExpiries(page)
  /\ IsEarliest(alarm', Times(nextExpiry) \cup Times(floor) \cup LiveExpiries(page))

RunClaimAlarm ==
  /\ alarm # NoTime /\ alarm <= now
  /\ \E page \in SUBSET Unlisted :
       /\ IsPage(page)
       /\ DeleteExpired(page)
       /\ SweepFullPage(page) \/ SweepLastPage(page)

Clock == now < MaxNow /\ now' = now + 1 /\ UNCHANGED claimVars

Routes ==
  \/ \E x \in Exposures, t \in Tickets :
       Claim(x, t) \/ Release(x, t) \/ MarkSealed(x, t) \/ Acknowledge(x, t)
  \/ DeleteAll

ClaimsNext == (Routes /\ UNCHANGED now) \/ (RunClaimAlarm /\ UNCHANGED now) \/ Clock

\* An alarm that is due is delivered, and time passes.
ClaimsFairness == WF_claimsState(RunClaimAlarm /\ UNCHANGED now) /\ WF_claimsState(Clock)
ClaimsSpec == ClaimsInit /\ [][ClaimsNext]_claimsState
FairClaimsSpec == ClaimsSpec /\ ClaimsFairness

-----------------------------------------------------------------------------
ClaimsTypeOK ==
  /\ exposure \in [Exposures -> ExposureRows \cup {NoRow}]
  /\ ticket \in [Tickets -> TicketRows \cup {NoRow}]
  /\ alarm \in Nat \cup {NoTime} /\ floor \in Nat \cup {NoTime}
  /\ nextExpiry \in Nat \cup {NoTime}
  /\ after \in Nat \cup {NoKey}
  /\ now \in Nat \ {0}

(* A claim that is live finds its ticket row, with the same expiry, and a  *)
(* pending one owns it, whatever calls, sweeps and expiries came between:  *)
(* markSealed and acknowledge never find "ticket binding missing while     *)
(* exposure claim is live", and no live claim is bound to a ticket that    *)
(* is free to be acquired again.                                           *)
ClaimHasItsTicket ==
  \A x \in Exposures : Live(exposure[x]) =>
    LET t == exposure[x].bound IN
    /\ ticket[t].expiresAt = exposure[x].expiresAt
    /\ exposure[x].delivery = "pending" <=> ticket[t].delivery = "pending"
    /\ exposure[x].delivery = "pending" => ticket[t].bound = x

Remembered(row) == row.delivery \in {"sealed", "accepted"}

\* Some sweep reaches a row at k that expires at e.
Owned(k, e) ==
  /\ alarm # NoTime
  /\ \/ k > after /\ (after = NoKey => alarm <= e)
     \/ after # NoKey /\ nextExpiry # NoTime /\ nextExpiry <= e
     \/ after # NoKey /\ floor # NoTime /\ floor <= e

(* A sealed or accepted redemption is always owned by the alarm, the sweep *)
(* cursor or the expiry floor, even when it was sealed behind the cursor   *)
(* of a sweep under way: its two rows are collected.                       *)
SealedIsOwned ==
  /\ \A t \in Tickets : Remembered(ticket[t]) => Owned(t, ticket[t].expiresAt)
  /\ \A x \in Exposures :
       Remembered(exposure[x]) /\ ticket[exposure[x].bound].bound = x =>
         Owned(x, exposure[x].expiresAt)

Due(row) == Remembered(row) /\ row.expiresAt <= MaxNow

(* No redeemed ticket outlives its time to live for ever: once it has      *)
(* expired, a sweep or a read deletes its row.                             *)
SealedIsCollected == \A t \in Tickets : Due(ticket[t]) ~> ~Due(ticket[t])
=============================================================================
