# Splitch: a TLA+ verification project

Splitch is a feature-flag and experimentation platform on Cloudflare Workers. This
directory models its data path: how an evaluation becomes a durable holdover and durable
rows, how the rows reach Tinybird, how Exposure Tickets are redeemed, and how Entity
deletion, App deletion and App identity reset cut through all of it. The modules are translated from the TypeScript under `src/`; TLC checks
them on small instances and TLAPS proves the central safety properties for every instance.

Run everything inside this directory: `tlc -config X.cfg MCModule` for a run of
`PROJECT.json`, `tlapm XProofs.tla` for the proofs.

## 1. Inventory

### Parts of the system and their state

| Part | State it keeps | Operations | Talks to |
| --- | --- | --- | --- |
| Evaluation Worker (`apps/evaluation-api`) | none of its own | evaluate, evaluate-all, peek, verify, OFREP, Exposure Ticket redemption, Convex batches | KV, writer, App inventory, Event Ingest |
| Assignment Store (`assignment-store-*.ts`) | per Entity: durable winners by Experiment, deletion cutoff, reset fence; one KV blob | put, deleteEntity, resetApp, export | KV |
| Holdover App inventory | per App: registered Entities, freeze, cutoff, deletion saga, alarm | register, admit, begin, mark, cancel and finalise a deletion, alarm retry | outboxes, KV tombstone |
| Holdover write outbox | per Entity: pending holdover jobs, attempts, alarm | ensure, attempt, delete, purge, resume, alarm retry | App inventory, writer |
| Exposure redemption claims | per App Environment: ticket and exposure rows with lease and TTL, one alarm, sweep cursor, expiry floor | claim, seal, acknowledge, release, purge, sweep | Evaluation Worker |
| App deletion (`app-delete-holdover.ts`) | D1: one recovery record per App | begin, cross the D1 boundary, cancel, resume after the row is gone | App inventory |
| Identity coordinator (`app-identity-reset.ts`, `config-store-app-identity.ts`) | per App: identity record, proofs, outstanding lease | lease, provision, reset | every store, both sinks |
| Event Ingest Worker (`apps/event-ingest-api`) | none of its own | evaluation commits, Metric Events, queue consumers | its Durable Objects, queues, Tinybird |
| Evaluation commit outbox | per key: sealed payload, delivery state, tombstone, redactions, alarm | lookup, commit, activate, privacy delete, alarm | raw queues |
| Privacy authorities (`entity-metric-privacy-*.ts`, `app-identity-event-inventory.ts`) | per Entity: cutoff, permits, inventory; per App: active version, suppression, permits, inventory | admit, complete, register, suppress, delete, reset, complete reset | each other, outboxes |
| Raw delivery attempt | per delivery: attempting, retryable, delivered, terminal | begin, record outcome, record transfer, cleanup alarm | |
| Raw queue consumers | none across invocations | admit, microbatch, settle, transfer to the DLQ | authorities, attempts, Tinybird |
| Metric Event outbox, queue, reconciliation | per event: write-ahead claim and attempt | claim, deliver, reconcile, poison | Tinybird |
| Admission gate, usage replay window | token buckets; seen usage ids | charge; claim | |
| Control Plane (`apps/control-plane-api`, `packages/db`) | D1, KV projection, identity record and leases, integration deliveries, privacy jobs | configuration, Runs, approvals, resets, deletions | all of the above |
| Auth API, SDK, Convex and Cloudflare components | tokens; client queues; snapshots | login, retry, sync | the API |
| Analysis API and `packages/stats` | none | statistics over Tinybird | Tinybird |

### How they interact

An evaluation is admitted under the App's identity version, reads the Entity's holdovers
from KV, and, when it is a first touch, commits its usage and Exposure rows in the outbox
of its idempotency key, then writes the holdover through the App inventory to the Entity's
writer, which publishes it to KV. The outbox publishes its rows to two queues by alarm.
The consumer asks the App authority and the Entity authority for a permit, records an
attempt, appends a microbatch to Tinybird, records the outcome, releases the permits and
acknowledges. Entity deletion sets a cutoff at every store and asks each for a proof; App
identity reset blocks the identity, asks each store to purge the old version and to prove
it, and opens the new version.

### What is hard

Every Durable Object serialises itself, and none of them serialises two: the hazards are
the gaps between two objects. A row is admitted at one and appended elsewhere; a commit is
registered, sealed, confirmed and activated in four calls; a winner is durable in one
place and visible in another. Answers get lost, consumers die with requests out, queues
redeliver and give up after the last retry, KV is eventually consistent, and a deletion or
a reset may fall into any of the gaps. `PROJECT.json` lists the hazards by line, each with
the properties that would catch it or the reason none does yet.

### What makes each part correct

* Lock: a reset runs alone, resets run in order, nobody waits for ever.
* Raw delivery: nothing is sent again that Tinybird did not refuse, no silent loss, no append
  after a proof, no leaked permit.
* Evaluation commit: a retry replays the sealed pair, an accepted commit is published, and
  nothing a privacy operation has proved gone is published.
* Assignment Store: the first touch wins, no blob names a loser, an acknowledged holdover is
  visible once KV converges, and what was proved deleted stays deleted.
* Redemption: no item is reported delivered before its Exposure and its holdover are
  durable, within a lease one redemption appends, and every sealed row is collected.
* Outbox and App deletion: a job that is owned keeps an alarm until it is written, poisoned
  or deleted, a complete deletion leaves no job, a freeze belongs to a saga, and cancel and
  drain end.
* Identity reset: no row of a destroyed epoch is served, or retained, a version has one key,
  no lease outlives the block, and a reset that failed anywhere can be resumed.
* Planned parts: a Metric Event is counted once; the KV projection follows D1.

## 2. Modules

`FirstTouch` is an abstract specification; the others model code. Each `MC` module gives
the constants of the runs, each `Proofs` module holds the theorems of its component. An
operator marked `Mutant` is a plausible slip of the definition that follows it; no
specification uses it, and `PROJECT.json` says which property it breaks.

### `DeliveryResetLock` (`delivery-reset-lock.ts`)

The lock every privacy authority puts around its routes: deliveries take the shared side,
suppression, deletion and reset the exclusive one. It is cooperative code on promises, so
the model has one action per stretch between two awaits and a woken caller has to look at
the state again. `ArriveShared`/`ResumeShared` are the loop on the writer count,
`ArriveExclusive`/`ResumeQueued`/`ResumeDraining` the chain of earlier writers and the
drain of the readers, `LeaveExclusive` the finally block. Delivery slots come back, as the
queue's consumers do; resets arrive once each.

### `RawEventDelivery` (`raw-event-queue.ts` and the authorities it calls)

One App, its Exposure and usage rows in the queues (`rowEntity`: a message is of either
kind, chosen when it is queued), the App authority (version, suppression, permits,
inventory), the Entity authorities (cutoff, permits), the attempt object of each delivery,
and Tinybird as a counter of appended rows. A message has a
program counter through `admit`, `entity`, `begin`, `send`, `wait`, `mark`, `deadletter`,
`transferred`, `complete` and `release`. A remote call may fail without effect or take
effect and lose its answer; the consumer may die anywhere (`ConsumerDies`), and a request
it had sent then stays `abandoned` and may still land. A timeout does the same. The code
classifies an answer by its status alone, so every answer but a success may hide an append:
a 429, 500 or 503 counts as refused (`refused`) and authorises another request, and the row
may then be there twice. ADR-0043:170-173 expects such duplicates and leaves them to
downstream dedup. The App
authority's lock is used by its promise, proved in the module above: a reset starts when
no consumer is inside (`NoAppSection`), and none enters while it purges. The rows of one
microbatch get their outcomes independently, which allows more than one common answer
does. Left out: the 5 MB cut of a microbatch, telemetry, and rows that fail to parse.

### `EvaluationCommit` (`evaluation-commit*.ts`)

One idempotency key. Requests that carry it run lookup, charge, registration of the commit
at the App, registration of each row at the App and at its Entity, seal, confirmation and
activation, and may stop anywhere. The outbox has one alarm slot, used for publication,
its retry and the expiry of the 24-hour window; `WindowEnds` is that expiry as the code
sees it. The identity of the outbox hashes the identity version, so the requests all have
version 1 and a reset moves the App to version 2 (3 stands for the suppression).

### `AssignmentStore` (`evaluate.ts`, `kv-assignment-store.ts`, `assignment-store-writer.ts`)

One Entity under one identity version. A Run decides the Variant, so a holdover is its
Run. `kv` is the newest blob and `kvOld` what a read may still return, the one the writer
merges into included (`writeThrough` is a plain KV get). `removed` is the history of the
winners a privacy operation took away. A put is a
message: the App's section (`holdover-write-app-assignment.ts`) is held across it, and
when the App's object restarts its caller fails while the put goes on (`AppRestarts`). The
writer runs one operation at a time, as `blockConcurrencyWhile` makes it, with the durable
part and the KV part of an operation as two steps between which only others move. Identity
leases are used by their promise (ADR-0057): a reset waits the last lease out before it
blocks the identity, so checks fail from then on. The registration of writers that predate
the inventory (`registerSettledAssignmentWriters`) adds nothing here, since a put registers
its writer first.

### `RedemptionClaims` (`exposure-redemption-claim-core.ts`, `exposure-redemption-do-handler.ts`)

The claim Durable Object of one App Environment. `exposure` and `ticket` are its rows, each
pending, sealed or accepted, with an expiry; a read of an expired row deletes it, as
`liveExposure` and `liveTicket` do. `Claim`, `MarkSealed`, `Ack` and `Release` are the
routes, one storage transaction each; `ClaimOutcome` is the answer of a claim as a function
of the two rows. There is one alarm for all rows: `SetExpiryAlarm` moves it only forward
and otherwise remembers the expiry in `floor`, and `RunClaimAlarm` lists one page of keys,
in storage order, from the cursor on. Answers the protocol never sends (400, 404, a body
that is not JSON) are left out.

### `ExposureRedemption` (`exposures.ts`)

`redeemOne` against `RedemptionClaims`, Event Ingest and the outbox: claim, append,
confirmation, seal, holdover, acknowledgement and the answer, one action per call. The SDK
keeps an item until another answer than SERVICE_UNAVAILABLE reaches it, and may send it
again while an earlier request is still running. A call is lost before or after it took
effect, an isolate dies anywhere, and a reset purges the claims. The claims carry no
fencing token, so a redemption that outlives its lease acts on a row that is no longer its
own; `overran` records that this happened, and `OneAppender` promises nothing then.

### `HoldoverOutbox` (`holdover-write-outbox-*.ts`, `holdover-write-app-inventory.ts`)

One outbox per Entity and what it uses of the App: the registered Entities, the keys that
refuse new work, and the tombstone in eventually consistent KV. `ob` says which operation
holds the outbox's critical section; a call of the inventory is a step of its own inside
it. `acked` is the history of the callers that were told "owned". When a job is due is a
choice. Left out: the Entity cutoff and the identity fence, which only refuse jobs.

### `AppDeletion` (`app-delete-holdover.ts`, `holdover-write-app-deletion-saga*.ts`)

Extends `HoldoverOutbox` with the DELETE requests, the D1 record and the saga. A driver is a
request or the inventory's alarm handler; `drv` says which call it makes next, and the calls
of the outboxes run between two storage steps of the inventory. Request slots come back, and
a generation that no record, saga or driver remembers is minted again, so that two slots and
two generations stand for any number of requests, of which two run at a time. The alarm acts
on a saga it has read in an earlier step, which may have moved by then. Sagas without a generation, written by an older release, are left out.

### `AppIdentityReset` (`app-identity-reset.ts`, `config-store-app-identity.ts`)

The coordinator's record, its lease and the reset that holds it; isolates with a leased
record, a request admitted under it and a late write; the two sinks with the reset they are
closed for and the version they admit; and, for each store, the versions it has rows of. A
consumer appends its row (`AppendRow`) with a permit that a later step gives back
(`CompleteRow`), because the answer came or because it waited long enough; in the second case
the request is `adrift` and may land at any time (`LandLate`). The purge of the analytics
leaves a generation tombstone for every destroyed version (`tombs`), which the serving pipes
join against. The rows are those that name an Entity; a usage row (`raw_evaluations`) carries
no hash, and a late one is counted as usage. A time is what is left of a lease, and an
isolate's clock may be `Skew` behind. The stores are purged in the order of `APP_IDENTITY_RESET_STORES`, each proof is saved by a step of its own,
and the coordinator may fail between any two. The two D1 ledgers are one store. How a store
purges itself is the subject of the modules above.

### `FirstTouch`

What the store promises: a holdover is written once, after an Exposure of its Experiment
was accepted, never replaced, and only a privacy operation removes it. `AssignmentStore`
implements it with `holdover` as the durable winners and `exposed` as the Experiments
whose commit was sealed with an Exposure.

## 3. Runs

| Run | Bounds | What it shows |
| --- | --- | --- |
| `lock` | 2 delivery slots, 3 resets | `RunsAlone`, `WritersInOrder`; under fairness `ResetNotStarved`, `DeliveryResumes` |
| `raw_delivery` | 1 row of either kind, 3 deliveries, clock 2, 1 reset, 1 aborted reset | `OnlyRefusedIsResent`, `AckedIsAccountedFor`, `NoAttendedAppendAfterProof`, `AckedHoldsNoPermit`; `MessageSettles`, `ResetConverges` |
| `commit` | 2 requests, one with a row and one without, 1 Entity, 2 seals, 1 failure, clock 2, a reset | retries replay, what is accepted is published, nothing proved gone is, `DeletionConverges` |
| `assignment` | 2 requests of 1 Experiment, 2 Runs, 1 attempt each, 1 fault, clock 2, deletions, a reset | the race, with stale reads and late puts: `KvMatchesWinner`, `ProvedStaysDeleted`, `ImplementsFirstTouch`; `EvaluationAnswered` |
| `claims` | 2 exposureIds, 2 tickets, page 2, lease 1, TTL 2, clock 5 | `ClaimHasItsTicket`, `SealedIsOwned`, `SealedIsCollected` |
| `redemption` | 2 redemptions, 2 exposureIds, 1 ticket, lease 1, TTL 2, clock 3, 2 faults | `NothingLost`, `SuccessOwnsHoldover`, `OneAppender`, `SealedAppendsOnce` |
| `app_deletion` | 1 Entity, 2 request slots, 2 generations, 2 attempts, 1 fault and any number of failed KV deletes, requests may die | `CompletedIsEmpty`, `OwnedIsArmed`, `FreezeHasSaga`; `CancelConverges`, `DrainConverges` |
| `identity_reset` | 2 isolates, 2 reset ids, lease 1, no skew, 2 versions, 1 fault | `BlockedHasNoLease`, `DestroyedIsGone`, `OneKeyPerVersion`, `ActiveIsOpen`; `ResetResumes` |
| `raw_proof_final`, `app_deletion_boundary`, `assignment_visible`, `identity_leftover` | | the four disagreements below |

Why the bounds are enough to be interesting: two deliveries are the least for a redelivery
over an unresolved attempt, the third lets a retryable answer come in between; two
requests are the least for a race, two seals for a commit that follows an expiry, two Runs
for a boundary; a clock of two separates a row at the cutoff from one after it. One fault at a time is what the code claims to survive, and
each fault may fall anywhere. For the claims, a page of two keys makes a sweep of four rows
take several ticks, and a clock of five lets a row be sealed, expire and be claimed again
while one runs. Two DELETE requests are the least that share a generation. Two versions
are one reset, whose late writes come one epoch late.

Wider instances pass as well, and are left out of the runs for their length: two messages
with two deliveries each and a clock of one (safety of `RawEventDelivery`, 7.8 million
states); the Assignment Store with two attempts of each request, for all its properties with a
clock of one (0.7 million) and for safety with a clock of two (5.4 million); three versions, that is two
resets in a row, with two isolates and a fault (safety of `AppIdentityReset`, 6.3 million)
and with one isolate (`ResetResumes`, 0.25 million). Symmetry is used for the two redemptions only; in the
other runs the elements differ in role, or a liveness property is checked.

`TypeOK` is a theorem for every component. The runs of `commit`, `app_deletion` and
`identity_reset` check it too; the others check the properties that say more.

`CHECK_DEADLOCK FALSE` is set where the system may come to rest: every message settled,
every request answered, no privacy operation asked for.

### Disagreements between documents and code

Four runs check a sentence of the repository and fail; each is a finding.

* `raw_proof_final`: ADR-0043 says a batch cannot append after a proof. A request that
  times out is indeterminate, its permits are released, and it may land later. What does
  hold, and is checked, is `NoAttendedAppendAfterProof`: no append while the consumer waits.
* `app_deletion_boundary` (1 fault, requests do not die): "never cancel/rollback past the
  D1 boundary". A prepare fails and the alarm reads the saga that is being cancelled; a
  second request of the same generation ends that cancel, prepares again and commits the D1
  boundary; the alarm's next storage step compares generations only and cancels the
  prepared saga. The App row is gone and its inventory is open.
* `assignment_visible` (2 Experiments, no fault, no privacy operation): "HTTP success means
  the Entity KV blob is visible". The writer merges over its own KV read. When that read is
  stale, which ADR-0009 allows for a minute, the entry of another Experiment that was
  published and acknowledged before is dropped, and stays dropped when KV has converged,
  until that Experiment is put again. What holds, and is checked and proved, is that no blob
  ever names a loser (`KvMatchesWinner`).
* `identity_leftover` (1 isolate, 1 reset, no fault): the reset "never leaves retained
  old-epoch rows". A request that its consumer gave up holds no permit and may land after
  the rows of the App were deleted and counted. What holds, and is checked and proved, is
  `DestroyedIsGone`: such a row is hidden by the tombstone of its version, so it is not
  served; it stays until its TTL.

Three behaviours the model takes have no run of their own:

* A checkpoint of a cancel that has ended may come late and find a newer cancel of the same
  generation that has not cleared its tombstone yet. It ends that saga too, the tombstone
  stays without one, and the outboxes of a live App wait for ever. `FreezeHasSaga` speaks of
  the freeze in the object's storage only, which has no such path.
* After a retry across a Run boundary the holdover names Run 2 and the sealed Exposure
  Run 1. `FirstTouch` therefore promises an Exposure of the Experiment, not of the Run.
* A failed identity read around the holdover lookup counts as no holdover.

Exceptions that are written into properties come from the code as well.
`ProvedDeletionIsRedacted` and `NothingQueuedAfterReset` leave out what the expiry alarm
erased (`expireOrSchedule` deletes tombstone and redactions with the state) while another
request of the same key was between registration and seal. `ResetConverges` leaves out a
permit of a message that the queue itself moved to the DLQ after its last delivery.
`DrainConverges` leaves out a request that replays begin, which disarms the alarm, and
stalls or dies before it marks the boundary again. `ResetResumes` and `DestroyedIsGone`
leave out an Entity of the old epoch that registers late: `registerAppInventoryEntity`
compares no identity version.

### Fairness

* Lock: a caller whose promise is settled is resumed, and a running callback ends; the
  event loop justifies it. Nothing forces anyone to arrive.
* Raw delivery: the queue delivers what it holds, an invocation that does not die goes on
  (strongly, since it may wait for the App between two resets, where the lock lets it in),
  and the control plane repeats a reset. Faults and late requests are not fair.
* Evaluation commit: a due alarm runs, and the privacy job repeats a refused deletion.
  Requests are not fair: a caller may give up anywhere.
* Assignment Store: an admitted evaluation goes on and the writer finishes; a waiting put
  is taken (strongly: the object's input queue is first in, first out).
* Claims: time passes and a due alarm runs. Nothing forces a route to be called.
* App deletion: the inventory's alarm runs and its handler goes on, KV does not fail for ever
  (strong fairness of the plan that clears the tombstone), and an outbox finishes what it
  holds and serves the call that waits for it. Nothing of the requests is fair: an owner
  need not try again, and the alarm alone has to end a saga.
* Identity reset: a reset that failed is asked for again, as a resumable workflow supposes
  (without that nobody drives it: the coordinator has no alarm), its steps go on, time
  passes, and consumers are done with what they hold. Nothing makes a given-up request land.

## 4. Theorems

`DeliveryResetLockProofs` proves `TypeOK`, `RunsAlone` and `WritersInOrder` for any sets
of deliveries and resets. `RunsAlone` is not inductive: a reset that runs is alone because
it drained the readers while the writer count kept new ones out. The inductive invariant
adds that the reader set is exactly the running deliveries (`ReadersExact`), that the
writer count is the number of resets that arrived and have not left (`WritersExact`), that
tickets are given out in order without gaps (`TicketsExact`), that a settled promise has
an owner that left (`ResolvedByOwner`) and that a running reset found no reader
(`ResetDrained`).

`AssignmentStoreProofs` proves, for any Requests, Experiments, Runs, clock, attempts and
faults:

* `StoreTypeOK`, from `TypeInv`: `TypeOK` and that the holder of the App's section is
  exactly the evaluation that waits for its put (`CallsExact`);
* `StoreImplementsFirstTouch`, from `ExposedFirst`: a put on its way, taken or stored
  belongs to an Experiment with a sealed Exposure;
* `StoreProvedStaysDeleted`, from `DeletionInv` and `ResetInv`: a proof never exceeds the
  durable cutoff, a winner is newer than the cutoff, and from the freeze on only registered
  writers can hold winners, so that the purge mark implies the fence;
* `StoreKvMatchesWinner`, from `KvInv`: every blob a get may return, the one the writer is
  about to merge into included, holds winners only, or what a privacy operation removed. It
  needs no assumption about how fresh the writer's reads are.

`RawEventDeliveryProofs` proves all safety invariants of `RawEventDelivery`, for any
messages, Entities and bounds, from five conjuncts of an inductive invariant:

* `TypeInv`: `TypeOK`; what keeps the delivery and version counters in their bounds
  (`CountersBounded`); an invocation holds exactly the messages in flight
  (`HeldInFlight`); the outcome or settlement it carries is one (`ArgFits`). It gives
  `DeliveryTypeOK`;
* `AttemptInv`: while the attempt state of a live message is `none` or `retryable`, Tinybird
  has refused every request for its row so far; the requests that may have left a row are
  never more than the refused ones and one. It gives `DeliveryOnlyRefusedIsResent`;
* `LedgerInv`: every state on the way to an acknowledgement has its reason on record. It
  gives `DeliveryAckedIsAccountedFor`;
* `PermitInv`: a message about to be acknowledged has given its Entity permit back; only
  Exposures have one. It gives `DeliveryAckedHoldsNoPermit`;
* `ProofInv`: from admission to Tinybird's answer a row has its permits and no proof
  covers it; a purge finds no App permit; a proved version is behind the admitted one; a
  deletion proof never exceeds the cutoff. It gives
  `DeliveryNoAttendedAppendAfterProof`.

`RedemptionClaimsProofs` proves, for any rows, lease, TTL and page size, `ClaimsTypeCorrect`,
`ClaimsArePaired` and `SealedRowsAreOwned` from `ClaimsInv`: every ticket row has the
exposure row that owns it (`TicketHasItsOwner`), and a sweep in progress has a due alarm
(`CursorIsArmed`). The second is why a row behind the cursor is not forgotten: the tick
that ends the sweep takes the floor and the earliest expiry it met into account. The lemmas
are stated for the routes, so that the next module cites them.

`ExposureRedemptionProofs` proves, for any number of redemptions, items and faults,
`TypeCorrect`, `NothingIsLost`, `SuccessHasHoldover`, `AppendsAlone` and
`SealedTicketStays`. `NothingLost` alone is not inductive: a retry may be told
"deduplicated" on the word of a row. The invariant therefore says that a row past pending
has its Exposure at Event Ingest, that every point of `redeemOne` after the append does,
and that the success a redemption plans has its holdover. `OneAppender` needs `HeldInv`:
within its lease, the row of a redemption's ticket is pending and owned by its exposureId,
unless a redemption of the ticket has outlived its lease or a reset has purged the row.

`AppIdentityResetProofs` proves `ResetTypeCorrect`, `BlockedTrafficIsOver`,
`DestroyedEpochsAreGone`, `ElectedKeyIsUnique` and `ActiveSinksAreOpen`, for any isolates,
reset ids, lease, skew and number of epochs, from `ResetInv`:

* `RecordInv`, `CallInv`: how many proofs and releases each state of the record may hold,
  and that the call that runs is the one the record names;
* `LeaseInv`: what an isolate may still use ends within the coordinator's lease plus the lag
  of its clock, and within the lag alone once the block is stored;
* `EpochInv`: a cache, or an admitted request, is of the record's epoch with the record's
  key, or of an older one;
* `SinkInv`, `RowInv`: an open sink admits the record's epoch only, and so every row behind
  it and every permit is of that epoch. This is why a late write of an old epoch has nowhere
  to go in the stores of Splitch: the purge that empties a store had closed the sink before;
* `TombInv`: every epoch before the record's has its tombstone, and the record's own only
  while it is being destroyed. This is what is left for Tinybird, which takes a late row;
* `PurgeInv`, `ReleaseInv`: what each purge leaves behind, from its answer (`Purged(n)`
  holds before the proof is saved) until the key is rotated, and each release until the
  identity is active.

`AppDeletionProofs` proves `DeletionTypeCorrect`, `OwnedJobsKeepAnAlarm`, `FreezesHaveASaga`,
`CompletedAppsAreEmpty` and `NothingLeavesTheBoundary`, for any Entities, requests,
generations and faults, from `DeletionInv`:

* `JobInv`, `RegisteredInv`: an Entity with a job, or about to get one, is in the inventory.
  `CompletedIsEmpty` is not inductive without it: a completed App is one whose inventory is
  empty, which says nothing of a job the inventory does not know;
* `SagaInv`: past the boundary the inventory refuses to register, so an Entity the drain has
  emptied stays empty until it is unregistered (`DrainedStaysEmpty`);
* `HalfWayArmed`: an unfinished freeze or cancel has its alarm, or the alarm's handler has
  read this very saga. It is stronger than `FreezeHasSaga`, which asks for any handler: one
  that had read an earlier generation would end nothing;
* `DriverInv`: a driver between the purge of an outbox and its unregistration knows that it
  is empty, and one between finalize and the D1 record that the inventory is complete.

`NothingLeavesTheBoundary` is an action property: a saga the inventory has marked past the
boundary never leaves it. It is what remains of the sentence `app_deletion_boundary`
refutes, where the D1 row goes before the inventory is marked.

`EvaluationCommitProofs` proves `CommitTypeCorrect`, `ProvedDeletionsAreRedacted`,
`NothingIsQueuedAfterReset` and `RetriesReplayTheSameCommit`, for any requests, rows,
Entities, seals, failures and clock values, from `CommitInv`:

* `PublisherInv`: a publication is of a commit the privacy routes have left alone;
* `EntityInv`: an Entity knows only rows newer than its proved deletion, and a proof never
  exceeds the cutoff;
* `RowInv`: a row on its way to the outbox is known to its Entity, or redacted, or an expiry
  erased its redaction; the same holds of every row the current commit may still publish.
  The first half carries the second through a seal that a deletion overtook;
* `FenceInv`: once the App has refused the identity and purged the commit, what is sealed is
  void or nobody is left to activate it, and what is yet to be sealed will find the
  tombstone or will not be activated. No single request carries this, since one may have
  confirmed what another is about to seal.

`RetriesReplaySameCommit` is read off `Effects`, the lemma that sorts every step by what it
does to the stored commit: leaves it, redacts it, voids it, lets it expire, or seals a new
one where none is current.

The theorems assume what each module's `ASSUME` says of its constants (bounds are naturals,
`None` is no identifier, every row has one Entity and one request). TLC evaluates each `ASSUME` on the instances.

Every safety property of a passing run is a theorem. Only model-checked are the liveness
properties, since fairness is out of the prover's reach. `NoAppendAfterProof`,
`GoneStaysFrozen`, `AckedIsVisible` and `NoneRetained` are violated, so there is nothing to
prove. TLC finds each
inductive invariant true on the constants of a run of its component.

## 5. Plan

1. A next step for the proofs: the promises that one module takes from another, as theorems
   about both. Raw delivery uses the lock by `NoAppSection`, redemption and App deletion use
   the outbox, and the Assignment Store uses the lease wait of the identity reset.
2. `MetricEvent`: write-ahead attempt, publication by alarm, reconciliation that only
   acknowledges what is committed, and poison transfer.
3. The composition of App deletion and identity reset, which share the inventory's saga.
4. `AdmissionGate` with the usage replay window: token buckets whose clock may go back.
5. `ConfigStore` and `SnapshotSync`: D1 commit, KV projection journal, pushed snapshots.
6. The Entity cutoffs of the outbox: two deletions that arrive out of order.
7. Assignment by hash and Targeting Rules of `evaluation-core` as operators, checked
   against a reference on bounded inputs.

## 6. Not modelled

The Control Panel, CLI, MCP server, marketing site and UI kit are presentation and I/O.
`packages/stats` and the Analysis API compute over reals and in SQL. `packages/db` is
schema and queries. Auth is mostly validation against external providers; refresh token
rotation is a candidate for later. Cloudflare (Queues, KV, Durable Objects) and Tinybird
are modelled from how the code uses them and marked external in the map.
