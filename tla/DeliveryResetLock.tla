------------------------- MODULE DeliveryResetLock -------------------------
(***************************************************************************)
(* The readers-writer section that every privacy Durable Object of the     *)
(* Event Ingest Worker puts around its requests                            *)
(* (apps/event-ingest-api/src/delivery-reset-lock.ts).                     *)
(*                                                                         *)
(* JavaScript runs one turn at a time, so an action is the code between    *)
(* two awaits.  A promise is known by the number of the exclusive() call   *)
(* that created it; promise 0 is the resolved one the object starts with.  *)
(* The microtask that resumes a request is an action of its own, because   *)
(* other requests may run between a promise settling and the request that  *)
(* awaits it resuming.                                                     *)
(***************************************************************************)
EXTENDS Naturals, FiniteSets

CONSTANTS Shared,     \* requests to a concurrent() route
          Exclusive   \* requests to an alone() route

ASSUME RequestsAssumption == Shared \cap Exclusive = {}

VARIABLES
  writers,      \* DeliveryResetLock.writers
  writerQueue,  \* the number of the promise in DeliveryResetLock.writerQueue
  readers,      \* the shared requests whose run() promise is in the readers set
  resolved,     \* the numbers of the promises that are resolved
  pc,           \* where each request stands
  ticket,       \* exclusive: the number of the promise the call created
  awaiting,     \* shared: the number of the promise the waiting loop awaits
  draining      \* exclusive: the readers its allSettled() was given

vars == <<writers, writerQueue, readers, resolved, pc, ticket, awaiting, draining>>

Requests == Shared \cup Exclusive

(***************************************************************************)
(* shared: idle -> [waiting ->] running -> settled -> idle                 *)
(* exclusive: idle -> queued -> [draining ->] running -> done              *)
(* "settled" is a run() promise that has settled while the finally block   *)
(* that removes it from the readers set has not run yet.                   *)
(***************************************************************************)
SharedPc == {"idle", "waiting", "running", "settled"}
ExclusivePc == {"idle", "queued", "draining", "running", "done"}

Init ==
  /\ writers = 0
  /\ writerQueue = 0
  /\ readers = {}
  /\ resolved = {0}
  /\ pc = [q \in Requests |-> "idle"]
  /\ ticket = [w \in Exclusive |-> 0]
  /\ awaiting = [r \in Shared |-> 0]
  /\ draining = [w \in Exclusive |-> {}]

\* Mutant: exclusive() counts itself as a writer only when it starts to run.
EnterOrWaitUnclaimed(r) ==
  \/ /\ \E w \in Exclusive : pc[w] = "running"
     /\ pc' = [pc EXCEPT ![r] = "waiting"]
     /\ awaiting' = [awaiting EXCEPT ![r] = writerQueue]
     /\ UNCHANGED readers
  \/ /\ \A w \in Exclusive : pc[w] # "running"
     /\ pc' = [pc EXCEPT ![r] = "running"]
     /\ readers' = readers \cup {r}
     /\ UNCHANGED awaiting

(***************************************************************************)
(* One pass of the loop of shared(): wait for the newest writer, or start  *)
(* run() and join the readers in the same turn.                            *)
(***************************************************************************)
EnterOrWait(r) ==
  \/ /\ writers > 0
     /\ pc' = [pc EXCEPT ![r] = "waiting"]
     /\ awaiting' = [awaiting EXCEPT ![r] = writerQueue]
     /\ UNCHANGED readers
  \/ /\ writers = 0
     /\ pc' = [pc EXCEPT ![r] = "running"]
     /\ readers' = readers \cup {r}
     /\ UNCHANGED awaiting

\* A request arrives at a concurrent() route.
ArriveShared(r) ==
  /\ pc[r] = "idle"
  /\ EnterOrWait(r)
  /\ UNCHANGED <<writers, writerQueue, resolved, ticket, draining>>

\* The promise the waiting loop awaits has resolved: the loop re-reads writers.
ResumeShared(r) ==
  /\ pc[r] = "waiting"
  /\ awaiting[r] \in resolved
  /\ EnterOrWait(r)
  /\ UNCHANGED <<writers, writerQueue, resolved, ticket, draining>>

\* run() of a shared section settles, fulfilled or rejected.
SettleShared(r) ==
  /\ pc[r] = "running"
  /\ pc' = [pc EXCEPT ![r] = "settled"]
  /\ UNCHANGED <<writers, writerQueue, readers, resolved, ticket, awaiting, draining>>

\* The finally block of shared().  The slot is then free for another request.
LeaveShared(r) ==
  /\ pc[r] = "settled"
  /\ readers' = readers \ {r}
  /\ pc' = [pc EXCEPT ![r] = "idle"]
  /\ UNCHANGED <<writers, writerQueue, resolved, ticket, awaiting, draining>>

\* The synchronous prologue of exclusive(): claim, and chain behind the newest promise.
ArriveExclusive(w) ==
  /\ pc[w] = "idle"
  /\ writers' = writers + 1
  /\ writerQueue' = writerQueue + 1
  /\ ticket' = [ticket EXCEPT ![w] = writerQueue + 1]
  /\ pc' = [pc EXCEPT ![w] = "queued"]
  /\ UNCHANGED <<readers, resolved, awaiting, draining>>

\* Mutant: exclusive() runs as soon as the earlier writer is done, without draining.
DrainOrRunNoDrain(w) ==
  /\ pc' = [pc EXCEPT ![w] = "running"]
  /\ UNCHANGED draining

\* One pass of the draining loop: await the present readers, or run alone.
DrainOrRun(w) ==
  \/ /\ readers # {}
     /\ pc' = [pc EXCEPT ![w] = "draining"]
     /\ draining' = [draining EXCEPT ![w] = readers]
  \/ /\ readers = {}
     /\ pc' = [pc EXCEPT ![w] = "running"]
     /\ UNCHANGED draining

\* Mutant: exclusive() does not await the earlier writer.
ResumeQueuedNoChain(w) ==
  /\ pc[w] = "queued"
  /\ DrainOrRun(w)
  /\ UNCHANGED <<writers, writerQueue, readers, resolved, ticket, awaiting>>

\* The earlier writer's promise has settled.
ResumeQueued(w) ==
  /\ pc[w] = "queued"
  /\ ticket[w] - 1 \in resolved
  /\ DrainOrRun(w)
  /\ UNCHANGED <<writers, writerQueue, readers, resolved, ticket, awaiting>>

\* allSettled() of the awaited readers has settled; some may still be in the set.
ResumeDraining(w) ==
  /\ pc[w] = "draining"
  /\ \A r \in draining[w] : pc[r] # "running"
  /\ DrainOrRun(w)
  /\ UNCHANGED <<writers, writerQueue, readers, resolved, ticket, awaiting>>

\* Mutant: The finally block of exclusive() forgets release().
LeaveExclusiveNoRelease(w) ==
  /\ pc[w] = "running"
  /\ writers' = writers - 1
  /\ pc' = [pc EXCEPT ![w] = "done"]
  /\ UNCHANGED <<writerQueue, readers, resolved, ticket, awaiting, draining>>

\* run() of an exclusive section settles and its finally block releases the lock.
LeaveExclusive(w) ==
  /\ pc[w] = "running"
  /\ writers' = writers - 1
  /\ resolved' = resolved \cup {ticket[w]}
  /\ pc' = [pc EXCEPT ![w] = "done"]
  /\ UNCHANGED <<writerQueue, readers, ticket, awaiting, draining>>

SharedStep(r) == ResumeShared(r) \/ SettleShared(r) \/ LeaveShared(r)
ExclusiveStep(w) == ResumeQueued(w) \/ ResumeDraining(w) \/ LeaveExclusive(w)

Next ==
  \/ \E r \in Shared : ArriveShared(r) \/ SharedStep(r)
  \/ \E w \in Exclusive : ArriveExclusive(w) \/ ExclusiveStep(w)

(***************************************************************************)
(* A section that has started settles, and the runtime runs every pending  *)
(* microtask.  Nobody owes the lock a request: arrivals are not fair.      *)
(***************************************************************************)
Fairness ==
  /\ \A r \in Shared : WF_vars(SharedStep(r))
  /\ \A w \in Exclusive : WF_vars(ExclusiveStep(w))

Spec == Init /\ [][Next]_vars

FairSpec == Spec /\ Fairness

----------------------------------------------------------------------------
Claimed == {w \in Exclusive : pc[w] \in {"queued", "draining", "running"}}
Running == {q \in Requests : pc[q] = "running"}

\* The shapes of the lock's fields and of the requests' positions.
TypeOK ==
  /\ writers \in Nat
  /\ writerQueue \in Nat
  /\ readers \subseteq Shared
  /\ resolved \subseteq Nat
  /\ pc \in [Requests -> SharedPc \cup ExclusivePc]
  /\ \A r \in Shared : pc[r] \in SharedPc
  /\ \A w \in Exclusive : pc[w] \in ExclusivePc
  /\ ticket \in [Exclusive -> Nat]
  /\ awaiting \in [Shared -> Nat]
  /\ draining \in [Exclusive -> SUBSET Shared]

(***************************************************************************)
(* An exclusive section runs alone: no delivery it has to wait for, and no *)
(* other reset, is inside while a reset purges.  This is the sentence the  *)
(* class comment opens with (delivery and a privacy reset never overlap).  *)
(***************************************************************************)
RunsAlone ==
  \A w \in Exclusive : pc[w] = "running" => Running = {w} /\ readers = {}

(***************************************************************************)
(* Exclusive sections run in the order in which exclusive() was called,    *)
(* however the microtasks that resume them are interleaved.                *)
(***************************************************************************)
WritersInOrder ==
  \A v, w \in Exclusive :
    /\ 0 < ticket[v] /\ ticket[v] < ticket[w]
    /\ pc[w] \in {"draining", "running", "done"}
    => pc[v] = "done"

(***************************************************************************)
(* A busy App cannot starve a privacy reset: every exclusive request is    *)
(* eventually done although shared requests keep arriving for ever.        *)
(***************************************************************************)
ResetNotStarved == \A w \in Exclusive : pc[w] = "queued" ~> pc[w] = "done"

(***************************************************************************)
(* No wake-up is lost: a delivery that waits behind resets is eventually   *)
(* admitted, also when it awaited a promise that another writer replaced.  *)
(***************************************************************************)
DeliveryResumes == \A r \in Shared : pc[r] = "waiting" ~> pc[r] = "running"
=============================================================================
