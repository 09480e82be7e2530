-------------------------- MODULE AppIdentityReset --------------------------
(***************************************************************************)
(* Replacement of a compromised App identity key (ADR-0044): the identity  *)
(* coordinator of the App, a Durable Object, leases the identity record to *)
(* the data plane and runs the reset; the data plane writes rows under the *)
(* version it was admitted with; the reset blocks the identity, purges     *)
(* every store, rotates the key, releases the two sinks and activates.     *)
(*                                                                         *)
(*   coordinator  rec, lease, call: a reset holds blockConcurrencyWhile,   *)
(*                so no other call is served while it runs                 *)
(*   isolate      cache, op: a worker of Evaluation or Event Ingest        *)
(*   sinks        susp, active: the App inventory of each sink             *)
(*   stores       data: the versions that a store has rows of              *)
(*                                                                         *)
(* Time is what is left of a lease.  The clock of an isolate may be behind *)
(* the coordinator's by up to Skew.                                        *)
(***************************************************************************)
EXTENDS Naturals, Sequences

CONSTANTS
  Isolates, ResetIds, None,
  Lease,        \* APP_IDENTITY_TRAFFIC_LEASE_MS, in ticks
  Skew,         \* how far the clock of an isolate may be behind
  MaxVersion,   \* bound on epochs
  MaxFaults     \* bound on failed calls and restarts of the coordinator

ASSUME ResetAssumption ==
  /\ Lease \in Nat \ {0} /\ Skew \in Nat /\ MaxVersion \in Nat \ {0} /\ MaxFaults \in Nat
  /\ None \notin Isolates \cup ResetIds

VARIABLES
  rec,          \* the identity record, with the number of proofs it holds
  lease,        \* the ticks until no lease is outstanding
  call,         \* the reset that holds the coordinator
  cache, op,    \* isolate: its leased record, the request it has admitted
  susp, active, \* sink: the reset it is closed for, the version it admits
  data,         \* the versions each store has rows of
  permits,      \* the versions of the rows a consumer is at work on
  adrift,       \* the versions of rows sent to Tinybird whose request nobody waits for
  tombs,        \* the versions with a generation tombstone
  faults

coordVars == <<rec, lease, call>>
isolateVars == <<cache, op>>
sinkVars == <<susp, active>>
storeVars == <<data, permits, adrift, tombs>>
\* What only a delivery or the purge of the analytics changes.
rowVars == <<permits, adrift, tombs>>
vars == <<coordVars, isolateVars, sinkVars, storeVars, faults>>

\* APP_IDENTITY_RESET_STORES, in the order they are purged.
Stores == <<"runs_and_credentials", "delivery", "assignments", "analytics",
            "retry_claims", "entity_deletions", "privacy_subject_refs">>

\* APP_IDENTITY_RESET_RELEASES.
Sinks == <<"evaluation", "event_ingest">>

\* What holds rows of Entities; the two ledgers of privacy requests in D1 are one.
Surfaces == {"delivery", "assignments", "outbox", "analytics", "ledger"}

NoRecord == [version |-> 0, key |-> None, state |-> "none", reset |-> None,
             proved |-> 0, released |-> 0]
NoLease == [at |-> "none", left |-> 0, version |-> 0, key |-> None, allowed |-> FALSE]
NoOp == [at |-> "idle", version |-> 0, key |-> None]
NoCall == [at |-> "idle", reset |-> None]

Init ==
  /\ rec = NoRecord /\ lease = 0 /\ call = NoCall
  /\ cache = [i \in Isolates |-> NoLease]
  /\ op = [i \in Isolates |-> NoOp]
  /\ susp = [k \in {"evaluation", "event_ingest"} |-> None]
  /\ active = [k \in {"evaluation", "event_ingest"} |-> 0]
  /\ data = [s \in Surfaces |-> {}] /\ permits = {} /\ adrift = {} /\ tombs = {}
  /\ faults = 0

Fault == faults < MaxFaults /\ faults' = faults + 1
Served == call = NoCall
Running == call.at = "run"
Pending == rec.state = "activation_pending"

----------------------------------------------------------------------------
(* The isolates: load, provision, admission.                               *)

\* Mutant: a lease is granted without being remembered.
LeaseUnrecorded(i) ==
  /\ Served /\ op[i].at = "idle" /\ cache[i] = NoLease
  /\ \E late \in 0..Skew :
       cache' = [cache EXCEPT ![i] = [at |-> "answer", left |-> Lease + late,
                   version |-> rec.version, key |-> rec.key, allowed |-> rec.state = "active"]]
  /\ UNCHANGED <<coordVars, op, sinkVars, storeVars, faults>>

\* leaseConfigStoreAppIdentity: the expiry and the record in one transaction.
LeaseAppIdentity(i) ==
  /\ Served /\ op[i].at = "idle" /\ cache[i] = NoLease
  /\ lease' = Lease
  /\ \E late \in 0..Skew :
       cache' = [cache EXCEPT ![i] = [at |-> "answer", left |-> Lease + late,
                   version |-> rec.version, key |-> rec.key, allowed |-> rec.state = "active"]]
  /\ UNCHANGED <<rec, call, op, sinkVars, storeVars, faults>>

\* loadDurableAppIdentity: an answer that comes after its expiry is refused.
LeaseArrives(i) ==
  /\ cache[i].at = "answer"
  /\ cache' = [cache EXCEPT ![i] = IF cache[i].left > 0 THEN [@ EXCEPT !.at = "held"] ELSE NoLease]
  /\ UNCHANGED <<coordVars, op, sinkVars, storeVars, faults>>

Loads(i) == op[i].at = "idle" /\ cache[i].at = "held"

Admitted(version, key) == [at |-> "admitted", version |-> version, key |-> key]

\* currentKeyVersion with a reusable lease: the last check before a write.
AdmitAppIdentity(i) ==
  /\ Loads(i) /\ cache[i].allowed
  /\ op' = [op EXCEPT ![i] = Admitted(cache[i].version, cache[i].key)]
  /\ UNCHANGED <<coordVars, cache, sinkVars, storeVars, faults>>

\* provisionAppIdentity: there is no record yet, a key is minted.
MintInitial(i) ==
  /\ Loads(i) /\ cache[i].version = 0
  /\ op' = [op EXCEPT ![i].at = "mint"]
  /\ UNCHANGED <<coordVars, cache, sinkVars, storeVars, faults>>

Initial(key) == [NoRecord EXCEPT !.version = 1, !.key = key, !.state = "active"]

\* Mutant: the last writer wins.
PutAlways(i) ==
  /\ Served /\ op[i].at = "mint"
  /\ rec' = IF rec.state \in {"none", "active"} THEN Initial(i) ELSE rec
  /\ cache' = [cache EXCEPT ![i] = NoLease]
  /\ op' = [op EXCEPT ![i] = IF rec'.state = "active" THEN Admitted(rec'.version, rec'.key) ELSE NoOp]
  /\ UNCHANGED <<lease, call, sinkVars, storeVars, faults>>

\* putConfigStoreAppIdentityIfAbsent: the first writer wins, everyone uses its key.
PutIfAbsent(i) ==
  /\ Served /\ op[i].at = "mint"
  /\ rec' = IF rec = NoRecord THEN Initial(i) ELSE rec
  /\ cache' = [cache EXCEPT ![i] = NoLease]
  /\ op' = [op EXCEPT ![i] = IF rec'.state = "active" THEN Admitted(rec'.version, rec'.key) ELSE NoOp]
  /\ UNCHANGED <<lease, call, sinkVars, storeVars, faults>>

----------------------------------------------------------------------------
(* The writes of an admitted request, however late they reach their store. *)

\* Mutant: only an open sink is required.
AdmitsWhenOpen(sink, version) == susp[sink] = None

\* admitVersion, admitAppInventoryAssignment.
Admits(sink, version) == susp[sink] = None /\ active[sink] \in {0, version}

\* The row is accepted under the version of the request, or refused.
Write(i, sink, surface) ==
  LET v == op[i].version
  IN  /\ op[i].at = "admitted"
      /\ IF Admits(sink, v)
         THEN /\ active' = [active EXCEPT ![sink] = v]
              /\ data' = [data EXCEPT ![surface] = @ \cup {v}]
         ELSE UNCHANGED <<active, data>>
      /\ permits' = IF surface = "delivery" /\ Admits(sink, v) THEN permits \cup {v} ELSE permits
      /\ op' = [op EXCEPT ![i] = NoOp]
      /\ UNCHANGED <<coordVars, cache, susp, adrift, tombs, faults>>

PutAssignment(i) == Write(i, "evaluation", "assignments")

AdmitRow(i) == Write(i, "event_ingest", "delivery")

\* ensureHoldoverWriteJob whose put fails: registerAppInventoryEntity asks for no
\* version, and the outbox of an Entity nobody registered has no reset fence.
EnsureHoldover(i) ==
  /\ op[i].at = "admitted"
  /\ data' = IF susp["evaluation"] = None
             THEN [data EXCEPT !["outbox"] = @ \cup {op[i].version}] ELSE data
  /\ op' = [op EXCEPT ![i] = NoOp]
  /\ UNCHANGED <<coordVars, cache, sinkVars, rowVars, faults>>

\* The consumer sends its row to Tinybird and waits, with its permit.
AppendRow(v) ==
  /\ v \in permits
  /\ data' = [data EXCEPT !["analytics"] = @ \cup {v}]
  /\ UNCHANGED <<coordVars, isolateVars, sinkVars, rowVars, faults>>

(***************************************************************************)
(* The consumer has an answer, or has waited ten seconds: a request that   *)
(* timed out is indeterminate, its row goes to the dead letters and its    *)
(* permits are released as after any other outcome.                        *)
(***************************************************************************)
CompleteRow(v) ==
  /\ v \in permits
  /\ permits' = permits \ {v}
  /\ adrift' \in {adrift, adrift \cup {v}}
  /\ UNCHANGED <<coordVars, isolateVars, sinkVars, data, tombs, faults>>

\* Tinybird gets to a request that nobody waits for any more, if it ever does.
LandLate(v) ==
  /\ v \in adrift
  /\ adrift' = adrift \ {v}
  /\ data' = [data EXCEPT !["analytics"] = @ \cup {v}]
  /\ UNCHANGED <<coordVars, isolateVars, sinkVars, permits, tombs, faults>>

\* recordEntityDeletionSuppression and recordEntityPrivacyRequest, in the coordinator.
RecordEntityPrivacy ==
  /\ Served /\ rec.state = "active"
  /\ data' = [data EXCEPT !["ledger"] = @ \cup {rec.version}]
  /\ UNCHANGED <<coordVars, isolateVars, sinkVars, rowVars, faults>>

----------------------------------------------------------------------------
(* The reset.                                                              *)

\* resetConfigStoreAppIdentity takes the coordinator.
BeginReset(r) ==
  /\ Served /\ (rec.version < MaxVersion \/ rec.reset = r)
  /\ call' = [at |-> "wait", reset |-> r]
  /\ UNCHANGED <<rec, lease, isolateVars, sinkVars, storeVars, faults>>

Blocked(r) ==
  [rec EXCEPT !.state = "blocked", !.reset = r, !.proved = 0, !.released = 0]

\* Mutant: a reset that was interrupted is refused when it is called again.
BlockWithoutResume ==
  /\ call.at = "wait" /\ lease = 0
  /\ \/ rec.state = "active" /\ rec.reset # call.reset
        /\ rec' = Blocked(call.reset) /\ call' = [call EXCEPT !.at = "run"]
     \/ (rec.state # "active" \/ rec.reset = call.reset) /\ rec' = rec /\ call' = NoCall
  /\ UNCHANGED <<lease, isolateVars, sinkVars, storeVars, faults>>

\* waitForAppIdentityTrafficLeases, then the lifecycle decides.
BlockTraffic ==
  LET r == call.reset
  IN  /\ call.at = "wait" /\ lease = 0
      /\ \/ rec.state = "active" /\ rec.reset # r
            /\ rec' = Blocked(r) /\ call' = [call EXCEPT !.at = "run"]
         \/ rec.state \notin {"none", "active"} /\ rec.reset = r
            /\ rec' = rec /\ call' = [call EXCEPT !.at = "run"]
         \/ (rec = NoRecord \/ (rec.state = "active") = (rec.reset = r))
            /\ rec' = rec /\ call' = NoCall
      /\ UNCHANGED <<lease, isolateVars, sinkVars, storeVars, faults>>

ToPurge(store) ==
  Running /\ ~Pending /\ rec.proved < Len(Stores) /\ Stores[rec.proved + 1] = store

ToSave == call' = [call EXCEPT !.at = "save"]

\* resetAppIdentityDelivery: the sink is closed before its permits are looked at.
PurgeDelivery ==
  /\ ToPurge("delivery")
  /\ active["event_ingest"] \in {0, rec.version}
  /\ susp' = [susp EXCEPT !["event_ingest"] = call.reset]
  /\ IF permits # {} THEN call' = NoCall /\ UNCHANGED data
     ELSE ToSave /\ data' = [data EXCEPT !["delivery"] = {}]
  /\ UNCHANGED <<rec, lease, isolateVars, active, rowVars, faults>>

\* purgeAppIdentityAssignments: the inventory is frozen, then its Entities are purged.
PurgeAssignments ==
  /\ ToPurge("assignments")
  /\ susp' = [susp EXCEPT !["evaluation"] = call.reset]
  /\ data' = [data EXCEPT !["assignments"] = {}, !["outbox"] = {}]
  /\ ToSave
  /\ UNCHANGED <<rec, lease, isolateVars, active, rowVars, faults>>

\* Mutant: the rows are deleted and the destroyed versions get no tombstone.
PurgeUnmarked ==
  /\ ToPurge("analytics")
  /\ data' = [data EXCEPT !["analytics"] = {}]
  /\ ToSave
  /\ UNCHANGED <<rec, lease, isolateVars, sinkVars, rowVars, faults>>

\* deleteAppIdentityData: a permanent tombstone of every version, then every row of the App.
PurgeAnalytics ==
  /\ ToPurge("analytics")
  /\ tombs' = tombs \cup 1..rec.version
  /\ data' = [data EXCEPT !["analytics"] = {}]
  /\ ToSave
  /\ UNCHANGED <<rec, lease, isolateVars, sinkVars, permits, adrift, faults>>

\* The stores that hold no row of an Entity here, and the ledgers.
PurgeRest ==
  /\ \E s \in {"runs_and_credentials", "retry_claims", "entity_deletions"} : ToPurge(s)
  /\ ToSave
  /\ UNCHANGED <<rec, lease, isolateVars, sinkVars, storeVars, faults>>

PurgeLedger ==
  /\ ToPurge("privacy_subject_refs")
  /\ data' = [data EXCEPT !["ledger"] = {}]
  /\ ToSave
  /\ UNCHANGED <<rec, lease, isolateVars, sinkVars, rowVars, faults>>

\* Mutant: the proof of a release is saved among the purges.
SavePurgeProof ==
  /\ call.at = "save"
  /\ rec' = [rec EXCEPT !.proved = @ + 1]
  /\ call' = [call EXCEPT !.at = "run"]
  /\ UNCHANGED <<lease, isolateVars, sinkVars, storeVars, faults>>

\* The proof of the purge, or of the release, is saved.
SaveProof ==
  /\ call.at = "save"
  /\ rec' = IF Pending THEN [rec EXCEPT !.released = @ + 1]
            ELSE [rec EXCEPT !.proved = @ + 1, !.state = "purging"]
  /\ call' = [call EXCEPT !.at = "run"]
  /\ UNCHANGED <<lease, isolateVars, sinkVars, storeVars, faults>>

\* Every store is proved: the old epochs are destroyed.
RotateKey ==
  /\ Running /\ ~Pending /\ rec.proved = Len(Stores)
  /\ rec' = [rec EXCEPT !.version = @ + 1, !.key = rec.reset, !.state = "activation_pending"]
  /\ UNCHANGED <<lease, call, isolateVars, sinkVars, storeVars, faults>>

ToRelease(sink) ==
  Running /\ Pending /\ rec.released < Len(Sinks) /\ Sinks[rec.released + 1] = sink

\* The sink was released by an earlier call whose proof was not saved.
ReleasedBefore(sink) == susp[sink] = None /\ active[sink] = rec.version

\* The sink's inventory has to be empty.
Empty(sink) ==
  IF sink = "evaluation" THEN data["assignments"] \cup data["outbox"] = {}
  ELSE data["delivery"] = {} \/ ReleasedBefore(sink)

\* completeAppIdentityReset of Evaluation and of Event Ingest.
Release(sink) ==
  /\ ToRelease(sink)
  /\ IF (susp[sink] = rec.reset \/ ReleasedBefore(sink)) /\ Empty(sink)
     THEN /\ susp' = [susp EXCEPT ![sink] = None]
          /\ active' = [active EXCEPT ![sink] = rec.version]
          /\ ToSave
     ELSE call' = NoCall /\ UNCHANGED sinkVars
  /\ UNCHANGED <<rec, lease, isolateVars, storeVars, faults>>

\* Mutant: the release of Event Ingest is not waited for.
ActivateEarly ==
  /\ Running /\ Pending /\ rec.released > 0
  /\ rec' = [rec EXCEPT !.state = "active"]
  /\ call' = NoCall
  /\ UNCHANGED <<lease, isolateVars, sinkVars, storeVars, faults>>

\* Both sinks are released: traffic is allowed again.
Activate ==
  /\ Running /\ Pending /\ rec.released = Len(Sinks)
  /\ rec' = [rec EXCEPT !.state = "active"]
  /\ call' = NoCall
  /\ UNCHANGED <<lease, isolateVars, sinkVars, storeVars, faults>>

\* A call of the reset fails, or the coordinator restarts; storage keeps its progress.
Interrupted ==
  /\ ~Served /\ Fault
  /\ call' = NoCall
  /\ UNCHANGED <<rec, lease, isolateVars, sinkVars, storeVars>>

Less(n) == IF n = 0 THEN 0 ELSE n - 1

\* Time passes; a lease that has run out is forgotten (reusableAppIdentityLease).
Tick ==
  /\ lease > 0 \/ \E i \in Isolates : cache[i].left > 0
  /\ lease' = Less(lease)
  /\ cache' = [i \in Isolates |->
                 IF cache[i].at = "held" /\ cache[i].left = 1 THEN NoLease
                 ELSE [cache[i] EXCEPT !.left = Less(@)]]
  /\ UNCHANGED <<rec, call, op, sinkVars, storeVars, faults>>

----------------------------------------------------------------------------
ResetStep ==
  \/ BlockTraffic \/ PurgeDelivery \/ PurgeAssignments \/ PurgeAnalytics
  \/ PurgeLedger \/ PurgeRest \/ SaveProof \/ RotateKey \/ Activate
  \/ Release("evaluation") \/ Release("event_ingest")

Traffic(i) ==
  \/ LeaseAppIdentity(i) \/ LeaseArrives(i) \/ AdmitAppIdentity(i)
  \/ MintInitial(i) \/ PutIfAbsent(i)
  \/ PutAssignment(i) \/ AdmitRow(i) \/ EnsureHoldover(i)

DeliveryStep(v) == AppendRow(v) \/ CompleteRow(v) \/ LandLate(v)

Next ==
  \/ \E i \in Isolates : Traffic(i)
  \/ \E r \in ResetIds : BeginReset(r)
  \/ ResetStep \/ Interrupted \/ Tick
  \/ \E v \in 1..MaxVersion : DeliveryStep(v)
  \/ RecordEntityPrivacy

Spec == Init /\ [][Next]_vars

(***************************************************************************)
(* The reset that is under way is called again and again, and served in    *)
(* turn.  A consumer is done with its row after ten seconds at most;       *)
(* nothing makes a request that it gave up land.                           *)
(***************************************************************************)
Retry == \E r \in ResetIds : rec.reset = r /\ BeginReset(r)

Fairness ==
  /\ SF_vars(Retry) /\ WF_vars(ResetStep) /\ WF_vars(Tick)
  /\ WF_vars(\E v \in 1..MaxVersion : CompleteRow(v))

FairSpec == Spec /\ Fairness

----------------------------------------------------------------------------
\* The shapes of the variables.
Versions == 0..MaxVersion
KeyIds == Isolates \cup ResetIds \cup {None}
SinkIds == {"evaluation", "event_ingest"}

TypeOK ==
  /\ rec \in [version : Versions, key : KeyIds, reset : ResetIds \cup {None},
              state : {"none", "active", "blocked", "purging", "activation_pending"},
              proved : 0..Len(Stores), released : 0..Len(Sinks)]
  /\ lease \in 0..Lease
  /\ call \in [at : {"idle", "wait", "run", "save"}, reset : ResetIds \cup {None}]
  /\ cache \in [Isolates -> [at : {"none", "answer", "held"}, left : 0..(Lease + Skew),
                              version : Versions, key : KeyIds, allowed : BOOLEAN]]
  /\ op \in [Isolates -> [at : {"idle", "mint", "admitted"}, version : Versions, key : KeyIds]]
  /\ susp \in [SinkIds -> ResetIds \cup {None}] /\ active \in [SinkIds -> Versions]
  /\ data \in [Surfaces -> SUBSET Versions] /\ permits \subseteq Versions
  /\ adrift \subseteq Versions /\ tombs \subseteq Versions
  /\ faults \in 0..MaxFaults

(***************************************************************************)
(* The reset "blocks current and retained identity reads" (ADR-0044): when *)
(* the block is stored, every lease of the active record has run out, up   *)
(* to the lag of an isolate's clock (waitForAppIdentityTrafficLeases).     *)
(***************************************************************************)
BlockedHasNoLease ==
  rec.state \notin {"none", "active"} =>
    \A i \in Isolates :
      (cache[i].allowed /\ cache[i].version <= rec.version) => cache[i].left <= Skew

(***************************************************************************)
(* When the old epochs are destroyed no store serves a row of theirs, and  *)
(* none ever does, however late a write that was admitted before the       *)
(* block: the stores of Event Ingest, Evaluation and Config have no such   *)
(* row, no consumer is at work on one, and one that Tinybird gets late is  *)
(* hidden by the tombstone of its version (deleteAppIdentityData), which   *)
(* never hides the epoch that is active.  The rows are those of Entities:  *)
(* a usage row names none, and no tombstone hides it.  The holdover outbox *)
(* is not among the stores: registerAppInventoryEntity asks for no version. *)
(***************************************************************************)
DestroyedIsGone ==
  /\ \A s \in Surfaces \ {"outbox", "analytics"} : \A v \in data[s] : v >= rec.version
  /\ \A v \in data["analytics"] \ tombs : v >= rec.version
  /\ \A v \in permits : v >= rec.version
  /\ rec.state = "active" => rec.version \notin tombs

(***************************************************************************)
(* "It never leaves retained old-epoch rows that a later Entity export or  *)
(* deletion could no longer locate" (ADR-0044).  The request of a consumer *)
(* that gave up may land after the rows of the App were deleted and        *)
(* counted: its row is hidden, and stays.                                  *)
(***************************************************************************)
NoneRetained == \A v \in data["analytics"] : v >= rec.version

(***************************************************************************)
(* "All three paths must elect the same durable first writer"              *)
(* (config-store-app-identity.ts): nobody hashes under another key than    *)
(* the record's for its version.                                           *)
(***************************************************************************)
OneKeyPerVersion ==
  \A i \in Isolates :
    /\ op[i].at = "admitted" /\ op[i].version = rec.version => op[i].key = rec.key
    /\ cache[i].version = rec.version => cache[i].key = rec.key

(***************************************************************************)
(* An active identity finds both sinks open, and on its version: no call   *)
(* of the reset, repeated or cut short, leaves one closed behind it.       *)
(***************************************************************************)
ActiveIsOpen ==
  rec.state = "active" =>
    \A k \in SinkIds : susp[k] = None /\ active[k] \in {0, rec.version}

(***************************************************************************)
(* "One resumable ... reset workflow" (app-identity-reset.ts): called      *)
(* again it ends, whatever failed in between.  The exception is an Entity  *)
(* registered after Evaluation was released and before its proof was       *)
(* saved: the release then finds the inventory not empty, for ever.        *)
(***************************************************************************)
ResetResumes ==
  rec.state \in {"blocked", "purging", "activation_pending"} ~>
    (rec.state = "active" \/ (Pending /\ data["outbox"] # {}))
=============================================================================
