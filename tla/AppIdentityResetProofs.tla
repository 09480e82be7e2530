----------------------- MODULE AppIdentityResetProofs -----------------------
(***************************************************************************)
(* Proofs about the App identity reset, for every set of isolates and of   *)
(* reset operations, every lease and clock lag, every number of epochs.    *)
(***************************************************************************)
EXTENDS AppIdentityReset, TLAPS

InReset == rec.state \in {"blocked", "purging", "activation_pending"}

\* The purge of the n-th store has happened, its proof is saved or about to be.
Purged(n) == rec.proved >= n \/ (rec.proved = n - 1 /\ call.at = "save")

\* The same of the release of the n-th sink.
ReleaseDone(n) == rec.released >= n \/ (rec.released = n - 1 /\ call.at = "save")

(* How far the record may be, and what the running call knows of it.       *)
RecordInv ==
  /\ rec.state = "none" <=> rec.version = 0
  /\ rec.state = "none" => rec = NoRecord
  /\ InReset => rec.reset \in ResetIds
  /\ rec.state = "blocked" => rec.proved = 0
  /\ rec.state = "activation_pending" => rec.version > 1
  /\ rec.state \in {"blocked", "purging"} => rec.released = 0 /\ rec.version < MaxVersion

CallInv ==
  /\ call.at = "idle" <=> call = NoCall
  /\ ~Served => call.reset \in ResetIds
  /\ call.at = "wait" => (rec.version < MaxVersion \/ rec.reset = call.reset)
  /\ call.at \in {"run", "save"} => InReset /\ call.reset = rec.reset
  /\ call.at = "save" => IF Pending THEN rec.released < 2 ELSE rec.proved < 7

(* A lease outlives what the coordinator remembers by the lag of a clock,  *)
(* and not at all what was granted before the block.                       *)
LeaseInv ==
  \A i \in Isolates : cache[i].allowed =>
    /\ cache[i].left <= lease + Skew
    /\ InReset => cache[i].left <= Skew

(* What an isolate holds is the record's, or of an earlier epoch.          *)
EpochInv ==
  \A i \in Isolates :
    /\ cache[i].version <= rec.version
    /\ cache[i].version = rec.version => cache[i].key = rec.key
    /\ cache[i].allowed => cache[i].version > 0
    /\ op[i].at = "admitted" => op[i].version \in 1..rec.version
    /\ op[i].at = "admitted" /\ op[i].version = rec.version => op[i].key = rec.key

(* An open sink admits the record's epoch only.                            *)
SinkInv ==
  \A k \in SinkIds : susp[k] = None =>
    active[k] = rec.version \/ (active[k] = 0 /\ rec.version = 1)

(* The rows and the permits are of the record's epoch, but for the rows    *)
(* that reached Tinybird, or still may.                                    *)
RowInv ==
  /\ \A s \in Surfaces \ {"outbox", "analytics"} : \A v \in data[s] : v = rec.version /\ v > 0
  /\ \A v \in permits : v = rec.version /\ v > 0

(* Every destroyed epoch has its tombstone, and the record's only while it *)
(* is being destroyed.                                                     *)
TombInv ==
  /\ data["analytics"] \cup adrift \subseteq 1..rec.version
  /\ tombs \subseteq 1..rec.version
  /\ \A v \in 1..rec.version : v < rec.version => v \in tombs
  /\ rec.version \in tombs => rec.state \in {"blocked", "purging"}
  /\ rec.state \in {"blocked", "purging"} /\ Purged(4) => rec.version \in tombs

(* What the purges leave behind until the key is rotated.                  *)
PurgeInv ==
  rec.state \in {"blocked", "purging"} =>
    /\ Purged(2) => susp["event_ingest"] = rec.reset /\ data["delivery"] = {} /\ permits = {}
    /\ Purged(3) => susp["evaluation"] = rec.reset /\ data["assignments"] = {}
    /\ Purged(7) => data["ledger"] = {}

(* What the releases leave behind.                                         *)
ReleaseInv ==
  /\ Pending /\ ReleaseDone(1) => susp["evaluation"] = None
  /\ Pending /\ ReleaseDone(2) => susp["event_ingest"] = None
  /\ rec.state \in {"none", "active"} => \A k \in SinkIds : susp[k] = None

ResetInv ==
  /\ TypeOK /\ RecordInv /\ CallInv /\ LeaseInv /\ EpochInv
  /\ SinkInv /\ RowInv /\ TombInv /\ PurgeInv /\ ReleaseInv

-----------------------------------------------------------------------------
(* Where a store or a sink is in the order of the reset. *)
LEMMA ResetOrder ==
  ASSUME TypeOK
  PROVE  /\ Len(Stores) = 7 /\ Len(Sinks) = 2
         /\ ToPurge("delivery") => rec.proved = 1
         /\ ToPurge("assignments") => rec.proved = 2
         /\ ToPurge("analytics") => rec.proved = 3
         /\ ToPurge("privacy_subject_refs") => rec.proved = 6
         /\ \A s \in {"runs_and_credentials", "retry_claims", "entity_deletions"} :
              ToPurge(s) => rec.proved \in {0, 4, 5}
         /\ ToRelease("evaluation") => rec.released = 0
         /\ ToRelease("event_ingest") => rec.released = 1
<1>1. Len(Stores) = 7 /\ Len(Sinks) = 2
  BY DEF Stores, Sinks
<1>2. rec.proved \in 0..7 /\ rec.released \in 0..2
  BY <1>1 DEF TypeOK
<1>3. /\ Stores[1] = "runs_and_credentials" /\ Stores[2] = "delivery" /\ Stores[3] = "assignments"
      /\ Stores[4] = "analytics" /\ Stores[5] = "retry_claims" /\ Stores[6] = "entity_deletions"
      /\ Stores[7] = "privacy_subject_refs" /\ Sinks[1] = "evaluation" /\ Sinks[2] = "event_ingest"
  BY DEF Stores, Sinks
<1>4. /\ rec.proved < 7 => rec.proved + 1 \in {1, 2, 3, 4, 5, 6, 7}
      /\ rec.released < 2 => rec.released + 1 \in {1, 2}
  BY <1>2
<1> HIDE DEF Stores, Sinks
<1>5. /\ ToPurge("delivery") => rec.proved + 1 = 2
      /\ ToPurge("assignments") => rec.proved + 1 = 3
      /\ ToPurge("analytics") => rec.proved + 1 = 4
      /\ ToPurge("privacy_subject_refs") => rec.proved + 1 = 7
      /\ \A s \in {"runs_and_credentials", "retry_claims", "entity_deletions"} :
           ToPurge(s) => rec.proved + 1 \in {1, 5, 6}
  BY <1>1, <1>3, <1>4 DEF ToPurge
<1>6. /\ ToRelease("evaluation") => rec.released + 1 = 1
      /\ ToRelease("event_ingest") => rec.released + 1 = 2
  BY <1>1, <1>3, <1>4 DEF ToRelease
<1> QED BY <1>1, <1>2, <1>5, <1>6

(* Every field of every record that the coordinator and the isolates keep. *)
LEMMA FieldTypes ==
  ASSUME TypeOK
  PROVE  /\ rec.version \in Nat /\ rec.version <= MaxVersion /\ rec.key \in KeyIds
         /\ rec.reset \in ResetIds \cup {None} /\ rec.proved \in 0..7 /\ rec.released \in 0..2
         /\ call.at \in {"idle", "wait", "run", "save"} /\ call.reset \in ResetIds \cup {None}
         /\ \A i \in Isolates :
              /\ cache[i].at \in {"none", "answer", "held"} /\ cache[i].left \in 0..(Lease + Skew)
              /\ cache[i].version \in Versions /\ cache[i].key \in KeyIds /\ cache[i].allowed \in BOOLEAN
              /\ op[i].at \in {"idle", "mint", "admitted"} /\ op[i].version \in Versions
              /\ op[i].key \in KeyIds
<1> USE ResetAssumption
<1>1. /\ rec.version \in Nat /\ rec.version <= MaxVersion /\ rec.key \in KeyIds
      /\ rec.reset \in ResetIds \cup {None} /\ rec.proved \in 0..7 /\ rec.released \in 0..2
  <2>1. rec \in [version : Versions, key : KeyIds, reset : ResetIds \cup {None},
                 state : {"none", "active", "blocked", "purging", "activation_pending"},
                 proved : 0..7, released : 0..2]
    BY ResetOrder DEF TypeOK
  <2> QED BY <2>1 DEF Versions
<1>2. call.at \in {"idle", "wait", "run", "save"} /\ call.reset \in ResetIds \cup {None}
  BY DEF TypeOK
<1>3. ASSUME NEW i \in Isolates
      PROVE  /\ cache[i].at \in {"none", "answer", "held"} /\ cache[i].left \in 0..(Lease + Skew)
             /\ cache[i].version \in Versions /\ cache[i].key \in KeyIds /\ cache[i].allowed \in BOOLEAN
             /\ op[i].at \in {"idle", "mint", "admitted"} /\ op[i].version \in Versions
             /\ op[i].key \in KeyIds
  BY DEF TypeOK
<1> QED BY <1>1, <1>2, <1>3

LEMMA ResetInit == ASSUME Init PROVE ResetInv
<1> USE ResetAssumption
<1>1. Len(Stores) = 7 /\ Len(Sinks) = 2
  BY DEF Stores, Sinks
<1>2. TypeOK
  BY <1>1 DEF Init, TypeOK, NoRecord, NoCall, NoLease, NoOp, Versions, KeyIds, SinkIds, Surfaces
<1>3. /\ rec = NoRecord /\ rec.state = "none" /\ rec.version = 0 /\ call = NoCall /\ call.at = "idle"
      /\ \A i \in Isolates : cache[i] = NoLease /\ op[i] = NoOp
  BY DEF Init, NoRecord, NoCall
<1>4. RecordInv /\ CallInv
  BY <1>3 DEF RecordInv, CallInv, InReset, Served
<1>5. LeaseInv /\ EpochInv
  BY <1>3 DEF LeaseInv, EpochInv, NoLease, NoOp, NoRecord
<1>6. SinkInv /\ RowInv /\ TombInv /\ PurgeInv /\ ReleaseInv
  BY DEF Init, SinkInv, RowInv, TombInv, PurgeInv, ReleaseInv, NoRecord, SinkIds, Surfaces, Pending
<1> QED BY <1>2, <1>4, <1>5, <1>6 DEF ResetInv

-----------------------------------------------------------------------------
(* TypeOK is preserved. *)
Records ==
  [version : Versions, key : KeyIds, reset : ResetIds \cup {None},
   state : {"none", "active", "blocked", "purging", "activation_pending"},
   proved : 0..7, released : 0..2]
Calls == [at : {"idle", "wait", "run", "save"}, reset : ResetIds \cup {None}]
Leases == [at : {"none", "answer", "held"}, left : 0..(Lease + Skew),
           version : Versions, key : KeyIds, allowed : BOOLEAN]
Ops == [at : {"idle", "mint", "admitted"}, version : Versions, key : KeyIds]

CoordType == rec \in Records /\ lease \in 0..Lease /\ call \in Calls /\ faults \in 0..MaxFaults
IsolateType == cache \in [Isolates -> Leases] /\ op \in [Isolates -> Ops]
StoreType ==
  /\ susp \in [SinkIds -> ResetIds \cup {None}] /\ active \in [SinkIds -> Versions]
  /\ data \in [Surfaces -> SUBSET Versions] /\ permits \subseteq Versions
  /\ adrift \subseteq Versions /\ tombs \subseteq Versions

LEMMA TypeParts == TypeOK <=> CoordType /\ IsolateType /\ StoreType
<1>1. Len(Stores) = 7 /\ Len(Sinks) = 2
  BY DEF Stores, Sinks
<1> QED BY <1>1 DEF TypeOK, CoordType, IsolateType, StoreType, Records, Calls, Leases, Ops

(* The values that the steps make. *)
LEMMA Shapes ==
  ASSUME ResetInv
  PROVE  /\ NoCall \in Calls /\ NoOp \in Ops /\ NoLease \in Leases
         /\ \A i \in Isolates : Initial(i) \in Records
         /\ \A n \in Versions, k \in KeyIds : Admitted(n, k) \in Ops
<1> USE ResetAssumption
<1>1. 0 \in Versions /\ 1 \in Versions /\ None \in KeyIds /\ Isolates \subseteq KeyIds
  BY DEF Versions, KeyIds
<1>2. NoCall \in Calls /\ NoOp \in Ops /\ NoLease \in Leases
  BY <1>1 DEF NoCall, NoOp, NoLease, Calls, Ops, Leases
<1>3. ASSUME NEW i \in Isolates PROVE Initial(i) \in Records
  <2>1. NoRecord \in Records
    BY <1>1 DEF NoRecord, Records
  <2> QED BY <1>1, <2>1 DEF Initial, Records
<1>4. \A n \in Versions, k \in KeyIds : Admitted(n, k) \in Ops
  BY DEF Admitted, Ops
<1> QED BY <1>2, <1>3, <1>4

LEMMA LessType == \A n \in Nat : Less(n) \in Nat /\ Less(n) <= n /\ (n > 0 => Less(n) = n - 1)
BY DEF Less

LEMMA CoordTypeStep == ASSUME ResetInv, Next PROVE CoordType'
<1> USE ResetAssumption, ResetOrder, FieldTypes, Shapes
<1>0. /\ TypeOK /\ RecordInv /\ CallInv /\ CoordType
  BY TypeParts DEF ResetInv
<1>1. ASSUME NEW i \in Isolates, Traffic(i) PROVE CoordType'
  <2>1. CASE LeaseAppIdentity(i)
    BY <1>0, <2>1 DEF LeaseAppIdentity, CoordType
  <2>2. CASE PutIfAbsent(i)
    BY <1>0, <2>2 DEF PutIfAbsent, CoordType
  <2>3. CASE LeaseArrives(i) \/ AdmitAppIdentity(i) \/ MintInitial(i)
    BY <1>0, <2>3 DEF LeaseArrives, AdmitAppIdentity, MintInitial, CoordType, coordVars
  <2>4. CASE PutAssignment(i) \/ AdmitRow(i) \/ EnsureHoldover(i)
    BY <1>0, <2>4 DEF PutAssignment, AdmitRow, Write, EnsureHoldover, CoordType, coordVars
  <2> QED BY <1>1, <2>1, <2>2, <2>3, <2>4 DEF Traffic
<1>2. ASSUME NEW r \in ResetIds, BeginReset(r) PROVE CoordType'
  BY <1>0, <1>2 DEF BeginReset, CoordType, Calls
<1>3. CASE BlockTraffic
  <2>1. call.at = "wait" /\ call \in Calls /\ call.reset \in ResetIds
    BY <1>0, <1>3 DEF BlockTraffic, CallInv, Served, NoCall, CoordType
  <2>2. Blocked(call.reset) \in Records
    <3>1. rec \in Records
      BY <1>0 DEF CoordType
    <3> DEFINE r1 == [rec EXCEPT !.state = "blocked", !.reset = call.reset]
               r2 == [r1 EXCEPT !.proved = 0]
               r3 == [r2 EXCEPT !.released = 0]
    <3>2. r1 \in Records
      BY <2>1, <3>1 DEF Records
    <3> HIDE DEF r1
    <3>3. r2 \in Records
      BY <3>2 DEF Records
    <3> HIDE DEF r2
    <3>4. r3 \in Records
      BY <3>3 DEF Records
    <3>5. Blocked(call.reset) = r3
      BY DEF Blocked, r1, r2
    <3> QED BY <3>4, <3>5
  <2>3. [call EXCEPT !.at = "run"] \in Calls
    BY <2>1 DEF Calls
  <2> QED BY <1>0, <1>3, <2>2, <2>3 DEF BlockTraffic, CoordType
<1>4. CASE PurgeDelivery \/ PurgeAssignments \/ PurgeAnalytics \/ PurgeLedger \/ PurgeRest
  <2>1. rec' = rec /\ lease' = lease /\ faults' = faults
    BY <1>4 DEF PurgeDelivery, PurgeAssignments, PurgeAnalytics, PurgeLedger, PurgeRest
  <2>2. call' = NoCall \/ call' = [call EXCEPT !.at = "save"]
    BY <1>4 DEF PurgeDelivery, PurgeAssignments, PurgeAnalytics, PurgeLedger, PurgeRest, ToSave
  <2> QED BY <1>0, <2>1, <2>2 DEF CoordType, Calls
<1>5. CASE SaveProof
  <2>1. call.at = "save" /\ IF Pending THEN rec.released < 2 ELSE rec.proved < 7
    BY <1>0, <1>5 DEF SaveProof, CallInv
  <2>2. rec' \in Records
    <3>1. rec \in Records /\ (Pending => rec.released + 1 \in 0..2) /\ (~Pending => rec.proved + 1 \in 0..7)
      BY <1>0, <2>1 DEF CoordType
    <3>2. CASE Pending
      BY <1>5, <3>1, <3>2 DEF SaveProof, Records
    <3>3. CASE ~Pending
      BY <1>5, <3>1, <3>3 DEF SaveProof, Records
    <3> QED BY <3>2, <3>3
  <2>3. call' \in Calls
    BY <1>0, <1>5 DEF SaveProof, CoordType, Calls
  <2> QED BY <1>0, <1>5, <2>2, <2>3 DEF SaveProof, CoordType
<1>6. CASE RotateKey
  <2>1. rec.state \in {"blocked", "purging"} /\ rec.version < MaxVersion /\ rec.reset \in ResetIds
    BY <1>0, <1>6 DEF RotateKey, Running, Pending, CallInv, RecordInv, InReset
  <2>2. rec.version + 1 \in Versions /\ rec.reset \in KeyIds
    BY <1>0, <2>1 DEF Versions, KeyIds
  <2>3. rec' \in Records
    BY <1>0, <1>6, <2>2 DEF RotateKey, CoordType, Records
  <2> QED BY <1>0, <1>6, <2>3 DEF RotateKey, CoordType
<1>7. CASE Activate
  BY <1>0, <1>7 DEF Activate, CoordType, Records
<1>8. CASE Release("evaluation") \/ Release("event_ingest")
  BY <1>0, <1>8 DEF Release, ToSave, CoordType, Calls
<1>9. CASE Interrupted
  BY <1>0, <1>9 DEF Interrupted, Fault, CoordType
<1>10. CASE Tick
  BY <1>0, <1>10, LessType DEF Tick, CoordType
<1>11. CASE RecordEntityPrivacy \/ \E v \in 1..MaxVersion : DeliveryStep(v)
  BY <1>0, <1>11 DEF RecordEntityPrivacy, DeliveryStep, AppendRow, CompleteRow, LandLate, CoordType, coordVars
<1> QED BY <1>1, <1>2, <1>3, <1>4, <1>5, <1>6, <1>7, <1>8, <1>9, <1>10, <1>11 DEF Next, ResetStep

LEMMA IsolateTypeStep == ASSUME ResetInv, Next PROVE IsolateType'
<1> USE ResetAssumption, FieldTypes, Shapes
<1>0. TypeOK /\ CoordType /\ IsolateType /\ CoordType'
  BY TypeParts, CoordTypeStep DEF ResetInv
<1>1. ASSUME NEW i \in Isolates, Traffic(i) PROVE IsolateType'
  <2>1. CASE LeaseAppIdentity(i)
    <3>1. PICK late \in 0..Skew :
            cache' = [cache EXCEPT ![i] = [at |-> "answer", left |-> Lease + late,
                        version |-> rec.version, key |-> rec.key, allowed |-> rec.state = "active"]]
      BY <2>1 DEF LeaseAppIdentity
    <3>2. rec.version \in Versions /\ rec.key \in KeyIds /\ Lease + late \in 0..(Lease + Skew)
      BY <1>0 DEF CoordType, Records
    <3>3. [at |-> "answer", left |-> Lease + late, version |-> rec.version, key |-> rec.key,
           allowed |-> rec.state = "active"] \in Leases
      BY <3>2 DEF Leases
    <3> QED BY <1>0, <2>1, <3>1, <3>3 DEF LeaseAppIdentity, IsolateType
  <2>2. CASE PutIfAbsent(i)
    <3>1. rec'.version \in Versions /\ rec'.key \in KeyIds
      BY <1>0 DEF CoordType, Records
    <3> QED BY <1>0, <2>2, <3>1 DEF PutIfAbsent, IsolateType
  <2>3. CASE LeaseArrives(i)
    <3>1. [cache[i] EXCEPT !.at = "held"] \in Leases
      BY <1>0 DEF IsolateType, Leases
    <3> QED BY <1>0, <2>3, <3>1 DEF LeaseArrives, IsolateType
  <2>4. CASE AdmitAppIdentity(i)
    BY <1>0, <2>4 DEF AdmitAppIdentity, IsolateType
  <2>5. CASE MintInitial(i)
    BY <1>0, <2>5 DEF MintInitial, IsolateType, Ops
  <2>6. CASE PutAssignment(i) \/ AdmitRow(i) \/ EnsureHoldover(i)
    BY <1>0, <2>6 DEF PutAssignment, AdmitRow, Write, EnsureHoldover, IsolateType
  <2> QED BY <1>1, <2>1, <2>2, <2>3, <2>4, <2>5, <2>6 DEF Traffic
<1>2. CASE Tick
  <2>1. ASSUME NEW i \in Isolates PROVE [cache[i] EXCEPT !.left = Less(@)] \in Leases
    BY <1>0, LessType DEF IsolateType, Leases
  <2> QED BY <1>0, <1>2, <2>1 DEF Tick, IsolateType
<1>3. CASE ResetStep
  BY <1>0, <1>3 DEF ResetStep, BlockTraffic, PurgeDelivery, PurgeAssignments, PurgeAnalytics,
     PurgeLedger, PurgeRest, SaveProof, RotateKey, Activate, Release, IsolateType, isolateVars
<1>4. CASE Interrupted \/ RecordEntityPrivacy \/ \E v \in 1..MaxVersion : DeliveryStep(v)
  BY <1>0, <1>4 DEF Interrupted, RecordEntityPrivacy, DeliveryStep, AppendRow, CompleteRow, LandLate,
     IsolateType, isolateVars
<1>5. CASE \E r \in ResetIds : BeginReset(r)
  BY <1>0, <1>5 DEF BeginReset, IsolateType, isolateVars
<1> QED BY <1>1, <1>2, <1>3, <1>4, <1>5 DEF Next

(* A row that is written is of the epoch of an admitted request, or of the record. *)
LEMMA StoreTypeStep == ASSUME ResetInv, Next PROVE StoreType'
<1> USE ResetAssumption, FieldTypes
<1>0. TypeOK /\ StoreType /\ CallInv
  BY TypeParts DEF ResetInv
<1>0a. rec.version \in Versions
  BY <1>0 DEF Versions
<1>1. ASSUME NEW i \in Isolates, Traffic(i) PROVE StoreType'
  <2>1. ASSUME NEW k \in SinkIds, NEW s \in Surfaces, Write(i, k, s) PROVE StoreType'
    BY <1>0, <2>1 DEF Write, StoreType
  <2>2. CASE PutAssignment(i)
    BY <2>1, <2>2 DEF PutAssignment, SinkIds, Surfaces
  <2>3. CASE AdmitRow(i)
    BY <2>1, <2>3 DEF AdmitRow, SinkIds, Surfaces
  <2>4. CASE EnsureHoldover(i)
    BY <1>0, <2>4 DEF EnsureHoldover, StoreType, sinkVars, rowVars
  <2>5. CASE LeaseAppIdentity(i) \/ LeaseArrives(i) \/ AdmitAppIdentity(i) \/ MintInitial(i) \/ PutIfAbsent(i)
    BY <1>0, <2>5 DEF LeaseAppIdentity, LeaseArrives, AdmitAppIdentity, MintInitial, PutIfAbsent,
       StoreType, sinkVars, storeVars
  <2> QED BY <1>1, <2>2, <2>3, <2>4, <2>5 DEF Traffic
<1>2. CASE PurgeDelivery
  <2>1. susp' \in [SinkIds -> ResetIds \cup {None}]
    BY <1>0, <1>2 DEF PurgeDelivery, StoreType
  <2>2. data' \in [Surfaces -> SUBSET Versions]
    BY <1>0, <1>2 DEF PurgeDelivery, StoreType
  <2> QED BY <1>0, <1>2, <2>1, <2>2 DEF PurgeDelivery, StoreType, rowVars
<1>3. CASE PurgeAssignments
  <2>1. susp' \in [SinkIds -> ResetIds \cup {None}]
    BY <1>0, <1>3 DEF PurgeAssignments, StoreType
  <2>2. [data EXCEPT !["assignments"] = {}] \in [Surfaces -> SUBSET Versions]
    BY <1>0 DEF StoreType
  <2>3. data' \in [Surfaces -> SUBSET Versions]
    BY <1>3, <2>2 DEF PurgeAssignments
  <2> QED BY <1>0, <1>3, <2>1, <2>3 DEF PurgeAssignments, StoreType, rowVars
<1>4. CASE PurgeAnalytics
  <2>1. 1..rec.version \subseteq Versions
    BY <1>0 DEF Versions
  <2> QED BY <1>0, <1>4, <2>1 DEF PurgeAnalytics, StoreType, sinkVars
<1>4a. CASE PurgeLedger
  BY <1>0, <1>4a DEF PurgeLedger, StoreType, sinkVars, rowVars
<1>5. CASE Release("evaluation") \/ Release("event_ingest")
  <2>1. ASSUME NEW k \in SinkIds, Release(k) PROVE StoreType'
    BY <1>0, <1>0a, <2>1 DEF Release, StoreType, storeVars, sinkVars
  <2> QED BY <1>5, <2>1 DEF SinkIds
<1>6. CASE RecordEntityPrivacy
  BY <1>0, <1>0a, <1>6 DEF RecordEntityPrivacy, StoreType, sinkVars, rowVars
<1>7. ASSUME NEW v \in 1..MaxVersion, DeliveryStep(v) PROVE StoreType'
  BY <1>0, <1>7 DEF DeliveryStep, AppendRow, CompleteRow, LandLate, StoreType, sinkVars, Versions, rowVars
<1>8. CASE \/ \E r \in ResetIds : BeginReset(r)
           \/ BlockTraffic \/ PurgeRest \/ SaveProof \/ RotateKey \/ Activate \/ Interrupted \/ Tick
  BY <1>0, <1>8 DEF BeginReset, BlockTraffic, PurgeRest, SaveProof, RotateKey, Activate, Interrupted,
     Tick, StoreType, sinkVars, storeVars
<1> QED BY <1>1, <1>2, <1>3, <1>4, <1>4a, <1>5, <1>6, <1>7, <1>8 DEF Next, ResetStep

-----------------------------------------------------------------------------
(* How the record and the running call move. *)
LEMMA BlockedFields ==
  ASSUME TypeOK, NEW r \in ResetIds
  PROVE  /\ Blocked(r).version = rec.version /\ Blocked(r).key = rec.key
         /\ Blocked(r).state = "blocked" /\ Blocked(r).reset = r
         /\ Blocked(r).proved = 0 /\ Blocked(r).released = 0
<1>1. rec \in Records
  BY TypeParts DEF CoordType
<1> QED BY <1>1 DEF Blocked, Records

LEMMA InitialFields ==
  ASSUME NEW i
  PROVE  /\ Initial(i).version = 1 /\ Initial(i).key = i /\ Initial(i).state = "active"
         /\ Initial(i).proved = 0 /\ Initial(i).released = 0
BY DEF Initial, NoRecord

LEMMA CoordStep == ASSUME ResetInv, Next PROVE RecordInv' /\ CallInv'
<1> USE ResetAssumption, ResetOrder, FieldTypes
<1>0. TypeOK /\ RecordInv /\ CallInv /\ CoordType /\ CoordType'
  BY TypeParts, CoordTypeStep DEF ResetInv
<1>0a. rec \in Records /\ call \in Calls /\ NoCall = [at |-> "idle", reset |-> None]
  BY <1>0 DEF CoordType, NoCall
<1>1. ASSUME NEW i \in Isolates, Traffic(i) PROVE RecordInv' /\ CallInv'
  <2>1. CASE PutIfAbsent(i)
    <3>1. CASE rec = NoRecord
      <4>1. rec' = Initial(i) /\ call' = call /\ call = NoCall
        BY <2>1, <3>1 DEF PutIfAbsent, Served
      <4>2. rec'.version = 1 /\ rec'.state = "active"
        BY <4>1, InitialFields
      <4>3. RecordInv'
        BY <4>2 DEF RecordInv, InReset
      <4>4. CallInv'
        BY <4>1, <1>0a DEF CallInv, Served
      <4> QED BY <4>3, <4>4
    <3>2. CASE rec # NoRecord
      BY <1>0, <2>1, <3>2 DEF PutIfAbsent, RecordInv, CallInv, InReset, Served, Pending
    <3> QED BY <3>1, <3>2
  <2>2. CASE UNCHANGED <<rec, call>>
    BY <1>0, <2>2 DEF RecordInv, CallInv, InReset, Served, Pending
  <2>3. PutIfAbsent(i) \/ UNCHANGED <<rec, call>>
    BY <1>1 DEF Traffic, LeaseAppIdentity, LeaseArrives, AdmitAppIdentity, MintInitial, PutAssignment,
       AdmitRow, Write, EnsureHoldover, coordVars
  <2> QED BY <2>1, <2>2, <2>3
<1>2. ASSUME NEW r \in ResetIds, BeginReset(r) PROVE RecordInv' /\ CallInv'
  BY <1>0, <1>0a, <1>2 DEF BeginReset, RecordInv, CallInv, InReset, Served, Pending
<1>3. CASE BlockTraffic
  <2>1. call.at = "wait" /\ call.reset \in ResetIds /\ (rec.version < MaxVersion \/ rec.reset = call.reset)
    BY <1>0, <1>0a, <1>3 DEF BlockTraffic, CallInv, Served
  <2>2. CASE rec' = rec /\ call' = NoCall
    BY <1>0, <1>0a, <2>2 DEF RecordInv, CallInv, InReset, Served, Pending
  <2>3. CASE rec' = rec /\ call' = [call EXCEPT !.at = "run"]
             /\ rec.state \notin {"none", "active"} /\ rec.reset = call.reset
    <3>1. call'.at = "run" /\ call'.reset = call.reset
      BY <1>0a, <2>3 DEF Calls
    <3>2. InReset
      BY <1>0a, <2>3 DEF InReset, Records
    <3> QED BY <1>0, <1>0a, <2>1, <2>3, <3>1, <3>2 DEF RecordInv, CallInv, InReset, Served, Pending
  <2>4. CASE /\ rec.state = "active" /\ rec.reset # call.reset
             /\ rec' = Blocked(call.reset) /\ call' = [call EXCEPT !.at = "run"]
    <3>1. call'.at = "run" /\ call'.reset = call.reset
      BY <1>0a, <2>4 DEF Calls
    <3>2. /\ rec'.version = rec.version /\ rec'.state = "blocked" /\ rec'.reset = call.reset
          /\ rec'.proved = 0 /\ rec'.released = 0
      BY <1>0, <2>1, <2>4, BlockedFields
    <3>3. rec.version < MaxVersion /\ rec.version # 0
      BY <1>0, <2>1, <2>4 DEF RecordInv
    <3> QED BY <1>0a, <2>1, <3>1, <3>2, <3>3 DEF RecordInv, CallInv, InReset, Served, Pending
  <2> QED BY <1>3, <2>2, <2>3, <2>4 DEF BlockTraffic
<1>4. CASE PurgeDelivery \/ PurgeAssignments \/ PurgeAnalytics \/ PurgeLedger \/ PurgeRest
           \/ Release("evaluation") \/ Release("event_ingest")
  <2>1. Running /\ rec' = rec /\ (IF Pending THEN rec.released < 2 ELSE rec.proved < 7)
    BY <1>0, <1>4 DEF PurgeDelivery, PurgeAssignments, PurgeAnalytics, PurgeLedger, PurgeRest, Release,
       ToPurge, ToRelease
  <2>2. call' = NoCall \/ call' = [call EXCEPT !.at = "save"]
    BY <1>4 DEF PurgeDelivery, PurgeAssignments, PurgeAnalytics, PurgeLedger, PurgeRest, Release, ToSave
  <2>3. CASE call' = NoCall
    BY <1>0, <1>0a, <2>1, <2>3 DEF RecordInv, CallInv, InReset, Served, Pending
  <2>4. CASE call' = [call EXCEPT !.at = "save"]
    <3>1. call'.at = "save" /\ call'.reset = call.reset
      BY <1>0a, <2>4 DEF Calls
    <3> QED BY <1>0, <1>0a, <2>1, <3>1 DEF RecordInv, CallInv, InReset, Served, Pending, Running
  <2> QED BY <2>2, <2>3, <2>4
<1>5. CASE SaveProof
  <2>1. call'.at = "run" /\ call'.reset = call.reset /\ call.at = "save"
    BY <1>0a, <1>5 DEF SaveProof, Calls
  <2>2. /\ rec'.version = rec.version /\ rec'.reset = rec.reset
        /\ Pending => rec'.state = rec.state
        /\ ~Pending => rec'.state = "purging" /\ rec'.released = rec.released
    BY <1>0a, <1>5 DEF SaveProof, Records
  <2> QED BY <1>0, <1>0a, <2>1, <2>2 DEF RecordInv, CallInv, InReset, Served, Pending
<1>6. CASE RotateKey
  <2>1. /\ rec'.version = rec.version + 1 /\ rec'.state = "activation_pending" /\ rec'.reset = rec.reset
        /\ call' = call /\ call.at = "run"
    BY <1>0a, <1>6 DEF RotateKey, Records, Running
  <2>2. rec.version # 0
    BY <1>0, <2>1 DEF RecordInv, CallInv, InReset
  <2> QED BY <1>0, <1>0a, <2>1, <2>2 DEF RecordInv, CallInv, InReset, Served, Pending
<1>7. CASE Activate
  <2>1. rec'.version = rec.version /\ rec'.state = "active" /\ call' = NoCall
    BY <1>0a, <1>7 DEF Activate, Records
  <2>2. rec.version # 0
    BY <1>0, <1>7 DEF RecordInv, Activate, Pending
  <2> QED BY <1>0, <1>0a, <2>1, <2>2 DEF RecordInv, CallInv, InReset, Served, Pending
<1>8. CASE Interrupted
  BY <1>0, <1>0a, <1>8 DEF Interrupted, RecordInv, CallInv, InReset, Served, Pending
<1>9. CASE Tick \/ RecordEntityPrivacy \/ \E v \in 1..MaxVersion : DeliveryStep(v)
  <2>1. UNCHANGED <<rec, call>>
    BY <1>9 DEF Tick, RecordEntityPrivacy, DeliveryStep, AppendRow, CompleteRow, LandLate, coordVars
  <2> QED BY <1>0, <2>1 DEF RecordInv, CallInv, InReset, Served, Pending
<1> QED BY <1>1, <1>2, <1>3, <1>4, <1>5, <1>6, <1>7, <1>8, <1>9 DEF Next, ResetStep

(* The epoch and its key are the record's until RotateKey. *)
LEMMA EpochOfRecord ==
  ASSUME ResetInv, BlockTraffic \/ SaveProof \/ Activate
  PROVE  rec'.version = rec.version /\ rec'.key = rec.key
<1>0. TypeOK /\ CallInv /\ CoordType
  BY TypeParts DEF ResetInv
<1>1. CASE BlockTraffic
  <2>1. rec' = rec \/ (rec' = Blocked(call.reset) /\ call.at = "wait")
    BY <1>1 DEF BlockTraffic
  <2>2. call.at = "wait" => call.reset \in ResetIds
    BY <1>0 DEF CallInv, Served, NoCall
  <2> QED BY <1>0, <2>1, <2>2, BlockedFields
<1>2. CASE SaveProof \/ Activate
  BY <1>0, <1>2 DEF SaveProof, Activate, CoordType, Records
<1> QED BY <1>1, <1>2

-----------------------------------------------------------------------------
(* The leases and the epochs that the isolates hold. *)

\* An isolate keeps what it has, or loses its lease.
LEMMA EpochKept ==
  ASSUME ResetInv, rec' = rec, op' = op,
         \A j \in Isolates :
           \/ cache'[j] = NoLease
           \/ /\ cache'[j].version = cache[j].version /\ cache'[j].key = cache[j].key
              /\ cache'[j].allowed = cache[j].allowed
  PROVE  EpochInv'
<1>0. TypeOK /\ RecordInv /\ EpochInv
  BY DEF ResetInv
<1>1. rec.version \in Nat /\ (rec.version = 0 => rec.key = None)
  BY <1>0, FieldTypes DEF RecordInv, NoRecord
<1>2. NoLease.version = 0 /\ NoLease.key = None /\ NoLease.allowed = FALSE
  BY DEF NoLease
<1> SUFFICES ASSUME NEW j \in Isolates
             PROVE  /\ cache'[j].version <= rec.version
                    /\ cache'[j].version = rec.version => cache'[j].key = rec.key
                    /\ cache'[j].allowed => cache'[j].version > 0
  BY <1>0 DEF EpochInv
<1>3. CASE cache'[j] = NoLease
  BY <1>1, <1>2, <1>3
<1>4. CASE cache'[j] # NoLease
  BY <1>0, <1>4 DEF EpochInv
<1> QED BY <1>3, <1>4

LEMMA EpochStep == ASSUME ResetInv, Next, TypeOK' PROVE EpochInv'
<1> USE ResetAssumption, FieldTypes
<1>0. TypeOK /\ RecordInv /\ CallInv /\ EpochInv /\ CoordType /\ IsolateType
  BY TypeParts DEF ResetInv
<1>1. ASSUME NEW i \in Isolates, Traffic(i) PROVE EpochInv'
  <2>1. CASE LeaseAppIdentity(i)
    <3>1. PICK late \in 0..Skew :
            cache' = [cache EXCEPT ![i] = [at |-> "answer", left |-> Lease + late,
                        version |-> rec.version, key |-> rec.key, allowed |-> rec.state = "active"]]
      BY <2>1 DEF LeaseAppIdentity
    <3>2. rec' = rec /\ op' = op
      BY <2>1 DEF LeaseAppIdentity
    <3>3. rec.state = "active" => rec.version > 0
      BY <1>0 DEF RecordInv
    <3>4. /\ cache'[i].version = rec.version /\ cache'[i].key = rec.key
          /\ cache'[i].allowed => rec.state = "active"
      BY <1>0, <3>1 DEF IsolateType
    <3>5. \A j \in Isolates \ {i} : cache'[j] = cache[j]
      BY <1>0, <3>1 DEF IsolateType
    <3> QED BY <1>0, <3>2, <3>3, <3>4, <3>5 DEF EpochInv
  <2>2. CASE PutIfAbsent(i)
    <3>1. /\ cache' = [cache EXCEPT ![i] = NoLease]
          /\ op' = [op EXCEPT ![i] = IF rec'.state = "active" THEN Admitted(rec'.version, rec'.key) ELSE NoOp]
      BY <2>2 DEF PutIfAbsent
    <3>2. (rec' = Initial(i) /\ rec.version = 0) \/ rec' = rec
      BY <2>2 DEF PutIfAbsent, NoRecord
    <3>3. rec'.version > 0
      BY <1>0, <2>2, InitialFields DEF PutIfAbsent, RecordInv
    <3>4. op'[i].at = "admitted" => op'[i].version = rec'.version /\ op'[i].key = rec'.key
      BY <1>0, <3>1 DEF IsolateType, Admitted, NoOp
    <3>5. cache'[i] = NoLease
      BY <1>0, <3>1 DEF IsolateType
    <3>6. ASSUME NEW j \in Isolates, j # i
          PROVE  /\ cache'[j] = cache[j] /\ op'[j] = op[j]
      BY <1>0, <3>1, <3>6 DEF IsolateType
    <3>7. rec.version \in Nat /\ rec'.version \in Nat
      BY <1>0, <3>2, InitialFields
    <3>8. rec.version <= rec'.version /\ (rec'.version = rec.version => rec' = rec)
      BY <3>2, <3>7, InitialFields
    <3>9. ASSUME NEW j \in Isolates \ {i}
          PROVE  /\ cache[j].version \in Nat /\ cache[j].version <= rec'.version
                 /\ cache[j].version = rec'.version => cache[j].key = rec'.key
                 /\ cache[j].allowed => cache[j].version > 0
                 /\ op[j].at = "admitted" => op[j].version \in 1..rec'.version
                 /\ op[j].at = "admitted" /\ op[j].version = rec'.version => op[j].key = rec'.key
      <4>1. cache[j].version \in Nat /\ op[j].version \in Nat
        BY <1>0 DEF Versions
      <4> QED BY <1>0, <3>7, <3>8, <4>1 DEF EpochInv
    <3>10. /\ cache'[i].version = 0 /\ ~cache'[i].allowed
      BY <3>5 DEF NoLease
    <3>11. op'[i].at = "admitted" => op'[i].version \in 1..rec'.version
      BY <3>3, <3>4, <3>7
    <3> QED BY <3>3, <3>4, <3>6, <3>7, <3>9, <3>10, <3>11 DEF EpochInv
  <2>3. CASE LeaseArrives(i)
    <3>1. rec' = rec /\ op' = op
      BY <2>3 DEF LeaseArrives, coordVars
    <3>2. ASSUME NEW j \in Isolates
          PROVE  cache'[j] = cache[j] \/ cache'[j] = [cache[j] EXCEPT !.at = "held"] \/ cache'[j] = NoLease
      BY <1>0, <2>3 DEF LeaseArrives, IsolateType
    <3>3. ASSUME NEW j \in Isolates
          PROVE [cache[j] EXCEPT !.at = "held"].version = cache[j].version
                /\ [cache[j] EXCEPT !.at = "held"].key = cache[j].key
                /\ [cache[j] EXCEPT !.at = "held"].allowed = cache[j].allowed
      BY <1>0 DEF IsolateType, Leases
    <3> QED BY <3>1, <3>2, <3>3, EpochKept
  <2>4. CASE AdmitAppIdentity(i)
    <3>1. /\ rec' = rec /\ cache' = cache /\ cache[i].allowed
          /\ op' = [op EXCEPT ![i] = Admitted(cache[i].version, cache[i].key)]
      BY <2>4 DEF AdmitAppIdentity, coordVars
    <3>2. cache[i].version \in 1..rec.version
      BY <1>0, <3>1 DEF EpochInv, Versions
    <3> QED BY <1>0, <3>1, <3>2 DEF EpochInv, IsolateType, Admitted
  <2>5. CASE MintInitial(i)
    <3>1. rec' = rec /\ cache' = cache /\ op' = [op EXCEPT ![i].at = "mint"]
      BY <2>5 DEF MintInitial, coordVars
    <3>2. op'[i].at = "mint" /\ \A j \in Isolates \ {i} : op'[j] = op[j]
      BY <1>0, <3>1 DEF IsolateType, Ops
    <3> QED BY <1>0, <3>1, <3>2 DEF EpochInv
  <2>6. CASE PutAssignment(i) \/ AdmitRow(i) \/ EnsureHoldover(i)
    <3>1. rec' = rec /\ cache' = cache /\ op' = [op EXCEPT ![i] = NoOp]
      BY <2>6 DEF PutAssignment, AdmitRow, Write, EnsureHoldover, coordVars
    <3> QED BY <1>0, <3>1 DEF EpochInv, IsolateType, NoOp
  <2> QED BY <1>1, <2>1, <2>2, <2>3, <2>4, <2>5, <2>6 DEF Traffic
<1>2. CASE Tick
  <2>1. rec' = rec /\ op' = op
    BY <1>2 DEF Tick
  <2>2. ASSUME NEW j \in Isolates
        PROVE  \/ cache'[j] = NoLease
               \/ /\ cache'[j].version = cache[j].version /\ cache'[j].key = cache[j].key
                  /\ cache'[j].allowed = cache[j].allowed
    BY <1>0, <1>2 DEF Tick, IsolateType, Leases
  <2> QED BY <2>1, <2>2, EpochKept
<1>3. CASE RotateKey
  <2>1. rec'.version = rec.version + 1 /\ cache' = cache /\ op' = op
    BY <1>0, <1>3 DEF RotateKey, isolateVars, CoordType, Records
  <2> QED BY <1>0, <2>1 DEF EpochInv, Versions
<1>4. CASE BlockTraffic \/ SaveProof \/ Activate
  <2>1. cache' = cache /\ op' = op
    BY <1>4 DEF BlockTraffic, SaveProof, Activate, isolateVars
  <2>2. rec'.version = rec.version /\ rec'.key = rec.key
    BY <1>4, EpochOfRecord
  <2> QED BY <1>0, <2>1, <2>2 DEF EpochInv
<1>5. CASE \/ \E r \in ResetIds : BeginReset(r)
           \/ PurgeDelivery \/ PurgeAssignments \/ PurgeAnalytics \/ PurgeLedger \/ PurgeRest
           \/ Release("evaluation") \/ Release("event_ingest") \/ Interrupted \/ RecordEntityPrivacy
           \/ \E v \in 1..MaxVersion : DeliveryStep(v)
  <2>1. UNCHANGED <<rec, cache, op>>
    BY <1>5 DEF BeginReset, PurgeDelivery, PurgeAssignments, PurgeAnalytics, PurgeLedger, PurgeRest,
       Release, Interrupted, RecordEntityPrivacy, DeliveryStep, AppendRow, CompleteRow, LandLate, isolateVars, coordVars
  <2> QED BY <1>0, <2>1 DEF EpochInv
<1> QED BY <1>1, <1>2, <1>3, <1>4, <1>5 DEF Next, ResetStep

LEMMA LeaseStep == ASSUME ResetInv, Next, TypeOK' PROVE LeaseInv'
<1> USE ResetAssumption, FieldTypes
<1>0. TypeOK /\ RecordInv /\ CallInv /\ LeaseInv /\ CoordType /\ IsolateType
  BY TypeParts DEF ResetInv
<1>0a. lease \in Nat /\ lease <= Lease /\ \A j \in Isolates : cache[j].left \in Nat
  BY <1>0 DEF CoordType
<1>1. ASSUME NEW i \in Isolates, LeaseAppIdentity(i) PROVE LeaseInv'
  <2>1. PICK late \in 0..Skew :
          cache' = [cache EXCEPT ![i] = [at |-> "answer", left |-> Lease + late,
                      version |-> rec.version, key |-> rec.key, allowed |-> rec.state = "active"]]
    BY <1>1 DEF LeaseAppIdentity
  <2>2. rec' = rec /\ lease' = Lease
    BY <1>1 DEF LeaseAppIdentity
  <2>3. rec.state = "active" => ~InReset
    BY DEF InReset
  <2>4. /\ cache'[i].left = Lease + late /\ (cache'[i].allowed => rec.state = "active")
        /\ \A j \in Isolates \ {i} : cache'[j] = cache[j]
    BY <1>0, <2>1 DEF IsolateType
  <2>5. Lease + late <= Lease + Skew /\ lease + Skew <= Lease + Skew
    BY <1>0a
  <2>6. \A j \in Isolates \ {i} : cache[j].allowed => cache[j].left <= Lease + Skew
    BY <1>0, <1>0a, <2>5 DEF LeaseInv
  <2> QED BY <1>0, <2>2, <2>3, <2>4, <2>5, <2>6 DEF LeaseInv, InReset
<1>2. CASE Tick
  <2>1. rec' = rec /\ lease' = Less(lease)
    BY <1>2 DEF Tick
  <2>2. ASSUME NEW j \in Isolates
        PROVE  \/ cache'[j] = NoLease
               \/ cache'[j].left = Less(cache[j].left) /\ cache'[j].allowed = cache[j].allowed
    BY <1>0, <1>2 DEF Tick, IsolateType, Leases
  <2>3. ASSUME NEW j \in Isolates, cache'[j].allowed
        PROVE  cache[j].allowed /\ cache'[j].left = Less(cache[j].left)
    BY <2>2, <2>3 DEF NoLease
  <2> QED BY <1>0, <1>0a, <2>1, <2>3, LessType DEF LeaseInv, InReset, Less
<1>3. CASE BlockTraffic
  <2>1. lease = 0 /\ lease' = lease /\ cache' = cache
    BY <1>3 DEF BlockTraffic, isolateVars
  <2> QED BY <1>0, <1>0a, <2>1 DEF LeaseInv
<1>4. ASSUME NEW i \in Isolates, LeaseArrives(i) \/ PutIfAbsent(i) PROVE LeaseInv'
  <2>1. lease' = lease /\ (rec' = rec \/ rec'.state = "active")
    BY <1>4, InitialFields DEF LeaseArrives, PutIfAbsent, coordVars
  <2>2. ASSUME NEW j \in Isolates, cache'[j].allowed
        PROVE  cache[j].allowed /\ cache'[j].left = cache[j].left
    BY <1>0, <1>4, <2>2 DEF LeaseArrives, PutIfAbsent, IsolateType, Leases, NoLease
  <2> QED BY <1>0, <2>1, <2>2 DEF LeaseInv, InReset
<1>5. CASE SaveProof \/ RotateKey \/ Activate
  <2>1. lease' = lease /\ cache' = cache
    BY <1>5 DEF SaveProof, RotateKey, Activate, isolateVars
  <2>2. InReset' => InReset
    <3>1. SaveProof => InReset
      BY <1>0 DEF SaveProof, CallInv
    <3>2. RotateKey => InReset
      BY <1>0 DEF RotateKey, Running, CallInv
    <3>3. Activate => rec'.state = "active"
      BY <1>0 DEF Activate, CoordType, Records
    <3> QED BY <1>5, <3>1, <3>2, <3>3 DEF InReset
  <2> QED BY <1>0, <2>1, <2>2 DEF LeaseInv
<1>6. CASE \/ \E i \in Isolates : \/ AdmitAppIdentity(i) \/ MintInitial(i) \/ PutAssignment(i)
                                  \/ AdmitRow(i) \/ EnsureHoldover(i)
           \/ \E r \in ResetIds : BeginReset(r)
           \/ PurgeDelivery \/ PurgeAssignments \/ PurgeAnalytics \/ PurgeLedger \/ PurgeRest
           \/ Release("evaluation") \/ Release("event_ingest") \/ Interrupted \/ RecordEntityPrivacy
           \/ \E v \in 1..MaxVersion : DeliveryStep(v)
  <2>1. UNCHANGED <<rec, lease, cache>>
    BY <1>6 DEF AdmitAppIdentity, MintInitial, PutAssignment, AdmitRow, Write, EnsureHoldover, BeginReset,
       PurgeDelivery, PurgeAssignments, PurgeAnalytics, PurgeLedger, PurgeRest,
       Release, Interrupted, RecordEntityPrivacy, DeliveryStep, AppendRow,
       CompleteRow, LandLate, isolateVars, coordVars
  <2> QED BY <1>0, <2>1 DEF LeaseInv, InReset
<1> QED BY <1>1, <1>2, <1>3, <1>4, <1>5, <1>6 DEF Next, ResetStep, Traffic

-----------------------------------------------------------------------------
(* The sinks and the rows. *)

\* A sink that admits an epoch is open, and the epoch is the record's.
LEMMA AdmitsTheRecord ==
  ASSUME ResetInv, NEW k \in SinkIds, NEW i \in Isolates, op[i].at = "admitted", Admits(k, op[i].version)
  PROVE  susp[k] = None /\ op[i].version = rec.version /\ rec.version > 0
<1>1. TypeOK /\ SinkInv /\ EpochInv
  BY DEF ResetInv
<1>2. op[i].version \in Nat /\ rec.version \in Nat /\ op[i].version > 0 /\ op[i].version <= rec.version
  BY <1>1, FieldTypes DEF EpochInv, Versions
<1>3. susp[k] = None /\ (active[k] = rec.version \/ (active[k] = 0 /\ rec.version = 1))
  BY <1>1 DEF Admits, SinkInv
<1>4. active[k] = 0 \/ active[k] = op[i].version
  BY DEF Admits
<1> QED BY <1>2, <1>3, <1>4

LEMMA SinkStep == ASSUME ResetInv, Next, TypeOK' PROVE SinkInv'
<1> USE ResetAssumption, FieldTypes, ResetOrder
<1>0. TypeOK /\ RecordInv /\ CallInv /\ SinkInv /\ StoreType /\ CoordType
  BY TypeParts DEF ResetInv
<1>1. ASSUME NEW i \in Isolates, NEW k \in SinkIds, NEW s \in Surfaces, Write(i, k, s) PROVE SinkInv'
  <2>1. rec' = rec /\ susp' = susp
    BY <1>1 DEF Write, coordVars
  <2>2. active' = active \/ (active' = [active EXCEPT ![k] = rec.version])
    BY <1>1, AdmitsTheRecord DEF Write
  <2> QED BY <1>0, <2>1, <2>2 DEF SinkInv, StoreType
<1>2. ASSUME NEW i \in Isolates, PutIfAbsent(i) PROVE SinkInv'
  <2>1. UNCHANGED sinkVars /\ (rec' = rec \/ (rec.version = 0 /\ rec' = Initial(i)))
    BY <1>2 DEF PutIfAbsent, NoRecord
  <2> QED BY <1>0, <2>1, InitialFields DEF SinkInv, sinkVars
<1>3. CASE PurgeDelivery \/ PurgeAssignments
  <2>1. rec' = rec /\ active' = active /\ call.reset # None
    BY <1>0, <1>3 DEF PurgeDelivery, PurgeAssignments, ToPurge, Running, CallInv, Served, NoCall
  <2>2. \E k \in SinkIds : susp' = [susp EXCEPT ![k] = call.reset]
    BY <1>3 DEF PurgeDelivery, PurgeAssignments, SinkIds
  <2> QED BY <1>0, <2>1, <2>2 DEF SinkInv, StoreType
<1>4. ASSUME NEW k \in SinkIds, Release(k) PROVE SinkInv'
  BY <1>0, <1>4 DEF Release, SinkInv, StoreType, sinkVars
<1>5. CASE RotateKey
  <2>1. rec.state \in {"blocked", "purging"} /\ rec.proved = 7 /\ rec.reset # None
    BY <1>0, <1>5 DEF RotateKey, Running, Pending, CallInv, RecordInv, InReset
  <2>2. \A k \in SinkIds : susp[k] # None
    BY <1>0, <2>1 DEF ResetInv, PurgeInv, Purged, SinkIds
  <2> QED BY <1>5, <2>2 DEF RotateKey, SinkInv, sinkVars
<1>6. CASE BlockTraffic \/ SaveProof \/ Activate
  <2>1. UNCHANGED sinkVars
    BY <1>6 DEF BlockTraffic, SaveProof, Activate
  <2>2. rec'.version = rec.version
    BY <1>6, EpochOfRecord
  <2> QED BY <1>0, <2>1, <2>2 DEF SinkInv, sinkVars
<1>7. ASSUME NEW i \in Isolates, Traffic(i) PROVE SinkInv'
  <2>1. CASE UNCHANGED <<rec, sinkVars>>
    BY <1>0, <2>1 DEF SinkInv, sinkVars
  <2> QED BY <1>1, <1>2, <1>7, <2>1
          DEF Traffic, LeaseAppIdentity, LeaseArrives, AdmitAppIdentity, MintInitial, EnsureHoldover,
              PutAssignment, AdmitRow, SinkIds, Surfaces, coordVars
<1>8. CASE \/ \E r \in ResetIds : BeginReset(r)
           \/ PurgeAnalytics \/ PurgeLedger \/ PurgeRest \/ Interrupted \/ Tick \/ RecordEntityPrivacy
           \/ \E v \in 1..MaxVersion : DeliveryStep(v)
  <2>1. UNCHANGED <<rec, sinkVars>>
    BY <1>8 DEF BeginReset, PurgeAnalytics, PurgeLedger, PurgeRest, Interrupted, Tick, RecordEntityPrivacy,
       DeliveryStep, AppendRow, CompleteRow, LandLate, coordVars
  <2> QED BY <1>0, <2>1 DEF SinkInv, sinkVars
<1> QED BY <1>3, <1>4, <1>5, <1>6, <1>7, <1>8 DEF Next, ResetStep, SinkIds

\* No row and no permit is left when every store is proved.
LEMMA ProvedIsEmpty ==
  ASSUME ResetInv, RotateKey
  PROVE  /\ permits = {} /\ \A s \in Surfaces \ {"outbox", "analytics"} : data[s] = {}
         /\ rec.version \in tombs
<1>1. TypeOK /\ RecordInv /\ CallInv /\ PurgeInv /\ TombInv
  BY DEF ResetInv
<1>2. rec.state \in {"blocked", "purging"} /\ rec.proved = 7
  BY <1>1, ResetOrder DEF RotateKey, Running, Pending, CallInv, RecordInv, InReset
<1> QED BY <1>1, <1>2 DEF PurgeInv, TombInv, Purged, Surfaces

LEMMA RowStep == ASSUME ResetInv, Next, TypeOK' PROVE RowInv'
<1> USE ResetAssumption, FieldTypes
<1>0. TypeOK /\ RecordInv /\ CallInv /\ EpochInv /\ RowInv /\ StoreType
  BY TypeParts DEF ResetInv
<1>1. ASSUME NEW i \in Isolates, NEW k \in SinkIds, NEW s \in Surfaces, Write(i, k, s) PROVE RowInv'
  <2>1. rec' = rec
    BY <1>1 DEF Write, coordVars
  <2>2. CASE Admits(k, op[i].version)
    <3>1. op[i].version = rec.version /\ rec.version > 0
      BY <1>1, <2>2, AdmitsTheRecord DEF Write
    <3>2. data' = [data EXCEPT ![s] = @ \cup {rec.version}] /\ permits' \subseteq permits \cup {rec.version}
      BY <1>1, <2>2, <3>1 DEF Write
    <3> QED BY <1>0, <2>1, <3>1, <3>2 DEF RowInv, StoreType
  <2>3. CASE ~Admits(k, op[i].version)
    BY <1>0, <1>1, <2>1, <2>3 DEF Write, RowInv
  <2> QED BY <2>2, <2>3
<1>2. ASSUME NEW i \in Isolates, EnsureHoldover(i) PROVE RowInv'
  <2>1. rec' = rec /\ permits' = permits /\ \A s \in Surfaces \ {"outbox"} : data'[s] = data[s]
    BY <1>0, <1>2 DEF EnsureHoldover, StoreType, coordVars, rowVars
  <2> QED BY <1>0, <2>1 DEF RowInv
<1>3. ASSUME NEW i \in Isolates, PutIfAbsent(i) PROVE RowInv'
  <2>1. UNCHANGED storeVars /\ (rec' = rec \/ rec.version = 0)
    BY <1>3 DEF PutIfAbsent, NoRecord
  <2> QED BY <1>0, <2>1 DEF RowInv, storeVars
<1>4. ASSUME NEW i \in Isolates, Traffic(i) PROVE RowInv'
  <2>1. CASE UNCHANGED <<rec, storeVars>>
    BY <1>0, <2>1 DEF RowInv, storeVars
  <2> QED BY <1>1, <1>2, <1>3, <1>4, <2>1
          DEF Traffic, LeaseAppIdentity, LeaseArrives, AdmitAppIdentity, MintInitial,
              PutAssignment, AdmitRow, SinkIds, Surfaces, coordVars
<1>5. ASSUME NEW v \in 1..MaxVersion, DeliveryStep(v) PROVE RowInv'
  <2>1. /\ rec' = rec /\ permits' \subseteq permits
        /\ \A s \in Surfaces \ {"analytics"} : data'[s] = data[s]
    BY <1>0, <1>5 DEF DeliveryStep, AppendRow, CompleteRow, LandLate, StoreType, coordVars, rowVars
  <2> QED BY <1>0, <2>1 DEF RowInv
<1>6. CASE RecordEntityPrivacy
  <2>1. /\ rec' = rec /\ permits' = permits /\ data' = [data EXCEPT !["ledger"] = @ \cup {rec.version}]
        /\ rec.version > 0
    BY <1>0, <1>6 DEF RecordEntityPrivacy, RecordInv, coordVars, rowVars
  <2> QED BY <1>0, <2>1 DEF RowInv, StoreType
<1>7. CASE PurgeDelivery \/ PurgeAssignments \/ PurgeAnalytics \/ PurgeLedger
  <2>1. rec' = rec /\ permits' = permits
    BY <1>7 DEF PurgeDelivery, PurgeAssignments, PurgeAnalytics, PurgeLedger, rowVars
  <2>2. ASSUME NEW s \in Surfaces PROVE data'[s] \subseteq data[s]
    BY <1>0, <1>7 DEF PurgeDelivery, PurgeAssignments, PurgeAnalytics, PurgeLedger, StoreType
  <2> QED BY <1>0, <2>1, <2>2 DEF RowInv
<1>8. CASE RotateKey
  <2>1. UNCHANGED storeVars
    BY <1>8 DEF RotateKey
  <2> QED BY <1>8, <2>1, ProvedIsEmpty DEF RowInv, storeVars
<1>9. CASE BlockTraffic \/ SaveProof \/ Activate
  <2>1. UNCHANGED storeVars
    BY <1>9 DEF BlockTraffic, SaveProof, Activate
  <2> QED BY <1>0, <1>9, <2>1, EpochOfRecord DEF RowInv, storeVars
<1>10. CASE \/ \E r \in ResetIds : BeginReset(r)
            \/ PurgeRest \/ Release("evaluation") \/ Release("event_ingest") \/ Interrupted \/ Tick
  <2>1. UNCHANGED <<rec, storeVars>>
    BY <1>10 DEF BeginReset, PurgeRest, Release, Interrupted, Tick
  <2> QED BY <1>0, <2>1 DEF RowInv, storeVars
<1> QED BY <1>4, <1>5, <1>6, <1>7, <1>8, <1>9, <1>10 DEF Next, ResetStep

-----------------------------------------------------------------------------
(* What the purges leave behind. *)
Purging == rec.state \in {"blocked", "purging"}

\* No step but those of the reset makes a purge done, or undoes one.
LEMMA PurgeKept ==
  ASSUME ResetInv, rec' = rec, call'.at # "save" \/ call'.at = call.at, susp' = susp,
         \A s \in {"delivery", "assignments", "ledger"} : data'[s] \subseteq data[s],
         permits' \subseteq permits
  PROVE  PurgeInv'
<1>1. \A n \in {2, 3, 7} : Purged(n)' => Purged(n)
  BY DEF Purged
<1> QED BY <1>1 DEF ResetInv, PurgeInv

LEMMA PurgeStep == ASSUME ResetInv, Next, TypeOK' PROVE PurgeInv'
<1> USE ResetAssumption, FieldTypes, ResetOrder
<1>0. TypeOK /\ RecordInv /\ CallInv /\ PurgeInv /\ StoreType /\ CoordType
  BY TypeParts DEF ResetInv
<1>0a. Purging => rec.reset # None
  BY <1>0 DEF RecordInv, InReset, Purging
<1>1. ASSUME NEW i \in Isolates, PutAssignment(i) \/ AdmitRow(i) PROVE PurgeInv'
  <2>1. rec' = rec /\ call' = call /\ susp' = susp
    BY <1>1 DEF PutAssignment, AdmitRow, Write, coordVars
  <2>2. CASE PutAssignment(i)
    <3>1. /\ permits' = permits /\ \A s \in Surfaces \ {"assignments"} : data'[s] = data[s]
          /\ susp["evaluation"] # None => data' = data
      BY <1>0, <2>2 DEF PutAssignment, Write, Admits, StoreType
    <3> QED BY <1>0, <1>0a, <2>1, <3>1 DEF PurgeInv, Purged, Purging, Surfaces
  <2>3. CASE AdmitRow(i)
    <3>1. /\ \A s \in Surfaces \ {"delivery"} : data'[s] = data[s]
          /\ susp["event_ingest"] # None => data' = data /\ permits' = permits
      BY <1>0, <2>3 DEF AdmitRow, Write, Admits, StoreType
    <3> QED BY <1>0, <1>0a, <2>1, <3>1 DEF PurgeInv, Purged, Purging, Surfaces
  <2> QED BY <1>1, <2>2, <2>3
<1>2. ASSUME NEW i \in Isolates, EnsureHoldover(i) PROVE PurgeInv'
  <2>1. /\ rec' = rec /\ call' = call /\ susp' = susp /\ permits' = permits
        /\ \A s \in Surfaces \ {"outbox"} : data'[s] = data[s]
    BY <1>0, <1>2 DEF EnsureHoldover, StoreType, coordVars, sinkVars, rowVars
  <2> QED BY <2>1, PurgeKept DEF Surfaces
<1>3. ASSUME NEW i \in Isolates, PutIfAbsent(i) PROVE PurgeInv'
  <2>1. CASE rec' = rec
    <3>1. call' = call /\ UNCHANGED <<sinkVars, storeVars>>
      BY <1>3 DEF PutIfAbsent
    <3> QED BY <2>1, <3>1, PurgeKept DEF sinkVars, storeVars
  <2>2. CASE rec' # rec
    BY <1>3, <2>2, InitialFields DEF PutIfAbsent, PurgeInv
  <2> QED BY <2>1, <2>2
<1>4. ASSUME NEW v \in 1..MaxVersion, DeliveryStep(v) PROVE PurgeInv'
  <2>1. /\ rec' = rec /\ call' = call /\ susp' = susp /\ permits' \subseteq permits
        /\ \A s \in Surfaces \ {"analytics"} : data'[s] = data[s]
    BY <1>0, <1>4 DEF DeliveryStep, AppendRow, CompleteRow, LandLate, StoreType, coordVars,
       sinkVars, rowVars
  <2> QED BY <2>1, PurgeKept DEF Surfaces
<1>5. CASE RecordEntityPrivacy
  BY <1>0, <1>5 DEF RecordEntityPrivacy, PurgeInv, coordVars
<1>6. CASE BlockTraffic
  <2>1. CASE rec' = rec
    <3>1. call'.at \in {"idle", "run"} /\ UNCHANGED <<sinkVars, storeVars>>
      BY <1>0, <1>6 DEF BlockTraffic, CoordType, Calls, NoCall
    <3> QED BY <2>1, <3>1, PurgeKept DEF sinkVars, storeVars
  <2>2. CASE rec' # rec
    <3>1. rec' = Blocked(call.reset) /\ call' = [call EXCEPT !.at = "run"] /\ call.at = "wait"
      BY <1>6, <2>2 DEF BlockTraffic
    <3>2. rec'.proved = 0 /\ call'.at = "run"
      BY <1>0, <3>1, BlockedFields DEF CallInv, Served, NoCall, CoordType, Calls
    <3> QED BY <3>2 DEF PurgeInv, Purged
  <2> QED BY <2>1, <2>2
<1>7. CASE PurgeDelivery
  <2>1. /\ rec' = rec /\ rec.proved = 1 /\ susp'["event_ingest"] = rec.reset /\ permits' = permits
        /\ call'.at = "save" => permits = {} /\ data'["delivery"] = {}
    BY <1>0, <1>7 DEF PurgeDelivery, ToPurge, Running, CallInv, StoreType, SinkIds, Surfaces, NoCall, rowVars
  <2> QED BY <1>0, <2>1 DEF PurgeInv, Purged
<1>8. CASE PurgeAssignments
  <2>1. /\ rec' = rec /\ rec.proved = 2 /\ permits' = permits
        /\ susp'["evaluation"] = rec.reset /\ susp'["event_ingest"] = susp["event_ingest"]
        /\ data'["assignments"] = {} /\ data'["delivery"] = data["delivery"]
    BY <1>0, <1>8 DEF PurgeAssignments, ToPurge, Running, CallInv, StoreType, SinkIds, Surfaces, rowVars
  <2> QED BY <1>0, <2>1 DEF PurgeInv, Purged
<1>9. CASE PurgeAnalytics
  <2>1. /\ rec' = rec /\ rec.proved = 3 /\ permits' = permits /\ susp' = susp
        /\ data'["assignments"] = data["assignments"] /\ data'["delivery"] = data["delivery"]
    BY <1>0, <1>9 DEF PurgeAnalytics, ToPurge, StoreType, Surfaces, sinkVars
  <2> QED BY <1>0, <2>1 DEF PurgeInv, Purged
<1>10. CASE PurgeLedger
  <2>1. /\ rec' = rec /\ rec.proved = 6 /\ permits' = permits /\ susp' = susp
        /\ data'["ledger"] = {}
        /\ data'["assignments"] = data["assignments"] /\ data'["delivery"] = data["delivery"]
    BY <1>0, <1>10 DEF PurgeLedger, ToPurge, StoreType, Surfaces, sinkVars, rowVars
  <2> QED BY <1>0, <2>1 DEF PurgeInv, Purged
<1>11. CASE PurgeRest
  <2>1. UNCHANGED <<rec, sinkVars, storeVars>> /\ rec.proved \in {0, 4, 5}
    BY <1>0, <1>11 DEF PurgeRest
  <2> QED BY <1>0, <2>1 DEF PurgeInv, Purged, sinkVars, storeVars
<1>12. CASE SaveProof
  <2>1. UNCHANGED <<sinkVars, storeVars>> /\ call.at = "save" /\ call'.at = "run"
    BY <1>0, <1>12 DEF SaveProof, CoordType, Calls
  <2>2. CASE Pending
    <3>1. rec'.state = rec.state
      BY <1>0, <1>12, <2>2 DEF SaveProof, CoordType, Records
    <3> QED BY <2>2, <3>1 DEF PurgeInv, Pending
  <2>3. CASE ~Pending
    <3>1. rec'.proved = rec.proved + 1 /\ rec'.reset = rec.reset
      BY <1>0, <1>12, <2>3 DEF SaveProof, CoordType, Records
    <3>2. Purging
      BY <1>0, <2>1, <2>3 DEF CallInv, InReset, Pending, Purging
    <3>3. \A n \in {2, 3, 7} : Purged(n)' => Purged(n)
      BY <1>0, <2>1, <3>1 DEF Purged
    <3> QED BY <1>0, <2>1, <3>1, <3>2, <3>3 DEF PurgeInv, Purging, sinkVars, storeVars
  <2> QED BY <2>2, <2>3
<1>13. CASE RotateKey \/ Activate
  <2>1. rec'.state \in {"activation_pending", "active"}
    BY <1>0, <1>13 DEF RotateKey, Activate, CoordType, Records
  <2> QED BY <2>1 DEF PurgeInv
<1>14. CASE Release("evaluation") \/ Release("event_ingest")
  <2>1. Pending /\ rec' = rec
    BY <1>14 DEF Release, ToRelease
  <2> QED BY <2>1 DEF PurgeInv, Pending
<1>15. CASE \/ \E i \in Isolates : \/ LeaseAppIdentity(i) \/ LeaseArrives(i) \/ AdmitAppIdentity(i)
                                   \/ MintInitial(i)
            \/ \E r \in ResetIds : BeginReset(r)
            \/ Interrupted \/ Tick
  <2>1. UNCHANGED <<rec, sinkVars, storeVars>> /\ (call' = call \/ call'.at \in {"idle", "wait"})
    BY <1>15 DEF LeaseAppIdentity, LeaseArrives, AdmitAppIdentity, MintInitial, BeginReset, Interrupted,
       Tick, NoCall, coordVars
  <2> QED BY <2>1, PurgeKept DEF sinkVars, storeVars
<1> QED BY <1>1, <1>2, <1>3, <1>4, <1>5, <1>6, <1>7, <1>8, <1>9, <1>10, <1>11, <1>12, <1>13, <1>14, <1>15
        DEF Next, ResetStep, Traffic

-----------------------------------------------------------------------------
(* The tombstones. *)

\* A step that only deletes rows and leaves the epoch and its purges alone.
LEMMA TombKept ==
  ASSUME ResetInv, rec' = rec, call'.at # "save" \/ call'.at = call.at, tombs' = tombs,
         data'["analytics"] \cup adrift' \subseteq data["analytics"] \cup adrift
  PROVE  TombInv'
<1>1. Purged(4)' => Purged(4)
  BY DEF Purged
<1> QED BY <1>1 DEF ResetInv, TombInv

LEMMA TombStep == ASSUME ResetInv, Next, TypeOK' PROVE TombInv'
<1> USE ResetAssumption, FieldTypes, ResetOrder
<1>0. TypeOK /\ RecordInv /\ CallInv /\ RowInv /\ TombInv /\ StoreType /\ CoordType
  BY TypeParts DEF ResetInv
<1>1. ASSUME NEW i \in Isolates, PutIfAbsent(i) PROVE TombInv'
  <2>1. UNCHANGED storeVars /\ call' = call
    BY <1>1 DEF PutIfAbsent
  <2>2. CASE rec' = rec
    BY <2>1, <2>2, TombKept DEF storeVars
  <2>3. CASE rec' = Initial(i) /\ rec.version = 0
    <3>1. data["analytics"] = {} /\ adrift = {} /\ tombs = {}
      BY <1>0, <2>3 DEF TombInv
    <3>2. rec'.version = 1 /\ rec'.state = "active"
      BY <2>3, InitialFields
    <3> QED BY <2>1, <3>1, <3>2 DEF TombInv, storeVars
  <2> QED BY <1>1, <2>2, <2>3 DEF PutIfAbsent, NoRecord
<1>2. ASSUME NEW i \in Isolates, Traffic(i) PROVE TombInv'
  <2>1. CASE UNCHANGED <<coordVars, data, adrift, tombs>>
    BY <2>1, TombKept DEF coordVars
  <2>2. CASE PutAssignment(i) \/ AdmitRow(i) \/ EnsureHoldover(i)
    <3>1. UNCHANGED <<coordVars, adrift, tombs>> /\ data'["analytics"] = data["analytics"]
      BY <1>0, <2>2 DEF PutAssignment, AdmitRow, Write, EnsureHoldover, StoreType, Surfaces, rowVars
    <3> QED BY <3>1, TombKept DEF coordVars
  <2>3. CASE LeaseAppIdentity(i)
    <3>1. UNCHANGED <<rec, call, data, adrift, tombs>>
      BY <2>3 DEF LeaseAppIdentity, storeVars
    <3> QED BY <3>1, TombKept
  <2> QED BY <1>1, <1>2, <2>1, <2>2, <2>3
          DEF Traffic, LeaseArrives, AdmitAppIdentity, MintInitial, storeVars
<1>3. ASSUME NEW v \in 1..MaxVersion, DeliveryStep(v) PROVE TombInv'
  <2>1. rec' = rec /\ call' = call /\ tombs' = tombs
    BY <1>3 DEF DeliveryStep, AppendRow, CompleteRow, LandLate, coordVars, rowVars
  <2>2. data'["analytics"] \cup adrift' \subseteq data["analytics"] \cup adrift \cup permits
    BY <1>0, <1>3 DEF DeliveryStep, AppendRow, CompleteRow, LandLate, StoreType, Surfaces, rowVars
  <2>3. permits \subseteq 1..rec.version
    BY <1>0 DEF RowInv
  <2> QED BY <1>0, <2>1, <2>2, <2>3 DEF TombInv, Purged
<1>4. CASE PurgeAnalytics
  <2>1. /\ rec' = rec /\ tombs' = tombs \cup 1..rec.version /\ adrift' = adrift
        /\ data'["analytics"] = {}
    BY <1>0, <1>4 DEF PurgeAnalytics, StoreType, Surfaces
  <2>2. rec.version > 0 /\ rec.state \in {"blocked", "purging"}
    BY <1>0, <1>4 DEF PurgeAnalytics, ToPurge, Running, Pending, CallInv, RecordInv, InReset
  <2>3. tombs' = 1..rec.version /\ adrift' \subseteq 1..rec.version
    BY <1>0, <2>1 DEF TombInv
  <2>4. data'["analytics"] \cup adrift' \subseteq 1..rec.version
    BY <2>1, <2>3
  <2>5. rec.version \in tombs'
    BY <1>0, <2>2, <2>3
  <2> QED BY <2>1, <2>2, <2>3, <2>4, <2>5 DEF TombInv
<1>5. CASE PurgeDelivery \/ PurgeAssignments \/ PurgeLedger \/ PurgeRest
  <2>1. /\ UNCHANGED <<rec, adrift, tombs>> /\ data'["analytics"] = data["analytics"]
        /\ rec.proved # 3
    BY <1>0, <1>5 DEF PurgeDelivery, PurgeAssignments, PurgeLedger, PurgeRest, StoreType, Surfaces,
       rowVars, storeVars
  <2>2. Purged(4)' => Purged(4)
    BY <2>1 DEF Purged
  <2> QED BY <1>0, <2>1, <2>2 DEF TombInv
<1>6. CASE BlockTraffic
  <2>1. UNCHANGED storeVars /\ call'.at \in {"idle", "run"}
    BY <1>0, <1>6 DEF BlockTraffic, CoordType, Calls, NoCall
  <2>2. CASE rec' = rec
    BY <2>1, <2>2, TombKept DEF storeVars
  <2>3. CASE rec' # rec
    <3>1. rec'.version = rec.version /\ rec'.state = "blocked" /\ rec'.proved = 0
      BY <1>0, <1>6, <2>3, BlockedFields DEF BlockTraffic, CallInv, Served, NoCall
    <3> QED BY <1>0, <2>1, <3>1 DEF TombInv, Purged, storeVars
  <2> QED BY <2>2, <2>3
<1>7. CASE SaveProof
  <2>1. UNCHANGED storeVars /\ call.at = "save" /\ call'.at = "run" /\ rec'.version = rec.version
    BY <1>0, <1>7 DEF SaveProof, CoordType, Calls, Records
  <2>2. CASE Pending
    <3>1. rec'.state = rec.state
      BY <1>0, <1>7, <2>2 DEF SaveProof, CoordType, Records
    <3> QED BY <1>0, <2>1, <2>2, <3>1 DEF TombInv, Pending, storeVars
  <2>3. CASE ~Pending
    <3>1. rec'.proved = rec.proved + 1 /\ rec'.state = "purging"
      BY <1>0, <1>7, <2>3 DEF SaveProof, CoordType, Records
    <3>2. rec.state \in {"blocked", "purging"}
      BY <1>0, <2>1, <2>3 DEF CallInv, InReset, Pending
    <3>3. Purged(4)' => Purged(4)
      BY <1>0, <2>1, <3>1 DEF Purged
    <3> QED BY <1>0, <2>1, <3>1, <3>2, <3>3 DEF TombInv, storeVars
  <2> QED BY <2>2, <2>3
<1>8. CASE RotateKey
  <2>1. UNCHANGED storeVars /\ rec'.version = rec.version + 1 /\ rec'.state = "activation_pending"
    BY <1>0, <1>8 DEF RotateKey, CoordType, Records
  <2>2. rec.version \in tombs
    BY <1>8, ProvedIsEmpty
  <2> QED BY <1>0, <2>1, <2>2 DEF TombInv, storeVars
<1>9. CASE Activate
  <2>1. UNCHANGED storeVars /\ rec'.version = rec.version /\ rec'.state = "active" /\ Pending
    BY <1>0, <1>9 DEF Activate, CoordType, Records
  <2> QED BY <1>0, <2>1 DEF TombInv, Pending, storeVars
<1>10. ASSUME NEW k \in SinkIds, Release(k) PROVE TombInv'
  <2>1. UNCHANGED <<rec, storeVars>> /\ Pending
    BY <1>10 DEF Release, ToRelease
  <2> QED BY <1>0, <2>1 DEF TombInv, Pending, storeVars
<1>11. CASE \/ \E r \in ResetIds : BeginReset(r)
            \/ Interrupted \/ Tick \/ RecordEntityPrivacy
  <2>1. /\ UNCHANGED <<rec, adrift, tombs>> /\ data'["analytics"] = data["analytics"]
        /\ call' = call \/ call'.at \in {"idle", "wait"}
    BY <1>0, <1>11 DEF BeginReset, Interrupted, Tick, RecordEntityPrivacy, NoCall, StoreType,
       Surfaces, coordVars, rowVars, storeVars
  <2> QED BY <2>1, TombKept
<1> QED BY <1>2, <1>3, <1>4, <1>5, <1>6, <1>7, <1>8, <1>9, <1>10, <1>11
        DEF Next, ResetStep, SinkIds

-----------------------------------------------------------------------------
(* What the releases leave behind. *)
LEMMA ReleaseStep == ASSUME ResetInv, Next, TypeOK' PROVE ReleaseInv'
<1> USE ResetAssumption, FieldTypes, ResetOrder
<1>0. TypeOK /\ RecordInv /\ CallInv /\ ReleaseInv /\ StoreType /\ CoordType
  BY TypeParts DEF ResetInv
<1>1. CASE UNCHANGED <<rec, susp>> /\ (call'.at # "save" \/ call'.at = call.at)
  <2>1. \A n \in {1, 2} : ReleaseDone(n)' => ReleaseDone(n)
    BY <1>1 DEF ReleaseDone
  <2> QED BY <1>0, <1>1, <2>1 DEF ReleaseInv, Pending
<1>2. ASSUME NEW i \in Isolates, Traffic(i) PROVE ReleaseInv'
  <2>1. CASE rec' = rec
    <3>1. call' = call /\ susp' = susp
      BY <1>2 DEF Traffic, LeaseAppIdentity, LeaseArrives, AdmitAppIdentity, MintInitial, PutIfAbsent,
         PutAssignment, AdmitRow, Write, EnsureHoldover, coordVars, sinkVars
    <3> QED BY <1>1, <2>1, <3>1
  <2>2. CASE rec' # rec
    <3>1. rec' = Initial(i) /\ rec.state = "none" /\ susp' = susp
      BY <1>2, <2>2 DEF Traffic, LeaseAppIdentity, LeaseArrives, AdmitAppIdentity, MintInitial, PutIfAbsent,
         PutAssignment, AdmitRow, Write, EnsureHoldover, NoRecord, coordVars, sinkVars
    <3> QED BY <1>0, <3>1, InitialFields DEF ReleaseInv, Pending
  <2> QED BY <2>1, <2>2
<1>3. CASE BlockTraffic
  <2>1. susp' = susp /\ call'.at \in {"run", "idle"}
    BY <1>0, <1>3 DEF BlockTraffic, sinkVars, CoordType, Calls, NoCall
  <2>2. CASE rec' = rec
    BY <1>1, <2>1, <2>2
  <2>3. CASE rec' # rec
    <3>1. rec'.state = "blocked"
      BY <1>0, <1>3, <2>3, BlockedFields DEF BlockTraffic, CallInv, Served, NoCall
    <3> QED BY <3>1 DEF ReleaseInv, Pending
  <2> QED BY <2>2, <2>3
<1>4. CASE PurgeDelivery \/ PurgeAssignments \/ PurgeAnalytics \/ PurgeLedger \/ PurgeRest
  <2>1. Running /\ ~Pending /\ rec' = rec
    BY <1>4 DEF PurgeDelivery, PurgeAssignments, PurgeAnalytics, PurgeLedger, PurgeRest, ToPurge
  <2> QED BY <1>0, <2>1 DEF ReleaseInv, CallInv, InReset, Running, Pending
<1>5. CASE SaveProof
  <2>1. susp' = susp /\ call.at = "save" /\ call'.at = "run"
    BY <1>0, <1>5 DEF SaveProof, CoordType, Calls, sinkVars
  <2>2. CASE Pending
    <3>1. rec'.state = rec.state /\ rec'.released = rec.released + 1
      BY <1>0, <1>5, <2>2 DEF SaveProof, CoordType, Records
    <3>2. \A n \in {1, 2} : ReleaseDone(n)' => ReleaseDone(n)
      BY <1>0, <2>1, <3>1 DEF ReleaseDone
    <3> QED BY <1>0, <2>1, <2>2, <3>1, <3>2 DEF ReleaseInv, Pending
  <2>3. CASE ~Pending
    <3>1. rec'.state = "purging"
      BY <1>0, <1>5, <2>3 DEF SaveProof, CoordType, Records
    <3> QED BY <3>1 DEF ReleaseInv, Pending
  <2> QED BY <2>2, <2>3
<1>6. CASE RotateKey
  <2>1. rec'.state = "activation_pending" /\ rec'.released = 0 /\ call'.at = "run"
    BY <1>0, <1>6 DEF RotateKey, Running, Pending, CallInv, RecordInv, InReset, CoordType, Records
  <2> QED BY <2>1 DEF ReleaseInv, ReleaseDone
<1>7. CASE Release("evaluation")
  <2>1. rec' = rec /\ Pending /\ rec.released = 0
    BY <1>0, <1>7 DEF Release, ToRelease
  <2>2. call'.at = "save" => susp'["evaluation"] = None
    BY <1>0, <1>7 DEF Release, StoreType, SinkIds, NoCall
  <2> QED BY <1>0, <2>1, <2>2 DEF ReleaseInv, ReleaseDone, Pending
<1>8. CASE Release("event_ingest")
  <2>1. rec' = rec /\ Pending /\ rec.released = 1
    BY <1>0, <1>8 DEF Release, ToRelease
  <2>2. call'.at = "save" => susp'["event_ingest"] = None
    BY <1>0, <1>8 DEF Release, StoreType, SinkIds, NoCall
  <2>3. susp["evaluation"] = None
    BY <1>0, <2>1 DEF ReleaseInv, ReleaseDone
  <2>4. susp'["evaluation"] = None
    BY <1>0, <1>8, <2>3 DEF Release, StoreType, SinkIds, sinkVars
  <2> QED BY <1>0, <2>1, <2>2, <2>4 DEF ReleaseInv, ReleaseDone, Pending
<1>9. CASE Activate
  <2>1. rec'.state = "active" /\ susp' = susp /\ Pending /\ rec.released = 2
    BY <1>0, <1>9 DEF Activate, CoordType, Records, sinkVars
  <2>2. \A k \in SinkIds : susp[k] = None
    BY <1>0, <2>1 DEF ReleaseInv, ReleaseDone, SinkIds
  <2> QED BY <2>1, <2>2 DEF ReleaseInv, Pending
<1>10. CASE \/ \E r \in ResetIds : BeginReset(r)
            \/ Interrupted \/ Tick \/ RecordEntityPrivacy \/ \E v \in 1..MaxVersion : DeliveryStep(v)
  <2>1. UNCHANGED <<rec, susp>> /\ (call' = call \/ call'.at \in {"idle", "wait"})
    BY <1>10 DEF BeginReset, Interrupted, Tick, RecordEntityPrivacy, DeliveryStep, AppendRow,
       CompleteRow, LandLate, NoCall, coordVars, sinkVars
  <2> QED BY <1>1, <2>1
<1> QED BY <1>2, <1>3, <1>4, <1>5, <1>6, <1>7, <1>8, <1>9, <1>10 DEF Next, ResetStep

-----------------------------------------------------------------------------
LEMMA ResetStutter == ASSUME ResetInv, UNCHANGED vars PROVE ResetInv'
<1> USE DEF vars, coordVars, isolateVars, sinkVars, storeVars
<1>1. TypeOK' /\ RecordInv' /\ CallInv'
  BY DEF ResetInv, TypeOK, RecordInv, CallInv, InReset, Served, Pending
<1>2. LeaseInv' /\ EpochInv' /\ SinkInv' /\ RowInv' /\ TombInv'
  BY DEF ResetInv, LeaseInv, EpochInv, SinkInv, RowInv, TombInv, InReset, Purged
<1>3. PurgeInv' /\ ReleaseInv'
  BY DEF ResetInv, PurgeInv, ReleaseInv, Purged, ReleaseDone, Pending
<1> QED BY <1>1, <1>2, <1>3 DEF ResetInv

(***************************************************************************)
(* The inductive invariant: every conjunct is kept by every step.          *)
(***************************************************************************)
THEOREM ResetInvariant == Spec => []ResetInv
<1>1. Init => ResetInv
  BY ResetInit
<1>2. ResetInv /\ [Next]_vars => ResetInv'
  <2>1. ASSUME ResetInv, Next PROVE ResetInv'
    <3>1. TypeOK'
      <4>1. CoordType' /\ IsolateType' /\ StoreType'
        BY <2>1, CoordTypeStep, IsolateTypeStep, StoreTypeStep
      <4>2. Len(Stores) = 7 /\ Len(Sinks) = 2
        BY DEF Stores, Sinks
      <4> QED BY <4>1, <4>2
              DEF TypeOK, CoordType, IsolateType, StoreType, Records, Calls, Leases, Ops
    <3>2. RecordInv' /\ CallInv'
      BY <2>1, CoordStep
    <3>3. LeaseInv' /\ EpochInv'
      BY <2>1, <3>1, LeaseStep, EpochStep
    <3>4. SinkInv' /\ RowInv' /\ TombInv'
      BY <2>1, <3>1, SinkStep, RowStep, TombStep
    <3>5. PurgeInv' /\ ReleaseInv'
      BY <2>1, <3>1, PurgeStep, ReleaseStep
    <3> QED BY <3>1, <3>2, <3>3, <3>4, <3>5 DEF ResetInv
  <2> QED BY <2>1, ResetStutter
<1> QED BY <1>1, <1>2, PTL DEF Spec

(* The variables keep their shapes; no epoch beyond MaxVersion is minted.   *)
THEOREM ResetTypeCorrect == Spec => []TypeOK
<1>1. ResetInv => TypeOK
  BY DEF ResetInv
<1> QED BY <1>1, ResetInvariant, PTL

(***************************************************************************)
(* waitForAppIdentityTrafficLeases: once the block is stored, no isolate   *)
(* has traffic left under the record but for the lag of its clock.         *)
(***************************************************************************)
THEOREM BlockedTrafficIsOver == Spec => []BlockedHasNoLease
<1>1. ResetInv => BlockedHasNoLease
  <2> SUFFICES ASSUME ResetInv, rec.state \notin {"none", "active"},
                      NEW i \in Isolates, cache[i].allowed
               PROVE  cache[i].left <= Skew
    BY DEF BlockedHasNoLease
  <2>1. InReset
    BY DEF ResetInv, TypeOK, InReset
  <2> QED BY <2>1 DEF ResetInv, LeaseInv
<1> QED BY <1>1, ResetInvariant, PTL

(***************************************************************************)
(* The purges and the rotation: no store but the holdover outbox serves a  *)
(* row of a destroyed epoch, whatever was admitted before the block and    *)
(* however late Tinybird gets to a request; the epoch that is active has   *)
(* no tombstone (deleteAppIdentityData).                                   *)
(***************************************************************************)
THEOREM DestroyedEpochsAreGone == Spec => []DestroyedIsGone
<1>1. ResetInv => DestroyedIsGone
  <2> SUFFICES ASSUME ResetInv PROVE DestroyedIsGone
    OBVIOUS
  <2>1. rec.version \in Nat
    BY FieldTypes DEF ResetInv
  <2>2. \A v \in data["analytics"] \ tombs : v >= rec.version
    BY <2>1 DEF ResetInv, TombInv
  <2>3. rec.state = "active" => rec.version \notin tombs
    BY DEF ResetInv, TombInv
  <2> QED BY <2>1, <2>2, <2>3 DEF ResetInv, RowInv, DestroyedIsGone
<1> QED BY <1>1, ResetInvariant, PTL

(***************************************************************************)
(* putConfigStoreAppIdentityIfAbsent and the rotation: an isolate hashes   *)
(* under the record's key for the record's epoch, or under an older epoch. *)
(***************************************************************************)
THEOREM ElectedKeyIsUnique == Spec => []OneKeyPerVersion
<1>1. ResetInv => OneKeyPerVersion
  BY DEF ResetInv, EpochInv, OneKeyPerVersion
<1> QED BY <1>1, ResetInvariant, PTL

(***************************************************************************)
(* completeAppIdentityReset: an active identity has no sink left closed,   *)
(* and none that admits another epoch.                                     *)
(***************************************************************************)
THEOREM ActiveSinksAreOpen == Spec => []ActiveIsOpen
<1>1. ResetInv => ActiveIsOpen
  BY DEF ResetInv, SinkInv, ReleaseInv, ActiveIsOpen
<1> QED BY <1>1, ResetInvariant, PTL
=============================================================================
