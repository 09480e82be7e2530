-------------------------- MODULE AssignmentStore --------------------------
(***************************************************************************)
(* The Assignment Store of one Entity under one App identity version: its  *)
(* writer Durable Object, the Workers KV blob that evaluations read, and   *)
(* the evaluations that race for the first touch of an Experiment, with    *)
(* an Entity deletion and an App identity reset.                           *)
(*                                                                         *)
(*   evaluation  evaluate.ts of the Evaluation Worker, kv-assignment-      *)
(*               store.ts, evaluatePath of evaluation-core                 *)
(*   App         the serialized section of HoldoverWriteAppInventory that  *)
(*               a put passes (holdover-write-app-assignment.ts)           *)
(*   writer      AssignmentStoreWriter, under blockConcurrencyWhile        *)
(*   KV          one blob per Entity, eventually consistent                *)
(*                                                                         *)
(* A Run decides the Variant (assignment is a pure hash), so a holdover is *)
(* its Run.  A new identity version has a writer and a blob of its own, so *)
(* the reset of this version is the end of both.                           *)
(***************************************************************************)
EXTENDS Naturals, FiniteSets

CONSTANTS
  Requests,           \* calls of evaluate, each with an idempotency key
  Experiments,
  ExperimentOf,       \* the Experiment a request evaluates
  MaxRun,             \* bound on Runs
  MaxNow,             \* bound on the clock
  MaxAttempts,        \* bound on attempts of a request
  MaxFaults,          \* bound on failed KV calls, failed identity reads and restarts
  Deletes, Resets     \* which privacy operations happen: TRUE or FALSE

ASSUME StoreAssumption ==
  /\ ExperimentOf \in [Requests -> Experiments]
  /\ MaxRun \in Nat \ {0} /\ MaxNow \in Nat \ {0}
  /\ MaxAttempts \in Nat \ {0} /\ MaxFaults \in Nat
  /\ Deletes \in BOOLEAN /\ Resets \in BOOLEAN
  /\ "none" \notin Requests

VARIABLES
  pc, run, at, attempts,   \* evaluation: where it is, its Run, its exposureAt (0 on a replay)
  committed, sealed,       \* keys with a sealed commit; those whose commit has an Exposure
  section,                 \* holder of the App's serialized section
  frozen,                  \* the App inventory is suppressed
  inventory,               \* the writer is registered in the App inventory
  puts, job,               \* puts sent to the writer; the operation it has begun
  winner, wonAt,           \* writer storage: Run and sourceCreatedAtMs by Experiment
  cutoff, fenced,          \* writer storage: deletion cutoff, reset fence
  kv, kvOld,               \* the blob, and older ones a read elsewhere may still return
  liveRun, now, faults,
  closed, resetPc,         \* the App identity is blocked; progress of the reset
  removed,                 \* history: winners a privacy operation removed
  proof, resetProof        \* history: the cutoff a deletion proved; the reset was proved

callVars == <<pc, section>>
evaluationVars == <<run, at, attempts, committed, sealed>>
appVars == <<frozen, inventory>>
writerVars == <<winner, wonAt, cutoff, fenced>>
kvVars == <<kv, kvOld>>
worldVars == <<liveRun, now>>
resetVars == <<closed, resetPc, resetProof>>
historyVars == <<removed, proof>>

vars == <<callVars, evaluationVars, appVars, puts, job, writerVars, kvVars, worldVars,
          faults, resetVars, historyVars>>

Runs == 1..MaxRun
Absent == 0
NoOne == "none"
NoJob == [kind |-> "none"]
Blobs == [Experiments -> 0..MaxRun]
Empty == [x \in Experiments |-> Absent]
Puts == [kind : {"put"}, by : Requests, attempt : 1..MaxAttempts, run : Runs, at : 1..MaxNow]

Init ==
  /\ pc = [q \in Requests |-> "idle"]
  /\ run = [q \in Requests |-> Absent]
  /\ at = [q \in Requests |-> 0]
  /\ attempts = [q \in Requests |-> 0]
  /\ committed = {} /\ sealed = {}
  /\ section = NoOne /\ frozen = FALSE /\ inventory = FALSE
  /\ puts = {} /\ job = NoJob
  /\ winner = Empty /\ wonAt = [x \in Experiments |-> 0]
  /\ cutoff = 0 /\ fenced = FALSE
  /\ kv = Empty /\ kvOld = {}
  /\ liveRun = 1 /\ now = 1 /\ faults = 0
  /\ closed = FALSE /\ resetPc = "idle" /\ resetProof = FALSE
  /\ removed = {} /\ proof = 0

Fault == faults < MaxFaults /\ faults' = faults + 1

----------------------------------------------------------------------------
(* Workers KV.                                                             *)

\* A get may return an older blob while a newer one propagates, also to the writer.
KvReads == {kv} \cup kvOld

KvPut(blob) ==
  IF blob = kv THEN UNCHANGED kvVars
  ELSE kv' = blob /\ kvOld' = (kvOld \cup {kv}) \ {blob}

\* The propagation window ends: older blobs are gone everywhere.
KvPropagates ==
  /\ kvOld # {}
  /\ kvOld' = {}
  /\ UNCHANGED <<callVars, evaluationVars, appVars, puts, job, writerVars, kv, worldVars,
                 faults, resetVars, historyVars>>

----------------------------------------------------------------------------
(* The evaluation.                                                         *)

Exp(q) == ExperimentOf[q]
Goto(q, label) == pc' = [pc EXCEPT ![q] = label]

\* Every check of the admitted identity: blocked, the evaluation answers 503.
IdentityChecks(q, label) == Goto(q, IF closed THEN "failed" ELSE label)

\* tryAdmitAppIdentity; a failed request may be sent again with the same key.
Start(q) ==
  /\ pc[q] \in {"idle", "failed"} /\ attempts[q] < MaxAttempts
  /\ attempts' = [attempts EXCEPT ![q] = @ + 1]
  /\ IdentityChecks(q, "read")
  /\ UNCHANGED <<run, at, committed, sealed, section, appVars, puts, job, writerVars, kvVars,
                 worldVars, faults, resetVars, historyVars>>

\* evaluatePath: a holdover is replayed, else the live Run assigns and exposes.
EvaluateWith(q, held) ==
  /\ IF held[Exp(q)] # Absent
     THEN run' = [run EXCEPT ![q] = held[Exp(q)]] /\ at' = [at EXCEPT ![q] = 0]
     ELSE run' = [run EXCEPT ![q] = liveRun] /\ at' = [at EXCEPT ![q] = now]
  /\ IdentityChecks(q, "commit")
  /\ UNCHANGED <<attempts, committed, sealed, section, appVars, puts, job, writerVars,
                 kvVars, worldVars, resetVars, historyVars>>

Read(q) ==
  /\ pc[q] = "read"
  /\ \E blob \in KvReads : EvaluateWith(q, blob)
  /\ UNCHANGED faults

\* The identity read that guards getAll fails once: evaluatePath goes on with no holdovers.
ReadSwallowsFailure(q) ==
  /\ pc[q] = "read" /\ Fault
  /\ EvaluateWith(q, Empty)

\* Event Ingest keeps the first commit of a key (EvaluationCommit).
SealCommit(q) ==
  /\ committed' = committed \cup {q}
  /\ sealed' = IF q \in committed \/ at[q] = 0 THEN sealed ELSE sealed \cup {q}

\* Mutant: a commit that fails does not stop the evaluation.
CommitBestEffort(q) ==
  /\ pc[q] = "commit"
  /\ \/ SealCommit(q) /\ IdentityChecks(q, IF at[q] # 0 THEN "put" ELSE "validate")
     \/ Goto(q, IF at[q] # 0 THEN "put" ELSE "validate")
        /\ (SealCommit(q) \/ UNCHANGED <<committed, sealed>>)
  /\ UNCHANGED <<run, at, attempts, section, appVars, puts, job, writerVars, kvVars, worldVars,
                 faults, resetVars, historyVars>>

\* writeEvaluationCommit; a failure may hide that the commit was sealed.
Commit(q) ==
  /\ pc[q] = "commit"
  /\ \/ SealCommit(q) /\ IdentityChecks(q, IF at[q] # 0 THEN "put" ELSE "validate")
     \/ Goto(q, "failed") /\ (SealCommit(q) \/ UNCHANGED <<committed, sealed>>)
  /\ UNCHANGED <<run, at, attempts, section, appVars, puts, job, writerVars, kvVars, worldVars,
                 faults, resetVars, historyVars>>

\* KvAssignmentStore.put reads the blob once more and stops at an entry.
PutReads(q) ==
  /\ pc[q] = "put"
  /\ \E blob \in KvReads : Goto(q, IF blob[Exp(q)] # Absent THEN "validate" ELSE "app")
  /\ UNCHANGED <<evaluationVars, section, appVars, puts, job, writerVars, kvVars, worldVars,
                 faults, resetVars, historyVars>>

\* admitAppInventoryAssignment; the section is held across the call of the writer.
AdmitAtApp(q) ==
  /\ pc[q] = "app" /\ section = NoOne
  /\ IF frozen
     THEN Goto(q, "failed") /\ UNCHANGED <<section, inventory, puts>>
     ELSE /\ Goto(q, "writer") /\ section' = q /\ inventory' = TRUE
          /\ puts' = puts \cup {[kind |-> "put", by |-> q, attempt |-> attempts[q],
                                 run |-> run[q], at |-> at[q]]}
  /\ UNCHANGED <<evaluationVars, frozen, job, writerVars, kvVars, worldVars, faults, resetVars,
                 historyVars>>

\* The last identity checks, then the Variant is served.
Validate(q) ==
  /\ pc[q] = "validate"
  /\ IdentityChecks(q, "served")
  /\ UNCHANGED <<evaluationVars, section, appVars, puts, job, writerVars, kvVars, worldVars,
                 faults, resetVars, historyVars>>

\* The App's object restarts: its caller gets 503 although the put is on its way.
AppRestarts ==
  /\ section # NoOne /\ Fault
  /\ Goto(section, "failed") /\ section' = NoOne
  /\ UNCHANGED <<evaluationVars, appVars, puts, job, writerVars, kvVars, worldVars, resetVars,
                 historyVars>>

----------------------------------------------------------------------------
(* AssignmentStoreWriter.put, one operation at a time.                     *)

Awaited(p) == section = p.by /\ attempts[p.by] = p.attempt

\* Mutant: a writer that fails leaves the section taken.
AnswerKeepsSection(p, label) ==
  IF Awaited(p)
  THEN Goto(p.by, label) /\ section' = IF label = "failed" THEN section ELSE NoOne
  ELSE UNCHANGED callVars

\* The answer ends the request at the App (serialized's finally) and reaches the evaluation.
Answer(p, label) ==
  IF Awaited(p) THEN Goto(p.by, label) /\ section' = NoOne ELSE UNCHANGED callVars

\* Mutant: a put as old as the cutoff passes.
RefusedStrict(p) == fenced \/ p.at < cutoff

Refused(p) == fenced \/ p.at <= cutoff

WriterRefuses(p) ==
  /\ job = NoJob /\ p \in puts /\ Refused(p)
  /\ puts' = puts \ {p}
  /\ Answer(p, "failed")
  /\ UNCHANGED <<evaluationVars, appVars, job, writerVars, kvVars, worldVars, faults, resetVars,
                 historyVars>>

\* get, decide, put: a winner that is there stays.
WriterPuts(p) ==
  /\ job = NoJob /\ p \in puts /\ ~Refused(p)
  /\ puts' = puts \ {p} /\ job' = p
  /\ IF winner[Exp(p.by)] # Absent
     THEN UNCHANGED <<winner, wonAt>>
     ELSE /\ winner' = [winner EXCEPT ![Exp(p.by)] = p.run]
          /\ wonAt' = [wonAt EXCEPT ![Exp(p.by)] = p.at]
  /\ UNCHANGED <<callVars, evaluationVars, appVars, cutoff, fenced, kvVars, worldVars, faults,
                 resetVars, historyVars>>

\* mergeAssignmentValue: an entry that is there stays.
Merge(blob, x, r) == IF blob[x] # Absent THEN blob ELSE [blob EXCEPT ![x] = r]

\* Mutant: the Assignment of the put is published, not the winner.
PublishedOwn(p) == p.run

\* put passes the durable winner to writeThrough, whoever it is.
Published(p) == winner[Exp(p.by)]

(***************************************************************************)
(* writeThrough: get, merge, put.  The get is a plain read of Workers KV,  *)
(* so what is merged may be an older blob; one that has the entry is left  *)
(* alone.                                                                  *)
(***************************************************************************)
WriteThrough ==
  /\ job.kind = "put"
  /\ \E blob \in KvReads :
       LET next == Merge(blob, Exp(job.by), Published(job))
       IN  IF next = blob THEN UNCHANGED kvVars ELSE KvPut(next)
  /\ job' = NoJob
  /\ Answer(job, "validate")
  /\ UNCHANGED <<evaluationVars, appVars, puts, writerVars, worldVars, faults, resetVars,
                 historyVars>>

\* A KV call of the write-through fails: the winner is stored, the evaluation answers 503.
WriteThroughFails ==
  /\ job.kind = "put" /\ Fault
  /\ job' = NoJob
  /\ Answer(job, "failed")
  /\ UNCHANGED <<evaluationVars, appVars, puts, writerVars, kvVars, worldVars, resetVars,
                 historyVars>>

----------------------------------------------------------------------------
(* Privacy operations at the writer.                                       *)

\* What is left when the Experiments in gone are deleted.
Without(f, gone) == [x \in Experiments |-> IF x \in gone THEN 0 ELSE f[x]]

\* The winners of the Experiments in gone.
WinnersOf(gone) == {<<x, winner[x]>> : x \in {z \in gone : winner[z] # Absent}}

\* deleteEntity up to its rewrite of the blob; the cutoff never goes back.
DeleteEntity(c) ==
  /\ Deletes /\ job = NoJob
  /\ cutoff' = IF c > cutoff THEN c ELSE cutoff
  /\ LET gone == {x \in Experiments : wonAt[x] <= cutoff'}
     IN  /\ winner' = Without(winner, gone) /\ wonAt' = Without(wonAt, gone)
         /\ removed' = removed \cup WinnersOf(gone)
  /\ job' = [kind |-> "delete"]
  /\ UNCHANGED <<callVars, evaluationVars, appVars, puts, fenced, kvVars, worldVars, faults,
                 resetVars, proof>>

\* rewriteKvFromDurableWinners merges every winner into a new blob.
Rewritten == winner

\* The rewrite of the blob, then the answer with the proof.
Rewrite ==
  /\ job.kind \in {"delete", "reset"}
  /\ job' = NoJob
  /\ KvPut(Rewritten)
  /\ IF job.kind = "delete"
     THEN proof' = cutoff /\ UNCHANGED resetPc
     ELSE resetPc' = "writer" /\ UNCHANGED proof
  /\ UNCHANGED <<callVars, evaluationVars, appVars, puts, writerVars, worldVars, faults,
                 closed, resetProof, removed>>

\* The KV call fails: no proof, and the operation has to be repeated.
RewriteFails ==
  /\ job.kind \in {"delete", "reset"} /\ Fault
  /\ job' = NoJob
  /\ UNCHANGED <<callVars, evaluationVars, appVars, puts, writerVars, kvVars, worldVars,
                 resetVars, historyVars>>

----------------------------------------------------------------------------
(* The App identity reset, as far as this writer is concerned.             *)

(***************************************************************************)
(* resetConfigStoreAppIdentity waits for the last identity lease to end    *)
(* and runReset saves the blocked record: from here on every check fails.  *)
(***************************************************************************)
BlockIdentity ==
  /\ Resets /\ ~closed
  /\ closed' = TRUE
  /\ UNCHANGED <<callVars, evaluationVars, appVars, puts, job, writerVars, kvVars, worldVars,
                 faults, resetPc, resetProof, historyVars>>

\* beginDeletion freezes the inventory, in the App's section.
FreezeInventory ==
  /\ closed /\ resetPc = "idle" /\ section = NoOne
  /\ frozen' = TRUE
  /\ resetPc' = "frozen"
  /\ UNCHANGED <<callVars, evaluationVars, inventory, puts, job, writerVars, kvVars, worldVars,
                 faults, closed, resetProof, historyVars>>

\* resetApp at a registered writer: the fence first, then every winner.
ResetWriter ==
  /\ resetPc = "frozen" /\ inventory /\ job = NoJob
  /\ fenced' = TRUE
  /\ winner' = Empty /\ wonAt' = [x \in Experiments |-> 0]
  /\ removed' = removed \cup WinnersOf(Experiments)
  /\ job' = [kind |-> "reset"]
  /\ UNCHANGED <<callVars, evaluationVars, appVars, puts, cutoff, kvVars, worldVars, faults,
                 resetVars, proof>>

\* markEntityPurged after the writer's proof.
MarkPurged ==
  /\ resetPc = "writer"
  /\ inventory' = FALSE
  /\ resetPc' = "frozen"
  /\ UNCHANGED <<callVars, evaluationVars, frozen, puts, job, writerVars, kvVars, worldVars,
                 faults, closed, resetProof, historyVars>>

\* The inventory is empty: the App's KV prefix is deleted and the reset is proved.
ProveReset ==
  /\ resetPc = "frozen" /\ ~inventory
  /\ KvPut(Empty)
  /\ resetPc' = "proved"
  /\ resetProof' = TRUE
  /\ UNCHANGED <<callVars, evaluationVars, appVars, puts, job, writerVars, worldVars, faults,
                 closed, historyVars>>

----------------------------------------------------------------------------
\* The next Run of the Experiments goes live.
StartRun ==
  /\ liveRun < MaxRun
  /\ liveRun' = liveRun + 1
  /\ UNCHANGED <<callVars, evaluationVars, appVars, puts, job, writerVars, kvVars, now, faults,
                 resetVars, historyVars>>

Tick ==
  /\ now < MaxNow
  /\ now' = now + 1
  /\ UNCHANGED <<callVars, evaluationVars, appVars, puts, job, writerVars, kvVars, liveRun,
                 faults, resetVars, historyVars>>

EvaluationStep(q) ==
  Read(q) \/ Commit(q) \/ PutReads(q) \/ AdmitAtApp(q) \/ Validate(q)

WriterTakes == \E p \in puts : WriterRefuses(p) \/ WriterPuts(p)

ResetStep == BlockIdentity \/ FreezeInventory \/ ResetWriter \/ MarkPurged \/ ProveReset

Next ==
  \/ \E q \in Requests : Start(q) \/ EvaluationStep(q) \/ ReadSwallowsFailure(q)
  \/ WriterTakes \/ WriteThrough \/ WriteThroughFails \/ AppRestarts
  \/ \E c \in 1..now : DeleteEntity(c)
  \/ Rewrite \/ RewriteFails \/ ResetStep
  \/ KvPropagates \/ StartRun \/ Tick

Spec == Init /\ [][Next]_vars

(***************************************************************************)
(* An evaluation that was started goes on, and the writer finishes what it *)
(* began.  Its queue is first in, first out, so a put that waits is taken  *)
(* however many deletions arrive.  Nothing forces an operation to start.   *)
(***************************************************************************)
Fairness ==
  /\ \A q \in Requests : WF_vars(EvaluationStep(q))
  /\ SF_vars(WriterTakes) /\ WF_vars(WriteThrough) /\ WF_vars(Rewrite)

FairSpec == Spec /\ Fairness

----------------------------------------------------------------------------
\* The shapes of the variables.
TypeOK ==
  /\ pc \in [Requests -> {"idle", "read", "commit", "put", "app", "writer",
                          "validate", "served", "failed"}]
  /\ run \in [Requests -> 0..MaxRun]
  /\ at \in [Requests -> 0..MaxNow] /\ attempts \in [Requests -> 0..MaxAttempts]
  /\ committed \subseteq Requests /\ sealed \subseteq Requests
  /\ section \in Requests \cup {NoOne} /\ frozen \in BOOLEAN /\ inventory \in BOOLEAN
  /\ puts \subseteq Puts
  /\ job \in Puts \cup {NoJob, [kind |-> "delete"], [kind |-> "reset"]}
  /\ winner \in Blobs /\ wonAt \in [Experiments -> 0..MaxNow]
  /\ cutoff \in 0..MaxNow /\ fenced \in BOOLEAN
  /\ kv \in Blobs /\ kvOld \subseteq Blobs
  /\ liveRun \in Runs /\ now \in 1..MaxNow /\ faults \in 0..MaxFaults
  /\ closed \in BOOLEAN /\ resetPc \in {"idle", "frozen", "writer", "proved"}
  /\ removed \subseteq Experiments \X Runs
  /\ proof \in 0..MaxNow /\ resetProof \in BOOLEAN

(***************************************************************************)
(* No reader ever sees the loser of a race: an entry of any blob a get may *)
(* return, however old, is the durable winner of its Experiment, or was    *)
(* until a privacy operation removed it.  The writer publishes the winner  *)
(* it has stored, and merges it into nothing but earlier publications.     *)
(***************************************************************************)
KvMatchesWinner ==
  \A blob \in KvReads, x \in Experiments :
    blob[x] \in {Absent, winner[x]} \/ <<x, blob[x]>> \in removed

(***************************************************************************)
(* "put awaits write-through so HTTP success means the Entity KV blob is   *)
(* visible" (assignment-store-writer.ts): once KV has converged, the       *)
(* holdover of an evaluation that was served is in the blob, unless a      *)
(* privacy operation removed it.  A merge into an older blob loses it.     *)
(***************************************************************************)
AckedIsVisible ==
  kvOld = {} =>
    \A q \in Requests : pc[q] = "served" =>
      kv[Exp(q)] # Absent \/ \E r \in Runs : <<Exp(q), r>> \in removed

(***************************************************************************)
(* After a deletion is proved no winner as old as its cutoff comes back,   *)
(* and after the reset is proved none at all, though a put that was        *)
(* admitted before may arrive late.                                        *)
(***************************************************************************)
ProvedStaysDeleted ==
  /\ \A x \in Experiments : winner[x] # Absent => wonAt[x] > proof
  /\ resetProof => winner = Empty /\ kv = Empty

(***************************************************************************)
(* First touch wins, and no holdover precedes every Exposure of its        *)
(* Experiment: the store implements FirstTouch.                            *)
(***************************************************************************)
Exposed == {Exp(q) : q \in sealed}

Promise == INSTANCE FirstTouch WITH holdover <- winner, exposed <- Exposed

ImplementsFirstTouch == Promise!Spec

(***************************************************************************)
(* An evaluation that passed admission is answered: neither the App's      *)
(* section nor the writer can leave it waiting.                            *)
(***************************************************************************)
EvaluationAnswered ==
  \A q \in Requests : pc[q] = "read" ~> pc[q] \in {"served", "failed"}
=============================================================================
