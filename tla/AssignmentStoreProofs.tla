------------------------ MODULE AssignmentStoreProofs ------------------------
(***************************************************************************)
(* Proofs about the Assignment Store, for every set of requests and every  *)
(* bound: it implements FirstTouch, what a proved deletion or reset        *)
(* removed stays removed, and no blob holds the loser of a race.           *)
(***************************************************************************)
EXTENDS AssignmentStore, TLAPS

\* What an evaluation under way carries.
CallsExact ==
  /\ \A q \in Requests : pc[q] # "idle" => attempts[q] \in 1..MaxAttempts
  /\ \A q \in Requests : pc[q] \in {"commit", "put", "app"} => run[q] \in Runs
  /\ \A q \in Requests : pc[q] \in {"put", "app"} => at[q] \in 1..MaxNow
  /\ \A q \in Requests : section = q => pc[q] = "writer"

TypeInv == TypeOK /\ CallsExact

LEMMA InitType == Init => TypeInv
<1> SUFFICES ASSUME Init PROVE TypeInv
  OBVIOUS
<1> USE StoreAssumption
<1>1. Empty \in Blobs /\ winner = Empty /\ kv = Empty /\ wonAt \in [Experiments -> 0..MaxNow]
  BY DEF Init, Empty, Blobs, Absent
<1>2. /\ run \in [Requests -> 0..MaxRun] /\ sealed \subseteq Requests
      /\ at \in [Requests -> 0..MaxNow] /\ attempts \in [Requests -> 0..MaxAttempts]
  BY DEF Init, Absent
<1>3. CallsExact
  BY DEF Init, CallsExact, NoOne
<1>4. pc \in [Requests -> {"idle", "read", "commit", "put", "app", "writer",
                         "validate", "served", "failed"}]
  BY DEF Init
<1>5. /\ cutoff \in 0..MaxNow /\ proof \in 0..MaxNow /\ now \in 1..MaxNow
      /\ liveRun \in Runs /\ faults \in 0..MaxFaults
  BY DEF Init, Runs
<1>6. QED  BY <1>1, <1>2, <1>3, <1>4, <1>5 DEF Init, TypeInv, TypeOK

LEMMA KvPutType ==
  ASSUME TypeOK, NEW blob \in Blobs, KvPut(blob)
  PROVE  kv' \in Blobs /\ kvOld' \subseteq Blobs
  BY DEF TypeOK, KvPut, kvVars

LEMMA WithoutType ==
  ASSUME NEW n \in Nat, NEW f \in [Experiments -> 0..n], NEW gone
  PROVE  Without(f, gone) \in [Experiments -> 0..n]
  BY DEF Without

LEMMA WinnersOfType ==
  ASSUME TypeOK, NEW gone \in SUBSET Experiments
  PROVE  WinnersOf(gone) \subseteq Experiments \X Runs
  BY StoreAssumption DEF WinnersOf, TypeOK, Blobs, Runs, Absent

LEMMA NextType == TypeInv /\ [Next]_vars => TypeInv'
<1> SUFFICES ASSUME TypeInv, [Next]_vars PROVE TypeInv'
  OBVIOUS
<1> USE StoreAssumption DEF TypeInv, NoOne
<1>1. ASSUME NEW q \in Requests, Start(q) PROVE TypeInv'
  BY <1>1 DEF TypeOK, CallsExact, Start, IdentityChecks, Goto, appVars, writerVars, kvVars,
     worldVars, resetVars, historyVars, Blobs, Runs
<1>2. ASSUME NEW q \in Requests, NEW held \in Blobs, EvaluateWith(q, held), pc[q] = "read",
             faults' \in 0..MaxFaults
      PROVE  TypeInv'
  BY <1>2 DEF TypeOK, CallsExact, EvaluateWith, IdentityChecks, Goto, appVars, writerVars,
     kvVars, worldVars, resetVars, historyVars, Blobs, Runs, Absent, Exp
<1>3. ASSUME NEW q \in Requests, Read(q) PROVE TypeInv'
  BY <1>2, <1>3 DEF Read, KvReads, TypeOK
<1>4. ASSUME NEW q \in Requests, ReadSwallowsFailure(q) PROVE TypeInv'
  BY <1>2, <1>4 DEF ReadSwallowsFailure, Fault, TypeOK, Empty, Blobs, Absent
<1>5. ASSUME NEW q \in Requests, Commit(q) PROVE TypeInv'
  BY <1>5 DEF TypeOK, CallsExact, Commit, SealCommit, IdentityChecks, Goto, appVars, writerVars,
     kvVars, worldVars, resetVars, historyVars, Blobs, Runs, Absent
<1>6. ASSUME NEW q \in Requests, PutReads(q) PROVE TypeInv'
  BY <1>6 DEF TypeOK, CallsExact, PutReads, Goto, evaluationVars, appVars, writerVars,
     kvVars, worldVars, resetVars, historyVars, Blobs, Runs, Absent
<1>7. ASSUME NEW q \in Requests, AdmitAtApp(q) PROVE TypeInv'
  <2>1. [kind |-> "put", by |-> q, attempt |-> attempts[q], run |-> run[q], at |-> at[q]] \in Puts
    BY <1>7 DEF AdmitAtApp, CallsExact, Puts
  <2>2. puts' \subseteq Puts /\ inventory' \in BOOLEAN
    BY <1>7, <2>1 DEF AdmitAtApp, TypeOK
  <2>3. QED
    BY <1>7, <2>2 DEF TypeOK, CallsExact, AdmitAtApp, Goto, evaluationVars, writerVars,
       kvVars, worldVars, resetVars, historyVars, Runs
<1>8. ASSUME NEW q \in Requests, Validate(q) PROVE TypeInv'
  BY <1>8 DEF TypeOK, CallsExact, Validate, IdentityChecks, Goto, evaluationVars, appVars,
     writerVars, kvVars, worldVars, resetVars, historyVars, Blobs, Runs
<1>9. CASE AppRestarts
  <2>1. section \in Requests
    BY <1>9 DEF AppRestarts, TypeOK
  <2>2. pc' = [pc EXCEPT ![section] = "failed"] /\ section' = NoOne
    BY <1>9 DEF AppRestarts, Goto
  <2>3. CallsExact' /\ pc' \in [Requests -> {"idle", "read", "commit", "put", "app", "writer",
                                            "validate", "served", "failed"}]
    BY <1>9, <2>1, <2>2 DEF AppRestarts, TypeOK, CallsExact, evaluationVars
  <2>4. faults' \in 0..MaxFaults
    BY <1>9 DEF AppRestarts, Fault, TypeOK
  <2>5. UNCHANGED <<evaluationVars, appVars, puts, job, writerVars, kvVars, worldVars,
                    resetVars, historyVars>>
    BY <1>9 DEF AppRestarts
  <2>6. QED
    BY <2>2, <2>3, <2>4, <2>5 DEF TypeOK, evaluationVars, appVars, writerVars, kvVars,
       worldVars, resetVars, historyVars
<1>10. ASSUME NEW p \in puts, WriterRefuses(p) PROVE TypeInv'
  BY <1>10 DEF TypeOK, CallsExact, WriterRefuses, Answer, Awaited, Goto, callVars,
     evaluationVars, appVars, writerVars, kvVars, worldVars, resetVars, historyVars, Blobs,
     Runs, Puts
<1>11. ASSUME NEW p \in puts, WriterPuts(p) PROVE TypeInv'
  BY <1>11 DEF TypeOK, CallsExact, WriterPuts, Exp, callVars,
     evaluationVars, appVars, kvVars, worldVars, resetVars, historyVars, Blobs, Runs, Puts
<1>12. CASE WriteThrough
  <2>1. job \in Puts
    BY <1>12 DEF WriteThrough, TypeOK, NoJob
  <2>2. kv' \in Blobs /\ kvOld' \subseteq Blobs
    <3>1. PICK blob \in KvReads :
            LET next == Merge(blob, Exp(job.by), Published(job))
            IN  IF next = blob THEN UNCHANGED kvVars ELSE KvPut(next)
      BY <1>12 DEF WriteThrough
    <3>2. blob \in Blobs
      BY DEF KvReads, TypeOK
    <3>3. Merge(blob, Exp(job.by), Published(job)) \in Blobs
      BY <2>1, <3>2 DEF Merge, Published, Exp, Puts, Blobs, TypeOK
    <3>4. QED  BY <3>1, <3>3, KvPutType DEF kvVars, TypeOK
  <2>3. QED
    BY <1>12, <2>1, <2>2 DEF TypeOK, CallsExact, WriteThrough, Answer, Awaited, Goto, callVars,
       evaluationVars, appVars, writerVars, worldVars, resetVars, historyVars, Exp, Runs, Puts
<1>13. CASE WriteThroughFails
  <2>1. job \in Puts
    BY <1>13 DEF WriteThroughFails, TypeOK, NoJob
  <2>2. QED
    BY <1>13, <2>1 DEF TypeOK, CallsExact, WriteThroughFails, Fault, Answer, Awaited, Goto,
       callVars, evaluationVars, appVars, writerVars, kvVars, worldVars, resetVars,
       historyVars, Blobs, Runs, Puts
<1>14. ASSUME NEW c \in 1..now, DeleteEntity(c) PROVE TypeInv'
  <2>1. PICK gone : /\ winner' = Without(winner, gone) /\ wonAt' = Without(wonAt, gone)
                    /\ removed' = removed \cup WinnersOf(gone) /\ gone \subseteq Experiments
    BY <1>14 DEF DeleteEntity
  <2>2. winner' \in Blobs /\ wonAt' \in [Experiments -> 0..MaxNow]
    BY <2>1, WithoutType DEF TypeOK, Blobs
  <2>3. removed' \subseteq Experiments \X Runs
    BY <2>1, WinnersOfType DEF TypeOK
  <2>4. QED
    BY <1>14, <2>2, <2>3 DEF TypeOK, CallsExact, DeleteEntity, callVars, evaluationVars,
       appVars, kvVars, worldVars, resetVars, Runs
<1>15. CASE Rewrite
  <2>1. kv' \in Blobs /\ kvOld' \subseteq Blobs
    BY <1>15, KvPutType DEF Rewrite, Rewritten, TypeOK
  <2>2. QED
    BY <1>15, <2>1 DEF TypeOK, CallsExact, Rewrite, callVars, evaluationVars, appVars,
       writerVars, worldVars, Runs
<1>16. CASE RewriteFails
  BY <1>16 DEF TypeOK, CallsExact, RewriteFails, Fault, callVars, evaluationVars, appVars,
     writerVars, kvVars, worldVars, resetVars, historyVars, Runs
<1>17. CASE ResetStep
  <2>1. CASE BlockIdentity
    BY <2>1 DEF TypeOK, CallsExact, BlockIdentity, callVars, evaluationVars, appVars,
       writerVars, kvVars, worldVars, historyVars, Runs
  <2>2. CASE FreezeInventory
    BY <2>2 DEF TypeOK, CallsExact, FreezeInventory, callVars, evaluationVars,
       writerVars, kvVars, worldVars, historyVars, Runs
  <2>3. CASE ResetWriter
    <3>1. removed' \subseteq Experiments \X Runs
      BY <2>3, WinnersOfType DEF ResetWriter, TypeOK
    <3>2. QED
      BY <2>3, <3>1 DEF TypeOK, CallsExact, ResetWriter, callVars, evaluationVars, appVars, Empty,
         Absent, Blobs, kvVars, worldVars, resetVars, Runs
  <2>4. CASE MarkPurged
    BY <2>4 DEF TypeOK, CallsExact, MarkPurged, callVars, evaluationVars,
       writerVars, kvVars, worldVars, historyVars, Runs
  <2>5. CASE ProveReset
    <3>1. Empty \in Blobs
      BY DEF Empty, Blobs, Absent
    <3>2. kv' \in Blobs /\ kvOld' \subseteq Blobs
      BY <2>5, <3>1, KvPutType DEF ProveReset
    <3>3. QED
      BY <2>5, <3>2 DEF TypeOK, CallsExact, ProveReset, callVars, evaluationVars, appVars,
         writerVars, worldVars, historyVars, Runs
  <2>6. QED  BY <1>17, <2>1, <2>2, <2>3, <2>4, <2>5 DEF ResetStep
<1>18. CASE KvPropagates \/ StartRun \/ Tick \/ UNCHANGED vars
  BY <1>18 DEF TypeOK, CallsExact, KvPropagates, StartRun, Tick, vars, callVars, evaluationVars,
     appVars, writerVars, kvVars, worldVars, resetVars, historyVars, Runs
<1>19. QED
  BY <1>1, <1>3, <1>4, <1>5, <1>6, <1>7, <1>8, <1>9, <1>10, <1>11, <1>12, <1>13, <1>14, <1>15,
     <1>16, <1>17, <1>18 DEF Next, EvaluationStep, WriterTakes

----------------------------------------------------------------------------
(* No holdover precedes the Exposure of its Experiment.                    *)

ExposedFirst ==
  /\ \A x \in Experiments : winner[x] # Absent => x \in Exposed
  /\ \A blob \in KvReads : \A x \in Experiments : blob[x] # Absent => x \in Exposed
  /\ \A q \in committed : Exp(q) \in Exposed
  /\ sealed \subseteq committed
  /\ \A q \in Requests :
       pc[q] \in {"put", "app"} \/ (pc[q] = "commit" /\ at[q] = 0) => Exp(q) \in Exposed
  /\ \A p \in puts : Exp(p.by) \in Exposed

LEMMA InitExposed == Init => ExposedFirst
  BY DEF Init, ExposedFirst, KvReads, Empty, Absent

LEMMA SealExposes ==
  ASSUME TypeInv, ExposedFirst, NEW q \in Requests, Commit(q), SealCommit(q)
  PROVE  Exposed' = Exposed \cup {Exp(q)}
<1> USE DEF TypeInv, TypeOK, ExposedFirst, Absent
<1>1. CASE q \in committed
  BY <1>1 DEF SealCommit, Exposed
<1>2. CASE q \notin committed /\ at[q] = 0
  BY <1>2 DEF SealCommit, Exposed, Commit
<1>3. CASE q \notin committed /\ at[q] # 0
  BY <1>3 DEF SealCommit, Exposed, Exp
<1>4. QED  BY <1>1, <1>2, <1>3

\* Only a commit changes what was exposed.
LEMMA ExposedGrows ==
  ASSUME TypeInv, ExposedFirst, [Next]_vars
  PROVE  Exposed \subseteq Exposed'
<1>1. CASE \E q \in Requests : Commit(q) /\ SealCommit(q)
  BY <1>1, SealExposes
<1>2. CASE sealed' = sealed
  BY <1>2 DEF Exposed
<1>3. sealed' = sealed \/ \E q \in Requests : Commit(q) /\ SealCommit(q)
  BY DEF Next, EvaluationStep, Start, Read, EvaluateWith, ReadSwallowsFailure, Commit, PutReads,
     AdmitAtApp, Validate, WriterTakes, WriterRefuses, WriterPuts, WriteThrough,
     WriteThroughFails, AppRestarts, DeleteEntity, Rewrite, RewriteFails, ResetStep,
     BlockIdentity, FreezeInventory, ResetWriter, MarkPurged, ProveReset, KvPropagates,
     StartRun, Tick, evaluationVars, vars
<1>4. QED  BY <1>1, <1>2, <1>3

LEMMA KvPutExposed ==
  ASSUME ExposedFirst, Exposed \subseteq Exposed', NEW blob \in Blobs, KvPut(blob),
         \A x \in Experiments : blob[x] # Absent => x \in Exposed
  PROVE  (\A b \in KvReads : \A x \in Experiments : b[x] # Absent => x \in Exposed)'
  BY DEF ExposedFirst, KvPut, KvReads, kvVars

LEMMA NextExposed == TypeInv /\ ExposedFirst /\ [Next]_vars => ExposedFirst'
<1> SUFFICES ASSUME TypeInv, ExposedFirst, [Next]_vars PROVE ExposedFirst'
  OBVIOUS
<1>0. Exposed \subseteq Exposed'
  BY ExposedGrows
<1> HIDE DEF Exposed
<1>1. ASSUME NEW q \in Requests, Start(q) PROVE ExposedFirst'
  BY <1>0, <1>1 DEF ExposedFirst, TypeInv, TypeOK, Start, IdentityChecks, Goto, writerVars,
     kvVars, KvReads, Exp
<1>2. ASSUME NEW q \in Requests, NEW held \in Blobs, EvaluateWith(q, held), pc[q] = "read",
             held[Exp(q)] # Absent => Exp(q) \in Exposed
      PROVE  ExposedFirst'
  <2>1. Exp(q) \in Experiments
    BY StoreAssumption DEF Exp
  <2>2. at' = [at EXCEPT ![q] = 0] => Exp(q) \in Exposed
    BY <1>2, StoreAssumption DEF EvaluateWith, TypeInv, TypeOK
  <2>3. UNCHANGED <<committed, sealed, puts, winner, kv, kvOld>>
    BY <1>2 DEF EvaluateWith, writerVars, kvVars
  <2>4. \A r \in Requests :
          (pc'[r] \in {"put", "app"} \/ (pc'[r] = "commit" /\ at'[r] = 0))
            => Exp(r) \in Exposed
    BY <1>2, <2>2, StoreAssumption
       DEF EvaluateWith, IdentityChecks, Goto, ExposedFirst, TypeInv, TypeOK
  <2>5. QED  BY <1>0, <2>3, <2>4 DEF ExposedFirst, KvReads, Exp
<1>3. ASSUME NEW q \in Requests, Read(q) PROVE ExposedFirst'
  BY <1>2, <1>3, StoreAssumption DEF Read, KvReads, TypeInv, TypeOK, ExposedFirst, Exp
<1>4. ASSUME NEW q \in Requests, ReadSwallowsFailure(q) PROVE ExposedFirst'
  BY <1>2, <1>4, StoreAssumption DEF ReadSwallowsFailure, Empty, Blobs, Absent, Exp
<1>5. ASSUME NEW q \in Requests, Commit(q) PROVE ExposedFirst'
  <2>1. UNCHANGED <<at, puts, winner, kv, kvOld>>
    BY <1>5 DEF Commit, writerVars, kvVars
  <2>2. CASE SealCommit(q)
    <3>1. Exp(q) \in Exposed'
      BY <1>5, <2>2, SealExposes
    <3>2. committed' = committed \cup {q} /\ sealed' \subseteq committed'
      BY <2>2 DEF SealCommit, TypeInv, TypeOK, ExposedFirst
    <3>3. \A r \in Requests : r # q => pc'[r] = pc[r]
      BY <1>5 DEF Commit, IdentityChecks, Goto, TypeInv, TypeOK
    <3>4. QED  BY <1>0, <2>1, <3>1, <3>2, <3>3 DEF ExposedFirst, KvReads, Exp
  <2>3. CASE UNCHANGED <<committed, sealed>> /\ Goto(q, "failed")
    BY <1>0, <2>1, <2>3 DEF ExposedFirst, KvReads, Exp, Goto, TypeInv, TypeOK
  <2>4. QED  BY <1>5, <2>2, <2>3 DEF Commit
<1>6. ASSUME NEW q \in Requests, PutReads(q) PROVE ExposedFirst'
  BY <1>0, <1>6 DEF ExposedFirst, PutReads, Goto, evaluationVars, writerVars, kvVars, KvReads,
     Exp, TypeInv, TypeOK
<1>7. ASSUME NEW q \in Requests, AdmitAtApp(q) PROVE ExposedFirst'
  <2>1. Exp(q) \in Exposed
    BY <1>7 DEF AdmitAtApp, ExposedFirst
  <2>2. \A p \in puts' : p \in puts \/ p.by = q
    BY <1>7 DEF AdmitAtApp
  <2>3. QED
    BY <1>0, <1>7, <2>1, <2>2 DEF ExposedFirst, AdmitAtApp, Goto, evaluationVars, writerVars,
       kvVars, KvReads, Exp, TypeInv, TypeOK
<1>8. ASSUME NEW q \in Requests, Validate(q) PROVE ExposedFirst'
  BY <1>0, <1>8 DEF ExposedFirst, Validate, IdentityChecks, Goto, evaluationVars, writerVars,
     kvVars, KvReads, Exp, TypeInv, TypeOK
<1>9. CASE AppRestarts
  <2>1. UNCHANGED <<evaluationVars, puts, writerVars, kvVars>>
    BY <1>9 DEF AppRestarts
  <2>2. \A r \in Requests : pc'[r] = pc[r] \/ pc'[r] = "failed"
    BY <1>9 DEF AppRestarts, Goto, TypeInv, TypeOK
  <2>3. QED
    BY <1>0, <2>1, <2>2 DEF ExposedFirst, evaluationVars, writerVars, kvVars, KvReads, Exp
<1>10. ASSUME NEW p \in puts, NEW label \in {"failed", "validate"}, Answer(p, label)
       PROVE  \A r \in Requests : pc'[r] = pc[r] \/ pc'[r] = label
  BY <1>10 DEF Answer, Goto, callVars, TypeInv, TypeOK
<1>11. ASSUME NEW p \in puts, WriterRefuses(p) PROVE ExposedFirst'
  <2>1. UNCHANGED <<evaluationVars, writerVars, kvVars>> /\ puts' \subseteq puts
    BY <1>11 DEF WriterRefuses
  <2>2. \A r \in Requests : pc'[r] = pc[r] \/ pc'[r] = "failed"
    BY <1>10, <1>11 DEF WriterRefuses
  <2>3. QED
    BY <1>0, <2>1, <2>2 DEF ExposedFirst, evaluationVars, writerVars, kvVars, KvReads, Exp
<1>12. ASSUME NEW p \in puts, WriterPuts(p) PROVE ExposedFirst'
  <2>1. UNCHANGED <<callVars, evaluationVars, kvVars>> /\ puts' \subseteq puts
    BY <1>12 DEF WriterPuts
  <2>2. \A x \in Experiments : winner'[x] # Absent => winner[x] # Absent \/ x = Exp(p.by)
    BY <1>12 DEF WriterPuts, TypeInv, TypeOK, Blobs
  <2>3. QED
    BY <1>0, <2>1, <2>2 DEF ExposedFirst, callVars, evaluationVars, kvVars, KvReads, Exp
<1>13. CASE WriteThrough
  <2>1. job \in Puts
    BY <1>13 DEF WriteThrough, TypeInv, TypeOK, NoJob
  <2>2. Exp(job.by) \in Experiments
    BY <2>1, StoreAssumption DEF Exp, Puts
  <2>3. PICK blob \in KvReads :
          LET next == Merge(blob, Exp(job.by), Published(job))
          IN  IF next = blob THEN UNCHANGED kvVars ELSE KvPut(next)
    BY <1>13 DEF WriteThrough
  <2>4. blob \in Blobs /\ blob \in KvReads
    BY DEF KvReads, KvReads, TypeInv, TypeOK
  <2> DEFINE next == Merge(blob, Exp(job.by), Published(job))
  <2>5. next \in Blobs
    BY <2>2, <2>4 DEF Merge, Published, Blobs, TypeInv, TypeOK
  <2>6. \A x \in Experiments : next[x] # Absent => x \in Exposed
    BY <2>2, <2>4 DEF Merge, Published, Blobs, ExposedFirst
  <2>7. (\A b \in KvReads : \A x \in Experiments : b[x] # Absent => x \in Exposed)'
    <3>1. CASE UNCHANGED kvVars
      BY <1>0, <3>1 DEF ExposedFirst, KvReads, kvVars
    <3>2. CASE KvPut(next)
      BY <1>0, <2>5, <2>6, <3>2, KvPutExposed
    <3>3. QED  BY <2>3, <3>1, <3>2
  <2>8. UNCHANGED <<evaluationVars, writerVars, puts>>
    BY <1>13 DEF WriteThrough
  <2>9. \A r \in Requests : pc'[r] = pc[r] \/ pc'[r] = "validate"
    BY <1>13 DEF WriteThrough, Answer, Goto, callVars, TypeInv, TypeOK
  <2>10. QED
    BY <1>0, <2>7, <2>8, <2>9 DEF ExposedFirst, evaluationVars, writerVars, Exp
<1>14. CASE WriteThroughFails
  <2>1. UNCHANGED <<evaluationVars, writerVars, puts, kvVars>>
    BY <1>14 DEF WriteThroughFails
  <2>2. \A r \in Requests : pc'[r] = pc[r] \/ pc'[r] = "failed"
    BY <1>14 DEF WriteThroughFails, Answer, Goto, callVars, TypeInv, TypeOK
  <2>3. QED
    BY <1>0, <2>1, <2>2 DEF ExposedFirst, evaluationVars, writerVars, kvVars, KvReads, Exp
<1>15. ASSUME NEW c \in 1..now, DeleteEntity(c) PROVE ExposedFirst'
  <2>1. UNCHANGED <<callVars, evaluationVars, puts, kvVars>>
    BY <1>15 DEF DeleteEntity
  <2>2. \A x \in Experiments : winner'[x] # Absent => winner[x] # Absent
    BY <1>15 DEF DeleteEntity, Without, Absent
  <2>3. QED
    BY <1>0, <2>1, <2>2 DEF ExposedFirst, callVars, evaluationVars, kvVars, KvReads, Exp
<1>16. CASE Rewrite
  <2>1. UNCHANGED <<callVars, evaluationVars, puts, writerVars>>
    BY <1>16 DEF Rewrite
  <2>2. (\A b \in KvReads : \A x \in Experiments : b[x] # Absent => x \in Exposed)'
    BY <1>0, <1>16, KvPutExposed DEF Rewrite, Rewritten, ExposedFirst, TypeInv, TypeOK
  <2>3. QED
    BY <1>0, <2>1, <2>2 DEF ExposedFirst, callVars, evaluationVars, writerVars, Exp
<1>17. CASE ResetWriter
  <2>1. UNCHANGED <<callVars, evaluationVars, puts, kvVars>>
    BY <1>17 DEF ResetWriter
  <2>2. \A x \in Experiments : winner'[x] = Absent
    BY <1>17 DEF ResetWriter, Empty
  <2>3. QED
    BY <1>0, <2>1, <2>2 DEF ExposedFirst, callVars, evaluationVars, kvVars, KvReads, Exp
<1>18. CASE ProveReset
  <2>1. UNCHANGED <<callVars, evaluationVars, puts, writerVars>>
    BY <1>18 DEF ProveReset
  <2>2. Empty \in Blobs /\ \A x \in Experiments : Empty[x] = Absent
    BY StoreAssumption DEF Empty, Blobs, Absent
  <2>3. (\A b \in KvReads : \A x \in Experiments : b[x] # Absent => x \in Exposed)'
    BY <1>0, <1>18, <2>2, KvPutExposed DEF ProveReset
  <2>4. QED
    BY <1>0, <2>1, <2>3 DEF ExposedFirst, callVars, evaluationVars, writerVars, Exp
<1>19. CASE RewriteFails \/ BlockIdentity \/ FreezeInventory \/ MarkPurged \/ KvPropagates
            \/ StartRun \/ Tick \/ UNCHANGED vars
  <2>1. UNCHANGED <<callVars, evaluationVars, puts, writerVars, kv>> /\ kvOld' \subseteq kvOld
    BY <1>19 DEF RewriteFails, BlockIdentity, FreezeInventory, MarkPurged, KvPropagates, StartRun,
       Tick, vars, kvVars
  <2>2. QED
    BY <1>0, <2>1 DEF ExposedFirst, callVars, evaluationVars, writerVars, KvReads, Exp
<1>20. QED
  BY <1>1, <1>3, <1>4, <1>5, <1>6, <1>7, <1>8, <1>9, <1>11, <1>12, <1>13, <1>14, <1>15, <1>16,
     <1>17, <1>18, <1>19 DEF Next, EvaluationStep, WriterTakes, ResetStep

LEMMA StepRefines ==
  TypeInv /\ ExposedFirst /\ [Next]_vars => [Promise!Next]_<<winner, Exposed>>
<1> SUFFICES ASSUME TypeInv, ExposedFirst, [Next]_vars
             PROVE  Promise!Next \/ (winner' = winner /\ Exposed' = Exposed)
  BY DEF Promise!Next
<1>1. ASSUME NEW q \in Requests, Commit(q) PROVE Promise!Next \/ (winner' = winner /\ Exposed' = Exposed)
  <2>1. winner' = winner
    BY <1>1 DEF Commit, writerVars
  <2>2. CASE SealCommit(q)
    <3>1. Exposed' = Exposed \cup {Exp(q)}
      BY <1>1, <2>2, SealExposes
    <3>2. Exp(q) \in Experiments
      BY StoreAssumption DEF Exp
    <3>3. QED  BY <2>1, <3>1, <3>2 DEF Promise!Next, Promise!Expose
  <2>3. CASE sealed' = sealed
    BY <2>1, <2>3 DEF Exposed
  <2>4. QED  BY <1>1, <2>2, <2>3 DEF Commit
<1>2. ASSUME NEW p \in puts, WriterPuts(p) PROVE Promise!Next \/ (winner' = winner /\ Exposed' = Exposed)
  <2>1. Exposed' = Exposed
    BY <1>2 DEF WriterPuts, evaluationVars, Exposed
  <2>2. Exp(p.by) \in Experiments /\ Exp(p.by) \in Exposed /\ p.run \in Runs
    BY StoreAssumption DEF Exp, TypeInv, TypeOK, Puts, ExposedFirst
  <2>3. CASE winner[Exp(p.by)] = Absent
    <3>1. Promise!Touch(Exp(p.by), p.run)
      BY <1>2, <2>1, <2>2, <2>3 DEF WriterPuts, Promise!Touch, Promise!Absent, Absent
    <3>2. QED  BY <2>2, <3>1 DEF Promise!Next
  <2>4. CASE winner[Exp(p.by)] # Absent
    BY <1>2, <2>1, <2>4 DEF WriterPuts
  <2>5. QED  BY <2>3, <2>4
<1>3. ASSUME NEW gone \in SUBSET Experiments, winner' = Without(winner, gone), sealed' = sealed
      PROVE  Promise!Next
  BY <1>3 DEF Promise!Next, Promise!Forget, Promise!Absent, Without, Exposed
<1>4. ASSUME NEW c \in 1..now, DeleteEntity(c) PROVE Promise!Next
  BY <1>3, <1>4 DEF DeleteEntity, evaluationVars
<1>5. CASE ResetWriter
  <2>1. winner' = Without(winner, Experiments) /\ sealed' = sealed
    BY <1>5 DEF ResetWriter, Without, Empty, Absent, evaluationVars
  <2>2. QED  BY <1>3, <2>1
<1>6. CASE winner' = winner /\ sealed' = sealed
  BY <1>6 DEF Exposed
<1>7. \/ \E q \in Requests : Commit(q)
      \/ \E p \in puts : WriterPuts(p)
      \/ \E c \in 1..now : DeleteEntity(c)
      \/ ResetWriter
      \/ winner' = winner /\ sealed' = sealed
  BY DEF Next, EvaluationStep, Start, Read, EvaluateWith, ReadSwallowsFailure, PutReads,
     AdmitAtApp, Validate, WriterTakes, WriterRefuses, WriteThrough, WriteThroughFails,
     AppRestarts, Rewrite, RewriteFails, ResetStep, BlockIdentity, FreezeInventory, MarkPurged,
     ProveReset, KvPropagates, StartRun, Tick, evaluationVars, writerVars, vars
<1>8. QED  BY <1>1, <1>2, <1>4, <1>5, <1>6, <1>7

(***************************************************************************)
(* The Assignment Store implements FirstTouch: AssignmentStoreWriter.put   *)
(* writes a holdover once, after an Exposure of its Experiment, and only   *)
(* deleteEntity and resetApp take it away.                                 *)
(***************************************************************************)
THEOREM StoreImplementsFirstTouch == Spec => ImplementsFirstTouch
<1>1. Init => Promise!Init
  BY DEF Init, Promise!Init, Promise!Absent, Empty, Exposed, Absent
<1>2. Init => TypeInv /\ ExposedFirst
  BY InitType, InitExposed
<1>3. TypeInv /\ ExposedFirst /\ [Next]_vars => (TypeInv /\ ExposedFirst)'
  BY NextType, NextExposed
<1>4. QED  BY <1>1, <1>2, <1>3, StepRefines, PTL DEF Spec, ImplementsFirstTouch, Promise!Spec

(***************************************************************************)
(* The shapes of the variables hold in every state of the Assignment Store *)
(* (put, deleteEntity and resetApp of assignment-store-writer.ts, with the *)
(* evaluations that call them).                                            *)
(***************************************************************************)
THEOREM StoreTypeOK == Spec => []TypeOK
<1>1. TypeInv => TypeOK
  BY DEF TypeInv
<1>2. QED  BY <1>1, InitType, NextType, PTL DEF Spec

----------------------------------------------------------------------------
(* What was deleted stays deleted.                                         *)

DeletionInv ==
  /\ proof <= cutoff
  /\ \A x \in Experiments : winner[x] # Absent => wonAt[x] > cutoff

ResetInv ==
  /\ resetPc # "idle" => frozen
  /\ resetPc = "writer" => fenced
  /\ job.kind = "reset" => fenced /\ inventory /\ resetPc = "frozen"
  /\ fenced => frozen /\ winner = Empty /\ job.kind # "put"
  /\ ~inventory => winner = Empty /\ job.kind # "put" /\ (fenced \/ puts = {})
  /\ resetProof => resetPc = "proved" /\ ~inventory /\ kv = Empty

KvInv ==
  /\ KvMatchesWinner
  /\ job.kind = "put" => winner[Exp(job.by)] # Absent

LEMMA InitStore == Init => DeletionInv /\ ResetInv /\ KvInv
  BY DEF Init, DeletionInv, ResetInv, KvInv, KvMatchesWinner, KvReads, Empty, Absent, NoJob

LEMMA NextDeletion == TypeInv /\ DeletionInv /\ [Next]_vars => DeletionInv'
<1> SUFFICES ASSUME TypeInv, DeletionInv, [Next]_vars PROVE DeletionInv'
  OBVIOUS
<1>1. ASSUME NEW p \in puts, WriterPuts(p) PROVE DeletionInv'
  BY <1>1, StoreAssumption DEF WriterPuts, Refused, DeletionInv, historyVars, TypeInv, TypeOK,
     Puts, Blobs, Exp
<1>2. ASSUME NEW c \in 1..now, DeleteEntity(c) PROVE DeletionInv'
  BY <1>2, StoreAssumption DEF DeleteEntity, Without, DeletionInv, Absent, TypeInv, TypeOK, Blobs
<1>3. CASE Rewrite
  BY <1>3 DEF Rewrite, DeletionInv, writerVars, TypeInv, TypeOK
<1>4. CASE ResetWriter
  BY <1>4 DEF ResetWriter, DeletionInv, Empty, TypeInv, TypeOK
<1>5. CASE UNCHANGED <<writerVars, proof>>
  BY <1>5 DEF DeletionInv, writerVars
<1>6. \/ \E p \in puts : WriterPuts(p)
      \/ \E c \in 1..now : DeleteEntity(c)
      \/ Rewrite \/ ResetWriter
      \/ UNCHANGED <<writerVars, proof>>
  BY DEF Next, EvaluationStep, Start, Read, EvaluateWith, ReadSwallowsFailure, Commit, PutReads,
     AdmitAtApp, Validate, WriterTakes, WriterRefuses, WriteThrough, WriteThroughFails,
     AppRestarts, RewriteFails, ResetStep, BlockIdentity, FreezeInventory, MarkPurged,
     ProveReset, KvPropagates, StartRun, Tick, historyVars, vars
<1>7. QED  BY <1>1, <1>2, <1>3, <1>4, <1>5, <1>6

LEMMA NextReset == TypeInv /\ ResetInv /\ [Next]_vars => ResetInv'
<1> SUFFICES ASSUME TypeInv, ResetInv, [Next]_vars PROVE ResetInv'
  OBVIOUS
<1> USE DEF TypeInv, TypeOK, ResetInv
<1>1. ASSUME NEW q \in Requests, AdmitAtApp(q) PROVE ResetInv'
  BY <1>1 DEF AdmitAtApp, writerVars, kvVars, resetVars
<1>2. ASSUME NEW p \in puts, WriterRefuses(p) PROVE ResetInv'
  BY <1>2 DEF WriterRefuses, appVars, writerVars, kvVars, resetVars
<1>3. ASSUME NEW p \in puts, WriterPuts(p) PROVE ResetInv'
  BY <1>3 DEF WriterPuts, Refused, appVars, kvVars, resetVars, Puts
<1>4. CASE WriteThrough
  BY <1>4 DEF WriteThrough, appVars, writerVars, resetVars, NoJob
<1>5. CASE WriteThroughFails
  BY <1>5 DEF WriteThroughFails, appVars, writerVars, kvVars, resetVars, NoJob
<1>6. ASSUME NEW c \in 1..now, DeleteEntity(c) PROVE ResetInv'
  <2>1. winner = Empty => winner' = Empty
    BY <1>6 DEF DeleteEntity, Without, Empty, Absent
  <2>2. job' = [kind |-> "delete"]
        /\ UNCHANGED <<appVars, puts, fenced, kvVars, resetVars>>
    BY <1>6 DEF DeleteEntity
  <2>3. QED  BY <2>1, <2>2 DEF appVars, kvVars, resetVars
<1>7. CASE Rewrite
  BY <1>7 DEF Rewrite, Rewritten, KvPut, kvVars, appVars, writerVars, NoJob
<1>8. CASE RewriteFails
  BY <1>8 DEF RewriteFails, appVars, writerVars, kvVars, resetVars, NoJob
<1>9. CASE FreezeInventory
  BY <1>9 DEF FreezeInventory, writerVars, kvVars
<1>10. CASE ResetWriter
  BY <1>10 DEF ResetWriter, appVars, kvVars, resetVars, NoJob
<1>11. CASE MarkPurged
  BY <1>11 DEF MarkPurged, writerVars, kvVars
<1>12. CASE ProveReset
  BY <1>12 DEF ProveReset, KvPut, kvVars, appVars, writerVars
<1>13. CASE UNCHANGED <<appVars, puts, job, writerVars, kv, resetPc, resetProof>>
  BY <1>13 DEF appVars, writerVars
<1>14. \/ \E q \in Requests : AdmitAtApp(q)
       \/ \E p \in puts : WriterRefuses(p) \/ WriterPuts(p)
       \/ \E c \in 1..now : DeleteEntity(c)
       \/ WriteThrough \/ WriteThroughFails \/ Rewrite \/ RewriteFails
       \/ FreezeInventory \/ ResetWriter \/ MarkPurged \/ ProveReset
       \/ UNCHANGED <<appVars, puts, job, writerVars, kv, resetPc, resetProof>>
  BY DEF Next, EvaluationStep, Start, Read, EvaluateWith, ReadSwallowsFailure, Commit, PutReads,
     Validate, WriterTakes, AppRestarts, ResetStep, BlockIdentity, KvPropagates, StartRun, Tick,
     kvVars, resetVars, vars
<1>15. QED
  BY <1>1, <1>2, <1>3, <1>4, <1>5, <1>6, <1>7, <1>8, <1>9, <1>10, <1>11, <1>12, <1>13, <1>14

\* A winner that is taken away is recorded, so what the blobs hold of it is accounted for.
LEMMA RemovalKv ==
  ASSUME TypeInv, KvInv, NEW gone \in SUBSET Experiments, UNCHANGED kvVars,
         winner' = Without(winner, gone), removed' = removed \cup WinnersOf(gone)
  PROVE  KvMatchesWinner'
<1> SUFFICES ASSUME NEW blob \in KvReads, NEW x \in Experiments, blob[x] # Absent
             PROVE  blob[x] = winner'[x] \/ <<x, blob[x]>> \in removed'
  BY DEF KvMatchesWinner, KvReads, kvVars
<1>1. blob[x] = winner[x] \/ <<x, blob[x]>> \in removed
  BY DEF KvInv, KvMatchesWinner
<1>2. CASE x \notin gone
  BY <1>1, <1>2 DEF Without
<1>3. CASE x \in gone /\ blob[x] = winner[x]
  BY <1>3 DEF WinnersOf
<1>4. QED  BY <1>1, <1>2, <1>3

\* A blob that agrees with the winners may be put.
LEMMA KvPutMatches ==
  ASSUME KvInv, NEW blob \in Blobs, KvPut(blob), UNCHANGED <<winner, removed>>,
         \A x \in Experiments : blob[x] \in {Absent, winner[x]} \/ <<x, blob[x]>> \in removed
  PROVE  KvMatchesWinner'
  BY DEF KvInv, KvMatchesWinner, KvPut, KvReads, kvVars

LEMMA NextKv == TypeInv /\ KvInv /\ [Next]_vars => KvInv'
<1> SUFFICES ASSUME TypeInv, KvInv, [Next]_vars PROVE KvInv'
  OBVIOUS
<1> USE StoreAssumption DEF TypeInv, TypeOK, KvInv
<1>1. ASSUME NEW p \in puts, WriterPuts(p) PROVE KvInv'
  <2>1. Exp(p.by) \in Experiments /\ p.run # Absent
    BY DEF Exp, Puts, Runs, Absent
  <2>2. winner'[Exp(p.by)] # Absent /\ job' = p
    BY <1>1, <2>1 DEF WriterPuts, Blobs
  <2>3. \A x \in Experiments : winner[x] # Absent => winner'[x] = winner[x]
    BY <1>1 DEF WriterPuts, Blobs
  <2>4. KvReads' = KvReads /\ removed' = removed
    BY <1>1 DEF WriterPuts, kvVars, historyVars, KvReads
  <2>5. KvMatchesWinner'
    BY <2>3, <2>4 DEF KvMatchesWinner
  <2>6. QED  BY <2>2, <2>5 DEF Exp
<1>2. CASE WriteThrough
  <2>1. job \in Puts /\ job' = NoJob /\ UNCHANGED <<winner, removed>>
    BY <1>2 DEF WriteThrough, NoJob, writerVars, historyVars
  <2>2. PICK blob \in KvReads :
          LET next == Merge(blob, Exp(job.by), Published(job))
          IN  IF next = blob THEN UNCHANGED kvVars ELSE KvPut(next)
    BY <1>2 DEF WriteThrough
  <2>3. blob \in Blobs
    BY DEF KvReads
  <2>4. Merge(blob, Exp(job.by), Published(job)) \in Blobs
    BY <2>1, <2>3 DEF Merge, Published, Exp, Puts, Blobs
  <2>5. \A x \in Experiments :
          LET entry == Merge(blob, Exp(job.by), Published(job))[x]
          IN  entry \in {Absent, winner[x]} \/ <<x, entry>> \in removed
    BY <2>3 DEF Merge, Published, KvMatchesWinner, Blobs
  <2>6. KvMatchesWinner'
    BY <2>1, <2>2, <2>4, <2>5, KvPutMatches DEF KvMatchesWinner, KvReads, kvVars
  <2>7. QED  BY <2>1, <2>6 DEF NoJob
<1>3. ASSUME NEW c \in 1..now, DeleteEntity(c) PROVE KvInv'
  <2>1. PICK gone : /\ gone = {x \in Experiments : wonAt[x] <= cutoff'}
                    /\ winner' = Without(winner, gone)
                    /\ removed' = removed \cup WinnersOf(gone)
    BY <1>3 DEF DeleteEntity
  <2>2. gone \in SUBSET Experiments
    BY <2>1
  <2>3. UNCHANGED kvVars
    BY <1>3 DEF DeleteEntity
  <2>4. KvMatchesWinner'
    BY <2>1, <2>2, <2>3, RemovalKv
  <2>5. QED  BY <1>3, <2>4 DEF DeleteEntity
<1>4. CASE ResetWriter
  <2>1. winner' = Without(winner, Experiments)
    BY <1>4 DEF ResetWriter, Without, Empty, Absent
  <2>2. KvMatchesWinner'
    BY <1>4, <2>1, RemovalKv DEF ResetWriter
  <2>3. QED  BY <1>4, <2>2 DEF ResetWriter
<1>5. CASE Rewrite
  <2>1. UNCHANGED <<winner, removed>> /\ KvPut(winner) /\ job' = NoJob
    BY <1>5 DEF Rewrite, Rewritten, writerVars
  <2>2. KvMatchesWinner'
    BY <2>1, KvPutMatches
  <2>3. QED  BY <2>1, <2>2 DEF NoJob
<1>6. CASE ProveReset
  <2>1. UNCHANGED <<winner, removed, job>> /\ KvPut(Empty)
    BY <1>6 DEF ProveReset, writerVars, historyVars
  <2>2. Empty \in Blobs /\ \A x \in Experiments : Empty[x] = Absent
    BY DEF Empty, Blobs, Absent
  <2>3. KvMatchesWinner'
    BY <2>1, <2>2, KvPutMatches
  <2>4. QED  BY <2>1, <2>3 DEF Exp
<1>7. CASE KvReads' \subseteq KvReads /\ UNCHANGED <<winner, removed>>
           /\ (job' = NoJob \/ job' = job)
  BY <1>7 DEF KvMatchesWinner, NoJob, Exp
<1>8. \/ \E p \in puts : WriterPuts(p)
      \/ WriteThrough \/ (\E c \in 1..now : DeleteEntity(c)) \/ ResetWriter \/ Rewrite
      \/ ProveReset
      \/ (UNCHANGED kvVars \/ KvPropagates) /\ UNCHANGED <<winner, removed>>
         /\ (job' = NoJob \/ job' = job)
  BY DEF Next, EvaluationStep, Start, Read, EvaluateWith, ReadSwallowsFailure, Commit, PutReads,
     AdmitAtApp, Validate, WriterTakes, WriterRefuses, WriteThroughFails, AppRestarts,
     RewriteFails, ResetStep, BlockIdentity, FreezeInventory, MarkPurged, StartRun, Tick,
     KvPropagates, writerVars, historyVars, vars
<1>9. UNCHANGED kvVars \/ KvPropagates => KvReads' \subseteq KvReads
  BY DEF KvReads, kvVars, KvPropagates
<1>10. QED  BY <1>1, <1>2, <1>3, <1>4, <1>5, <1>6, <1>7, <1>8, <1>9

StoreInv == TypeInv /\ DeletionInv /\ ResetInv /\ KvInv

LEMMA StoreInvariant == Spec => []StoreInv
<1>1. Init => StoreInv
  BY InitType, InitStore DEF StoreInv
<1>2. StoreInv /\ [Next]_vars => StoreInv'
  BY NextType, NextDeletion, NextReset, NextKv DEF StoreInv
<1>3. QED  BY <1>1, <1>2, PTL DEF Spec

(***************************************************************************)
(* Once deleteEntity answered with its proof no winner as old as the       *)
(* cutoff exists, and once the App reset is proved neither the writer nor  *)
(* the blob holds anything, whatever puts are still on their way.          *)
(***************************************************************************)
THEOREM StoreProvedStaysDeleted == Spec => []ProvedStaysDeleted
<1>1. StoreInv => ProvedStaysDeleted
  BY DEF StoreInv, DeletionInv, ResetInv, TypeInv, TypeOK, ProvedStaysDeleted
<1>2. QED  BY <1>1, StoreInvariant, PTL

(***************************************************************************)
(* Whatever blob a reader of Workers KV is given, an entry in it is the    *)
(* durable winner or was until deleteEntity or resetApp removed it: put    *)
(* publishes the stored winner, and a writeThrough that merges into an old *)
(* blob can lose an entry but never publish the loser of a race.           *)
(***************************************************************************)
THEOREM StoreKvMatchesWinner == Spec => []KvMatchesWinner
<1>1. StoreInv => KvMatchesWinner
  BY DEF StoreInv, KvInv
<1>2. QED  BY <1>1, StoreInvariant, PTL
=============================================================================
