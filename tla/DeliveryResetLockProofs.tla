---------------------- MODULE DeliveryResetLockProofs ----------------------
(***************************************************************************)
(* The delivery/reset lock is correct for every set of shared requests and *)
(* every set of exclusive requests, of any size.                           *)
(***************************************************************************)
EXTENDS DeliveryResetLock, FiniteSetTheorems, TLAPS

\* The readers set holds exactly the admitted shared requests.
ReadersExact == readers = {r \in Shared : pc[r] \in {"running", "settled"}}

\* The writers counter counts exactly the claimed exclusive requests.
WritersExact == IsFiniteSet(Claimed) /\ writers = Cardinality(Claimed)

\* Promises are numbered by the exclusive() call that created them.
TicketsExact ==
  /\ \A w \in Exclusive : ticket[w] <= writerQueue /\ (ticket[w] = 0 <=> pc[w] = "idle")
  /\ \A v, w \in Exclusive : ticket[v] = ticket[w] /\ ticket[v] # 0 => v = w

\* A promise other than the first is resolved by the finally block that owns it.
ResolvedByOwner ==
  \A n \in resolved : n = 0 \/ \E w \in Exclusive : ticket[w] = n /\ pc[w] = "done"

\* A running reset has no reader left.
ResetDrained == \A w \in Exclusive : pc[w] = "running" => readers = {}

IInv ==
  /\ TypeOK
  /\ ReadersExact
  /\ WritersExact
  /\ TicketsExact
  /\ ResolvedByOwner
  /\ WritersInOrder
  /\ ResetDrained

\* A claimed writer keeps the counter above zero, so that no reader enters.
LEMMA NoClaimWhenZero ==
  ASSUME WritersExact, writers = 0
  PROVE  Claimed = {}
<1>1. IsFiniteSet(Claimed) /\ Cardinality(Claimed) = 0
  BY DEF WritersExact
<1> QED BY <1>1, FS_EmptySet

\* The counter follows the claimed set when it gains or loses one request.
LEMMA CounterFollows ==
  ASSUME TypeOK, WritersExact, NEW w \in Exclusive
  PROVE  /\ w \notin Claimed =>
              IsFiniteSet(Claimed \cup {w}) /\ Cardinality(Claimed \cup {w}) = writers + 1
         /\ w \in Claimed =>
              IsFiniteSet(Claimed \ {w}) /\ Cardinality(Claimed \ {w}) = writers - 1
<1>1. IsFiniteSet(Claimed) /\ writers = Cardinality(Claimed)
  BY DEF WritersExact
<1>2. CASE w \notin Claimed
  BY <1>1, <1>2, FS_AddElement
<1>3. CASE w \in Claimed
  BY <1>1, <1>3, FS_RemoveElement
<1> QED BY <1>2, <1>3

LEMMA InitIInv == Init => IInv
<1> SUFFICES ASSUME Init PROVE IInv
  OBVIOUS
<1>1. TypeOK
  BY RequestsAssumption DEF Init, TypeOK, Requests, SharedPc, ExclusivePc
<1>2. Claimed = {}
  BY DEF Init, Claimed, Requests
<1>3. WritersExact
  BY <1>2, FS_EmptySet DEF WritersExact, Init
<1>4. ReadersExact /\ TicketsExact /\ ResolvedByOwner /\ WritersInOrder /\ ResetDrained
  BY DEF Init, ReadersExact, TicketsExact, ResolvedByOwner, WritersInOrder, ResetDrained,
         Requests
<1> QED BY <1>1, <1>3, <1>4 DEF IInv

\* The step of a shared request leaves the exclusive requests' state alone.
LEMMA SharedStepIInv ==
  ASSUME IInv, NEW r \in Shared, ArriveShared(r) \/ SharedStep(r)
  PROVE  IInv'
<1> USE RequestsAssumption
<1>0. /\ TypeOK /\ ReadersExact /\ WritersExact /\ TicketsExact /\ ResolvedByOwner
      /\ WritersInOrder /\ ResetDrained
  BY DEF IInv
<1>1. /\ UNCHANGED <<writers, writerQueue, resolved, ticket, draining>>
      /\ \A w \in Exclusive : pc'[w] = pc[w]
  BY <1>0 DEF TypeOK, Requests, ArriveShared, SharedStep, ResumeShared, SettleShared,
              LeaveShared, EnterOrWait
<1>2. TypeOK'
  BY <1>0, <1>1 DEF TypeOK, Requests, SharedPc, ArriveShared, SharedStep, ResumeShared,
              SettleShared, LeaveShared, EnterOrWait
<1>3. ReadersExact'
  BY <1>0 DEF TypeOK, Requests, ReadersExact, ArriveShared, SharedStep, ResumeShared,
              SettleShared, LeaveShared, EnterOrWait
<1>4. WritersExact'
  <2>1. Claimed' = Claimed
    BY <1>1 DEF Claimed
  <2> QED BY <1>0, <1>1, <2>1 DEF WritersExact
<1>5. TicketsExact' /\ ResolvedByOwner' /\ WritersInOrder'
  BY <1>0, <1>1 DEF TicketsExact, ResolvedByOwner, WritersInOrder
<1>6. ResetDrained'
  <2>1. CASE writers = 0
    <3>1. \A w \in Exclusive : pc[w] # "running"
      BY <1>0, <2>1, NoClaimWhenZero DEF Claimed
    <3> QED BY <1>1, <3>1 DEF ResetDrained
  <2>2. CASE writers # 0
    <3>1. readers' \subseteq readers
      BY <1>0, <2>2 DEF TypeOK, ArriveShared, SharedStep, ResumeShared, SettleShared,
                        LeaveShared, EnterOrWait
    <3> QED BY <1>0, <1>1, <3>1 DEF ResetDrained
  <2> QED BY <2>1, <2>2
<1> QED BY <1>2, <1>3, <1>4, <1>5, <1>6 DEF IInv

LEMMA ArriveExclusiveIInv ==
  ASSUME IInv, NEW w \in Exclusive, ArriveExclusive(w)
  PROVE  IInv'
<1> USE RequestsAssumption
<1>0. /\ TypeOK /\ ReadersExact /\ WritersExact /\ TicketsExact /\ ResolvedByOwner
      /\ WritersInOrder /\ ResetDrained
  BY DEF IInv
<1>1. /\ pc[w] = "idle" /\ ticket[w] = 0
      /\ pc' = [pc EXCEPT ![w] = "queued"]
      /\ ticket' = [ticket EXCEPT ![w] = writerQueue + 1]
      /\ writerQueue' = writerQueue + 1
      /\ UNCHANGED <<readers, resolved>>
  BY <1>0 DEF ArriveExclusive, TicketsExact
<1>2. TypeOK'
  BY <1>0 DEF TypeOK, Requests, ExclusivePc, ArriveExclusive
<1>3. ReadersExact' /\ ResetDrained'
  BY <1>0, <1>1 DEF TypeOK, Requests, ReadersExact, ResetDrained
<1>4. WritersExact'
  <2>1. w \notin Claimed /\ Claimed' = Claimed \cup {w}
    BY <1>0, <1>1 DEF TypeOK, Requests, Claimed
  <2>2. writers' = writers + 1
    BY DEF ArriveExclusive
  <2> QED BY <1>0, <2>1, <2>2, CounterFollows DEF WritersExact
<1>5. TicketsExact'
  BY <1>0, <1>1 DEF TypeOK, Requests, TicketsExact
<1>6. ResolvedByOwner'
  <2> SUFFICES ASSUME NEW n \in resolved, n # 0
               PROVE  \E v \in Exclusive : ticket'[v] = n /\ pc'[v] = "done"
    BY <1>1 DEF ResolvedByOwner
  <2>1. PICK v \in Exclusive : ticket[v] = n /\ pc[v] = "done"
    BY <1>0 DEF ResolvedByOwner
  <2>2. v # w
    BY <1>1, <2>1
  <2> QED BY <1>0, <1>1, <2>1, <2>2 DEF TypeOK, Requests
<1>7. WritersInOrder'
  BY <1>0, <1>1 DEF TypeOK, Requests, TicketsExact, WritersInOrder
<1> QED BY <1>2, <1>3, <1>4, <1>5, <1>6, <1>7 DEF IInv

LEMMA ExclusiveStepIInv ==
  ASSUME IInv, NEW w \in Exclusive, ExclusiveStep(w)
  PROVE  IInv'
<1> USE RequestsAssumption
<1>0. /\ TypeOK /\ ReadersExact /\ WritersExact /\ TicketsExact /\ ResolvedByOwner
      /\ WritersInOrder /\ ResetDrained
  BY DEF IInv
<1>1. CASE ResumeQueued(w) \/ ResumeDraining(w)
  <2>1. /\ UNCHANGED <<writers, writerQueue, readers, resolved, ticket, awaiting>>
        /\ pc[w] \in {"queued", "draining"}
        /\ \/ pc' = [pc EXCEPT ![w] = "draining"] /\ readers # {}
           \/ pc' = [pc EXCEPT ![w] = "running"] /\ readers = {}
    BY <1>1 DEF ResumeQueued, ResumeDraining, DrainOrRun
  <2>2. TypeOK'
    BY <1>0, <1>1 DEF TypeOK, Requests, ExclusivePc, ResumeQueued, ResumeDraining, DrainOrRun
  <2>3. ReadersExact' /\ ResetDrained'
    BY <1>0, <2>1 DEF TypeOK, Requests, ReadersExact, ResetDrained
  <2>4. WritersExact'
    <3>1. Claimed' = Claimed
      BY <1>0, <2>1 DEF TypeOK, Requests, Claimed
    <3> QED BY <1>0, <2>1, <3>1 DEF WritersExact
  <2>5. TicketsExact' /\ ResolvedByOwner'
    BY <1>0, <2>1 DEF TypeOK, Requests, TicketsExact, ResolvedByOwner
  <2>6. WritersInOrder'
    <3>1. \A v \in Exclusive : 0 < ticket[v] /\ ticket[v] < ticket[w] => pc[v] = "done"
      <4>1. CASE ResumeDraining(w)
        BY <1>0, <4>1 DEF WritersInOrder, ResumeDraining
      <4>2. CASE ResumeQueued(w)
        <5> SUFFICES ASSUME NEW v \in Exclusive, 0 < ticket[v], ticket[v] < ticket[w]
                     PROVE  pc[v] = "done"
          OBVIOUS
        <5>1. PICK u \in Exclusive : ticket[u] = ticket[w] - 1 /\ pc[u] = "done"
          BY <1>0, <4>2 DEF ResumeQueued, ResolvedByOwner, TypeOK
        <5>2. CASE v = u
          BY <5>1, <5>2
        <5>3. CASE v # u
          BY <1>0, <5>1, <5>3 DEF TypeOK, TicketsExact, WritersInOrder
        <5> QED BY <5>2, <5>3
      <4> QED BY <1>1, <4>1, <4>2
    <3>2. \A v \in Exclusive : v # w => pc'[v] = pc[v]
      BY <1>0, <2>1 DEF TypeOK, Requests
    <3>3. pc[w] # "done" /\ pc'[w] # "done"
      BY <1>0, <2>1 DEF TypeOK, Requests
    <3> QED BY <1>0, <2>1, <3>1, <3>2, <3>3 DEF TypeOK, WritersInOrder
  <2> QED BY <2>2, <2>3, <2>4, <2>5, <2>6 DEF IInv
<1>2. CASE LeaveExclusive(w)
  <2>1. /\ pc[w] = "running"
        /\ writers' = writers - 1
        /\ resolved' = resolved \cup {ticket[w]}
        /\ pc' = [pc EXCEPT ![w] = "done"]
        /\ UNCHANGED <<writerQueue, readers, ticket, awaiting, draining>>
    BY <1>2 DEF LeaveExclusive
  <2>2. WritersExact'
    <3>1. w \in Claimed /\ Claimed' = Claimed \ {w}
      BY <1>0, <2>1 DEF TypeOK, Requests, Claimed
    <3> QED BY <1>0, <2>1, <3>1, CounterFollows DEF WritersExact
  <2>3. TypeOK'
    <3>1. writers' \in Nat
      BY <2>2, FS_CardinalityType DEF WritersExact
    <3> QED BY <1>0, <2>1, <3>1 DEF TypeOK, Requests, ExclusivePc
  <2>4. ReadersExact' /\ ResetDrained'
    BY <1>0, <2>1 DEF TypeOK, Requests, ReadersExact, ResetDrained
  <2>5. TicketsExact' /\ WritersInOrder'
    BY <1>0, <2>1 DEF TypeOK, Requests, TicketsExact, WritersInOrder
  <2>6. ResolvedByOwner'
    BY <1>0, <2>1 DEF TypeOK, Requests, ResolvedByOwner
  <2> QED BY <2>2, <2>3, <2>4, <2>5, <2>6 DEF IInv
<1> QED BY <1>1, <1>2 DEF ExclusiveStep

LEMMA NextIInv == IInv /\ [Next]_vars => IInv'
<1> SUFFICES ASSUME IInv, [Next]_vars PROVE IInv'
  OBVIOUS
<1>1. CASE \E r \in Shared : ArriveShared(r) \/ SharedStep(r)
  BY <1>1, SharedStepIInv
<1>2. CASE \E w \in Exclusive : ArriveExclusive(w) \/ ExclusiveStep(w)
  BY <1>2, ArriveExclusiveIInv, ExclusiveStepIInv
<1>3. CASE UNCHANGED vars
  <2>1. Claimed' = Claimed
    BY <1>3 DEF Claimed, vars
  <2> QED BY <1>3, <2>1 DEF vars, IInv, TypeOK, ReadersExact, WritersExact, TicketsExact,
              ResolvedByOwner, WritersInOrder, ResetDrained
<1> QED BY <1>1, <1>2, <1>3 DEF Next

\* The fields of the lock keep their shapes; in particular writers never goes
\* below zero, which is what the finally block of exclusive() relies on.
THEOREM LockTypeOK == Spec => []TypeOK
<1>1. IInv => TypeOK
  BY DEF IInv
<1> QED BY <1>1, InitIInv, NextIInv, PTL DEF Spec

\* A reset purges alone, whatever the number of deliveries and resets.
THEOREM LockRunsAlone == Spec => []RunsAlone
<1>1. IInv => RunsAlone
  <2> SUFFICES ASSUME IInv, NEW w \in Exclusive, pc[w] = "running"
               PROVE  Running = {w} /\ readers = {}
    BY DEF RunsAlone
  <2>1. readers = {}
    BY DEF IInv, ResetDrained
  <2>2. \A r \in Shared : pc[r] # "running"
    BY <2>1 DEF IInv, ReadersExact
  <2>3. \A v \in Exclusive : pc[v] = "running" => v = w
    <3> SUFFICES ASSUME NEW v \in Exclusive, pc[v] = "running", v # w PROVE FALSE
      OBVIOUS
    <3>1. ticket[v] \in Nat /\ ticket[w] \in Nat /\ ticket[v] # 0 /\ ticket[w] # 0
      BY DEF IInv, TypeOK, TicketsExact
    <3>2. ticket[v] # ticket[w]
      BY <3>1 DEF IInv, TicketsExact
    <3>3. ticket[v] < ticket[w] \/ ticket[w] < ticket[v]
      BY <3>1, <3>2
    <3> QED BY <3>1, <3>3 DEF IInv, WritersInOrder
  <2> QED BY <2>1, <2>2, <2>3 DEF Running, Requests
<1> QED BY <1>1, InitIInv, NextIInv, PTL DEF Spec

\* Resets run in the order in which exclusive() was called.
THEOREM LockWritersInOrder == Spec => []WritersInOrder
<1>1. IInv => WritersInOrder
  BY DEF IInv
<1> QED BY <1>1, InitIInv, NextIInv, PTL DEF Spec
=============================================================================
