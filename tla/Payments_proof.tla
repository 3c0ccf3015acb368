--------------------------- MODULE Payments_proof ---------------------------
(***************************************************************************)
(* Proofs about the two modules of a paid turn.                            *)
(*                                                                         *)
(* BearerPayment, for any turns, providers and bounds.  The inductive      *)
(* invariant IInv has five parts, each preserved by every step: the types; *)
(* the queue of the begin() gate (GateInv); what the stage of a turn says  *)
(* about its money and its record (LifeInv); the number of records against *)
(* what begin() has counted (CountInv); the old records against what       *)
(* begin() has read (ScanInv).                                             *)
(*                                                                         *)
(* ChatTurn, for any prices, ceiling, budget and waiting times: with       *)
(* deposits a turn stays within its sats and its time, pays at most once   *)
(* and tells what that cost; with tokens an attempt is paid at most twice. *)
(***************************************************************************)
EXTENDS BearerPayment, ChatTurn, FiniteSetTheorems, SequenceTheorems, TLAPS

(***************************************************************************)
(* BearerPayment.                                                          *)
(***************************************************************************)
\* The callers queue at the gate once each, and one that is inside is at its head.
GateInv ==
  /\ \A t \in Handles : pc[t] \in InBegin => gate # <<>> /\ gate[1] = t
  /\ \A i \in 1..Len(gate) : pc[gate[i]] \in InBegin \cup {"gate"}
  /\ \A i, j \in 1..Len(gate) : gate[i] = gate[j] => i = j

\* The record directory is finite: begin() can count it.
LEMMA ClaimsFinite ==
  ASSUME TypeOK
  PROVE  IsFiniteSet(claims) /\ Cardinality(claims) \in Nat
BY HandlesFinite, FS_Subset, FS_CardinalityType DEF TypeOK, DurableType

\* Moving a turn to a known place keeps the program counters typed.
LEMMA GotoType ==
  ASSUME VolatileType, NEW t \in Handles, NEW l \in PCs, Goto(t, l)
  PROVE  pc' \in [Handles -> PCs]
BY DEF VolatileType, Goto

\* A caller inside begin() stands at the head of a non-empty queue.
LEMMA GateHead ==
  ASSUME GateInv, NEW t \in Handles, pc[t] \in InBegin
  PROVE  gate # <<>>
BY DEF GateInv

\* The `finally { unlock(); }` of begin() keeps the volatile state typed.
LEMMA LeaveType ==
  ASSUME VolatileType, NEW t \in Handles, gate # <<>>, Leave(t)
  PROVE  /\ pc' \in [Handles -> PCs] /\ gate' \in Seq(Handles)
         /\ todo' \subseteq Handles /\ count' \in Nat /\ open' \in BOOLEAN
<1>1. pc' \in [Handles -> PCs]
  BY GotoType DEF Leave, PCs, Ended
<1>2. gate' \in Seq(Handles)
  BY HeadTailProperties DEF VolatileType, Leave
<1> QED
  BY <1>1, <1>2 DEF Leave, ClearScan

\* So does the verdict on the scanned records.
LEMMA ScannedType ==
  ASSUME VolatileType, NEW t \in Handles, gate # <<>>,
         NEW left \in SUBSET Handles, NEW n \in Nat, NEW pending \in BOOLEAN,
         Scanned(t, left, n, pending)
  PROVE  /\ pc' \in [Handles -> PCs] /\ gate' \in Seq(Handles)
         /\ todo' \subseteq Handles /\ count' \in Nat /\ open' \in BOOLEAN
<1>1. CASE left = {} /\ (n >= MaxPending \/ pending)
  BY <1>1, LeaveType DEF Scanned
<1>2. CASE ~(left = {} /\ (n >= MaxPending \/ pending))
  <2>1. pc' \in [Handles -> PCs]
    BY <1>2, GotoType DEF Scanned, PCs, InBegin
  <2> QED
    BY <2>1, <1>2 DEF Scanned, VolatileType
<1> QED
  BY <1>1, <1>2

\* So does the end of a settlement, whoever awaits it.
LEMMA EndSettleType ==
  ASSUME VolatileType, GateInv, NEW h \in Handles, EndSettle(h)
  PROVE  VolatileType'
<1>1. task' \in [Handles -> Tasks]
  BY DEF EndSettle, VolatileType, Tasks
<1>2. pc' \in [Handles -> PCs] /\ active' \subseteq Handles
  BY GotoType DEF EndSettle, VolatileType, PCs, Ended
<1>3. gate' \in Seq(Handles)
  BY GateHead, HeadTailProperties DEF EndSettle, VolatileType, InBegin
<1>4. todo' \subseteq Handles /\ count' \in Nat /\ open' \in BOOLEAN
  <2>1. CASE pc[h] = "settle"
    <3>1. open' \in BOOLEAN
      BY <2>1, Zenon DEF EndSettle, ClearScan
    <3> QED
      BY <2>1, <3>1 DEF EndSettle, ClearScan
  <2>2. CASE pc[h] # "settle"
    BY <2>2 DEF EndSettle, VolatileType, scan
  <2> QED
    BY <2>1, <2>2
<1> QED
  BY <1>1, <1>2, <1>3, <1>4 DEF VolatileType, EndSettle

\* So does one step of a settlement,
LEMMA AdvanceType ==
  ASSUME VolatileType, NEW h \in Handles, NEW l \in Tasks, Advance(h, l)
  PROVE  VolatileType'
BY DEF Advance, VolatileType, scan, rec

\* and calling settle(), which starts or joins one.
LEMMA CallSettleType ==
  ASSUME VolatileType, NEW h \in Handles, CallSettle(h)
  PROVE  task' \in [Handles -> Tasks]
BY DEF VolatileType, CallSettle, Tasks

\* The queue of begin() stays in order when it does not change and at most its
\* head moves from one place inside begin() to another,
LEMMA GateKeep ==
  ASSUME VolatileType, VolatileType', GateInv, gate' = gate,
         \A h \in Handles :
           \/ pc'[h] = pc[h]
           \/ gate # <<>> /\ gate[1] = h /\ pc[h] \in InBegin \cup {"gate"} /\ pc'[h] \in InBegin
           \/ pc[h] \notin InBegin \cup {"gate"} /\ pc'[h] \notin InBegin
  PROVE  GateInv'
BY DEF VolatileType, GateInv, InBegin

\* when its head returns from begin(),
LEMMA GateAdvance ==
  ASSUME VolatileType, VolatileType', GateInv, NEW t \in Handles,
         gate # <<>>, gate[1] = t, gate' = Tail(gate),
         pc'[t] \notin InBegin \cup {"gate"},
         \A h \in Handles \ {t} : pc'[h] = pc[h]
  PROVE  GateInv'
<1>1. /\ Len(gate') = Len(gate) - 1
      /\ \A i \in 1..Len(gate') : gate'[i] = gate[i+1]
  BY HeadTailProperties DEF VolatileType
<1>2. Len(gate) \in Nat \ {0} /\ \A i \in 1..Len(gate) : gate[i] \in Handles
  BY DEF VolatileType
<1>3. \A i \in 1..Len(gate') : i + 1 \in 1..Len(gate) /\ gate'[i] # t
  BY <1>1, <1>2 DEF GateInv
<1>4. \A i \in 1..Len(gate') : pc'[gate'[i]] \in InBegin \cup {"gate"}
  BY <1>1, <1>2, <1>3 DEF GateInv
<1>5. \A i, j \in 1..Len(gate') : gate'[i] = gate'[j] => i = j
  BY <1>1, <1>2, <1>3 DEF GateInv
<1>6. ASSUME NEW h \in Handles, pc'[h] \in InBegin PROVE FALSE
  BY <1>6 DEF GateInv
<1> QED
  BY <1>4, <1>5, <1>6 DEF GateInv

\* and when a new caller joins it.
LEMMA GateAppend ==
  ASSUME VolatileType, VolatileType', GateInv, NEW t \in Handles,
         gate' = Append(gate, t), pc[t] = "new", pc'[t] = "gate",
         \A h \in Handles \ {t} : pc'[h] = pc[h]
  PROVE  GateInv'
<1>1. /\ Len(gate) \in Nat /\ Len(gate') = Len(gate) + 1
      /\ gate'[Len(gate) + 1] = t
      /\ \A i \in 1..Len(gate) : gate'[i] = gate[i] /\ gate[i] \in Handles
  BY DEF VolatileType
<1>2. \A i \in 1..Len(gate) : gate[i] # t
  BY <1>1 DEF GateInv, InBegin
<1>3. \A i \in 1..Len(gate') : pc'[gate'[i]] \in InBegin \cup {"gate"}
  BY <1>1, <1>2 DEF GateInv
<1>4. \A i, j \in 1..Len(gate') : gate'[i] = gate'[j] => i = j
  BY <1>1, <1>2 DEF GateInv
<1>5. ASSUME NEW h \in Handles, pc'[h] \in InBegin
      PROVE  gate' # <<>> /\ gate'[1] = h
  BY <1>1, <1>5 DEF GateInv, InBegin
<1> QED
  BY <1>3, <1>4, <1>5 DEF GateInv

\* Type correctness is preserved by every step of the adapter.
LEMMA TypeStep == TypeOK /\ GateInv /\ [Next]_vars => TypeOK'
<1> SUFFICES ASSUME TypeOK, GateInv, [Next]_vars PROVE TypeOK'
  OBVIOUS
<1> USE DEF TypeOK
<1>1. ASSUME NEW t \in Handles, Enter(t) PROVE TypeOK'
  <2>1. DurableType'
    BY <1>1 DEF Enter, DurableType, store
  <2>2. RemoteType'
    BY <1>1 DEF Enter, RemoteType, remote
  <2>3. VolatileType'
    BY <1>1, GotoType DEF Enter, VolatileType, PCs, Ended, InBegin, scan, rec
  <2> QED
    BY <2>1, <2>2, <2>3
<1>2. ASSUME NEW t \in Handles, ListClaims(t) PROVE TypeOK'
  <2>1. DurableType'
    BY <1>2 DEF ListClaims, DurableType, store
  <2>2. RemoteType'
    BY <1>2 DEF ListClaims, RemoteType, remote
  <2>3. VolatileType'
    BY <1>2, ScannedType, LeaveType, ClaimsFinite DEF ListClaims, DurableType, VolatileType, PCs, Ended, InBegin, scan, rec
  <2> QED
    BY <2>1, <2>2, <2>3
<1>3. ASSUME NEW t \in Handles, NEW n \in Handles, ScanClaim(t, n) PROVE TypeOK'
  <2>1. DurableType'
    BY <1>3 DEF ScanClaim, DurableType, store
  <2>2. RemoteType'
    BY <1>3 DEF ScanClaim, RemoteType, remote
  <2>3. VolatileType'
    BY <1>3, ScannedType, LeaveType, GateHead DEF ScanClaim, VolatileType, PCs, Ended, InBegin, scan, rec
  <2> QED
    BY <2>1, <2>2, <2>3
<1>4. ASSUME NEW t \in Handles, SendRefused(t) PROVE TypeOK'
  <2>1. DurableType'
    BY <1>4 DEF SendRefused, DurableType, store
  <2>2. RemoteType'
    BY <1>4 DEF SendRefused, RemoteType, remote
  <2>3. VolatileType'
    BY <1>4, LeaveType, GateHead DEF SendRefused, VolatileType, PCs, Ended, InBegin, scan, rec
  <2> QED
    BY <2>1, <2>2, <2>3
<1>5. ASSUME NEW t \in Handles, SendOk(t) PROVE TypeOK'
  <2>1. DurableType'
    BY <1>5 DEF SendOk, DurableType, store
  <2>2. RemoteType'
    BY <1>5 DEF SendOk, RemoteType, remote
  <2>3. VolatileType'
    BY <1>5, GotoType DEF SendOk, VolatileType, PCs, Ended, InBegin, scan, rec
  <2> QED
    BY <2>1, <2>2, <2>3
<1>6. ASSUME NEW t \in Handles, SendLost(t) PROVE TypeOK'
  <2>1. DurableType'
    BY <1>6 DEF SendLost, Fault, DurableType, store
  <2>2. RemoteType'
    BY <1>6 DEF SendLost, RemoteType, remote
  <2>3. VolatileType'
    BY <1>6, LeaveType, GateHead DEF SendLost, VolatileType, PCs, Ended, InBegin, scan, rec
  <2> QED
    BY <2>1, <2>2, <2>3
<1>7. ASSUME NEW t \in Handles, PersistOk(t) PROVE TypeOK'
  <2>1. DurableType'
    BY <1>7 DEF PersistOk, DurableType, store
  <2>2. RemoteType'
    BY <1>7 DEF PersistOk, RemoteType, remote
  <2>3. VolatileType'
    BY <1>7, GotoType DEF PersistOk, VolatileType, PCs, Ended, InBegin, scan, rec
  <2> QED
    BY <2>1, <2>2, <2>3
<1>8. ASSUME NEW t \in Handles, PersistFail(t) PROVE TypeOK'
  <2>1. DurableType'
    BY <1>8 DEF PersistFail, Fault, DurableType, store
  <2>2. RemoteType'
    BY <1>8 DEF PersistFail, RemoteType, remote
  <2>3. VolatileType'
    BY <1>8, GotoType DEF PersistFail, VolatileType, PCs, Ended, InBegin, scan, rec
  <2> QED
    BY <2>1, <2>2, <2>3
<1>9. ASSUME NEW t \in Handles, Rollback(t) PROVE TypeOK'
  <2>1. DurableType'
    BY <1>9 DEF Rollback, DurableType, store
  <2>2. RemoteType'
    BY <1>9 DEF Rollback, RemoteType, remote
  <2>3. VolatileType'
    BY <1>9, GotoType DEF Rollback, VolatileType, PCs, Ended, InBegin, scan, rec
  <2> QED
    BY <2>1, <2>2, <2>3
<1>10. ASSUME NEW t \in Handles, RollbackFail(t) PROVE TypeOK'
  <2>1. DurableType'
    BY <1>10 DEF RollbackFail, Fault, DurableType, store
  <2>2. RemoteType'
    BY <1>10 DEF RollbackFail, RemoteType, remote
  <2>3. VolatileType'
    BY <1>10, LeaveType, GateHead DEF RollbackFail, VolatileType, PCs, Ended, InBegin, scan, rec
  <2> QED
    BY <2>1, <2>2, <2>3
<1>11. ASSUME NEW t \in Handles, Unwind(t) PROVE TypeOK'
  <2>1. DurableType'
    BY <1>11 DEF Unwind, Fault, DurableType, store
  <2>2. RemoteType'
    BY <1>11 DEF Unwind, RemoteType, remote
  <2>3. VolatileType'
    BY <1>11, LeaveType, GateHead DEF Unwind, VolatileType, PCs, Ended, InBegin, scan, rec
  <2> QED
    BY <2>1, <2>2, <2>3
<1>12. ASSUME NEW t \in Handles, CreateReply(t) PROVE TypeOK'
  <2>1. DurableType'
    BY <1>12 DEF CreateReply, DurableType, store
  <2>2. RemoteType'
    BY <1>12 DEF CreateReply, RemoteType, remote
  <2>3. VolatileType'
    BY <1>12, GotoType, GateHead, HeadTailProperties DEF CreateReply, ClearScan, VolatileType, PCs, Ended, InBegin, scan, rec
  <2> QED
    BY <2>1, <2>2, <2>3
<1>13. ASSUME NEW t \in Handles, CreateFail(t) PROVE TypeOK'
  <2>1. DurableType'
    BY <1>13 DEF CreateFail, Fault, DurableType, store
  <2>2. RemoteType'
    BY <1>13 DEF CreateFail, RemoteType, remote
  <2>3. VolatileType'
    BY <1>13, GotoType, CallSettleType DEF CreateFail, VolatileType, PCs, Ended, InBegin, scan, rec
  <2> QED
    BY <2>1, <2>2, <2>3
<1>14. ASSUME NEW t \in Handles, Finish(t) PROVE TypeOK'
  <2>1. DurableType'
    BY <1>14 DEF Finish, DurableType, store
  <2>2. RemoteType'
    BY <1>14 DEF Finish, RemoteType, remote
  <2>3. VolatileType'
    BY <1>14, GotoType, CallSettleType DEF Finish, VolatileType, PCs, Ended, InBegin, scan, rec
  <2> QED
    BY <2>1, <2>2, <2>3
<1>15. ASSUME NEW t \in Handles, SettleGet(t) PROVE TypeOK'
  <2>1. DurableType'
    BY <1>15 DEF SettleGet, DurableType, store
  <2>2. RemoteType'
    BY <1>15 DEF SettleGet, RemoteType, remote
  <2>3. VolatileType'
    BY <1>15, EndSettleType, AdvanceType DEF SettleGet, Tasks
  <2> QED
    BY <2>1, <2>2, <2>3
<1>16. ASSUME NEW t \in Handles, SettleRefund(t) PROVE TypeOK'
  <2>1. DurableType'
    BY <1>16 DEF SettleRefund, Fault, DurableType, store
  <2>2. RemoteType'
    BY <1>16 DEF SettleRefund, RemoteType, remote
  <2>3. VolatileType'
    BY <1>16, EndSettleType, AdvanceType DEF SettleRefund, Tasks
  <2> QED
    BY <2>1, <2>2, <2>3
<1>17. ASSUME NEW t \in Handles, SettleInfo(t) PROVE TypeOK'
  <2>1. DurableType'
    BY <1>17 DEF SettleInfo, Fault, DurableType, store
  <2>2. RemoteType'
    BY <1>17 DEF SettleInfo, RemoteType, remote
  <2>3. VolatileType'
    BY <1>17, EndSettleType, AdvanceType DEF SettleInfo, Tasks
  <2> QED
    BY <2>1, <2>2, <2>3
<1>18. ASSUME NEW t \in Handles, SettleArchive(t) PROVE TypeOK'
  <2>1. DurableType'
    BY <1>18 DEF SettleArchive, Fault, DurableType, store
  <2>2. RemoteType'
    BY <1>18 DEF SettleArchive, RemoteType, remote
  <2>3. VolatileType'
    BY <1>18, EndSettleType, AdvanceType DEF SettleArchive, Tasks
  <2> QED
    BY <2>1, <2>2, <2>3
<1>19. ASSUME NEW t \in Handles, SettleReceive(t) PROVE TypeOK'
  <2>1. DurableType'
    BY <1>19 DEF SettleReceive, Fault, DurableType, store
  <2>2. RemoteType'
    BY <1>19 DEF SettleReceive, RemoteType, remote
  <2>3. VolatileType'
    BY <1>19, EndSettleType, AdvanceType DEF SettleReceive, Tasks
  <2> QED
    BY <2>1, <2>2, <2>3
<1>20. ASSUME NEW t \in Handles, SettleCredit(t) PROVE TypeOK'
  <2>1. DurableType'
    BY <1>20 DEF SettleCredit, Fault, DurableType, store
  <2>2. RemoteType'
    BY <1>20 DEF SettleCredit, RemoteType, remote
  <2>3. VolatileType'
    BY <1>20, EndSettleType, AdvanceType DEF SettleCredit, Tasks
  <2> QED
    BY <2>1, <2>2, <2>3
<1>21. ASSUME NEW t \in Handles, SettleRemove(t) PROVE TypeOK'
  <2>1. DurableType'
    BY <1>21 DEF SettleRemove, Fault, DurableType, store
  <2>2. RemoteType'
    BY <1>21 DEF SettleRemove, RemoteType, remote
  <2>3. VolatileType'
    BY <1>21, EndSettleType DEF SettleRemove
  <2> QED
    BY <2>1, <2>2, <2>3
<1>22. ASSUME RecoverStart PROVE TypeOK'
  <2>1. DurableType'
    BY <1>22 DEF RecoverStart, DurableType, store
  <2>2. RemoteType'
    BY <1>22 DEF RecoverStart, RemoteType, remote
  <2>3. VolatileType'
    BY <1>22 DEF RecoverStart, DurableType, ClearRec, VolatileType, PCs, Ended, InBegin, scan, rec
  <2> QED
    BY <2>1, <2>2, <2>3
<1>23. ASSUME NEW t \in Handles, RecoverOne(t) PROVE TypeOK'
  <2>1. DurableType'
    BY <1>23 DEF RecoverOne, DurableType, store
  <2>2. RemoteType'
    BY <1>23 DEF RecoverOne, RemoteType, remote
  <2>3. VolatileType'
    BY <1>23, CallSettleType DEF RecoverOne, VolatileType, PCs, Ended, InBegin, scan, rec
  <2> QED
    BY <2>1, <2>2, <2>3
<1>24. ASSUME RecoverEnd PROVE TypeOK'
  <2>1. DurableType'
    BY <1>24 DEF RecoverEnd, DurableType, store
  <2>2. RemoteType'
    BY <1>24 DEF RecoverEnd, RemoteType, remote
  <2>3. VolatileType'
    BY <1>24 DEF RecoverEnd, DurableType, ClearRec, VolatileType, PCs, Ended, InBegin, scan, rec
  <2> QED
    BY <2>1, <2>2, <2>3
<1>25. ASSUME NEW t \in Handles, AcceptCreate(t) PROVE TypeOK'
  <2>1. DurableType'
    BY <1>25 DEF AcceptCreate, DurableType, store
  <2>2. RemoteType'
    BY <1>25 DEF AcceptCreate, RemoteType, remote
  <2>3. VolatileType'
    BY <1>25 DEF AcceptCreate, VolatileType, PCs, Ended, InBegin, scan, rec, volatile
  <2> QED
    BY <2>1, <2>2, <2>3
<1>26. ASSUME NEW t \in Handles, DropCreate(t) PROVE TypeOK'
  <2>1. DurableType'
    BY <1>26 DEF DropCreate, DurableType, store
  <2>2. RemoteType'
    BY <1>26 DEF DropCreate, RemoteType, remote
  <2>3. VolatileType'
    BY <1>26 DEF DropCreate, VolatileType, PCs, Ended, InBegin, scan, rec, volatile
  <2> QED
    BY <2>1, <2>2, <2>3
<1>27. ASSUME NEW t \in Handles, Charge(t) PROVE TypeOK'
  <2>1. DurableType'
    BY <1>27 DEF Charge, DurableType, store
  <2>2. RemoteType'
    BY <1>27 DEF Charge, RemoteType, remote
  <2>3. VolatileType'
    BY <1>27 DEF Charge, VolatileType, PCs, Ended, InBegin, scan, rec, volatile
  <2> QED
    BY <2>1, <2>2, <2>3
<1>28. ASSUME Crash PROVE TypeOK'
  <2>0. /\ up' = FALSE /\ faults' = faults + 1 /\ UNCHANGED <<held, store>>
        /\ active' = {} /\ gate' = <<>> /\ ClearScan /\ ClearRec
    BY <1>28, Zenon DEF Crash, Fault
  <2>1. DurableType'
    <3>1. up' \in BOOLEAN
      BY <2>0, Zenon
    <3> QED
      BY <2>0, <3>1 DEF DurableType, store
  <2>2. RemoteType'
    BY <1>28 DEF Crash, RemoteType, remote
  <2>3. pc' \in [Handles -> PCs] /\ task' \in [Handles -> Tasks]
    BY <1>28 DEF Crash, VolatileType, PCs, Tasks, Ended
  <2>4. VolatileType'
    <3>1. open' \in BOOLEAN /\ recOn' \in BOOLEAN
      BY <2>0, Zenon DEF ClearScan, ClearRec
    <3> QED
      BY <2>0, <2>3, <3>1 DEF VolatileType, ClearScan, ClearRec
  <2> QED
    BY <2>1, <2>2, <2>4
<1>29. ASSUME Restart PROVE TypeOK'
  <2>1. DurableType'
    BY <1>29 DEF Restart, DurableType, store
  <2>2. RemoteType'
    BY <1>29 DEF Restart, RemoteType, remote
  <2>3. VolatileType'
    BY <1>29 DEF Restart, VolatileType, PCs, Ended, InBegin, scan, rec, volatile
  <2> QED
    BY <2>1, <2>2, <2>3
<1>30. CASE UNCHANGED vars
  BY <1>30 DEF vars, store, remote, volatile, scan, rec, DurableType, RemoteType, VolatileType
<1> QED
  BY <1>1, <1>2, <1>3, <1>4, <1>5, <1>6, <1>7, <1>8, <1>9, <1>10, <1>11, <1>12, <1>13, <1>14, <1>15, <1>16, <1>17, <1>18, <1>19, <1>20, <1>21, <1>22, <1>23, <1>24, <1>25, <1>26, <1>27, <1>28, <1>29, <1>30 DEF Next, BeginStep, SettleStep, RecoverStep, ProviderStep

\* The end of a settlement releases the gate exactly for a caller of begin().
LEMMA EndSettleGate ==
  ASSUME VolatileType, VolatileType', GateInv, NEW h \in Handles, EndSettle(h)
  PROVE  GateInv'
<1>1. CASE pc[h] = "settle"
  BY <1>1, GateAdvance, GateHead DEF EndSettle, Goto, VolatileType, GateInv, InBegin
<1>2. CASE pc[h] = "finish"
  BY <1>2, GateKeep DEF EndSettle, Goto, VolatileType, InBegin
<1>3. CASE pc[h] \notin {"settle", "finish"}
  BY <1>3, GateKeep DEF EndSettle
<1> QED
  BY <1>1, <1>2, <1>3

\* Returning from begin() lets the next caller in.
LEMMA LeaveGate ==
  ASSUME VolatileType, VolatileType', GateInv, NEW t \in Handles,
         gate # <<>>, gate[1] = t, Leave(t)
  PROVE  GateInv'
BY GateAdvance DEF Leave, Goto, VolatileType, InBegin

\* The verdict of begin() keeps or releases the gate.
LEMMA ScannedGate ==
  ASSUME VolatileType, VolatileType', GateInv, NEW t \in Handles,
         gate # <<>>, gate[1] = t, pc[t] \in InBegin \cup {"gate"},
         NEW left, NEW n, NEW pending, Scanned(t, left, n, pending)
  PROVE  GateInv'
<1>1. CASE Leave(t)
  BY <1>1, LeaveGate
<1>2. CASE gate' = gate /\ Goto(t, IF left = {} THEN "send" ELSE "scan")
  BY <1>2, GateKeep DEF Goto, VolatileType, InBegin
<1> QED
  BY <1>1, <1>2 DEF Scanned

\* The gate discipline is preserved by every step.
LEMMA GateStep ==
  ASSUME TypeOK, TypeOK', GateInv, Next
  PROVE  GateInv'
<1> USE DEF TypeOK
<1>1. ASSUME NEW t \in Handles, Enter(t) PROVE GateInv'
  BY <1>1, GateAppend DEF Enter, Goto, VolatileType
<1>2. ASSUME NEW t \in Handles, ListClaims(t) PROVE GateInv'
  BY <1>2, ScannedGate, LeaveGate DEF ListClaims, GateInv, InBegin
<1>3. ASSUME NEW t \in Handles, NEW n \in Handles, ScanClaim(t, n) PROVE GateInv'
  BY <1>3, ScannedGate, LeaveGate DEF ScanClaim, GateInv, InBegin
<1>4. ASSUME NEW t \in Handles, SendRefused(t) PROVE GateInv'
  BY <1>4, LeaveGate DEF SendRefused, GateInv, InBegin
<1>5. ASSUME NEW t \in Handles, SendOk(t) PROVE GateInv'
  BY <1>5, GateKeep DEF SendOk, Goto, VolatileType, GateInv, InBegin
<1>6. ASSUME NEW t \in Handles, SendLost(t) PROVE GateInv'
  BY <1>6, LeaveGate DEF SendLost, GateInv, InBegin
<1>7. ASSUME NEW t \in Handles, PersistOk(t) PROVE GateInv'
  BY <1>7, GateKeep DEF PersistOk, Goto, VolatileType, GateInv, InBegin
<1>8. ASSUME NEW t \in Handles, PersistFail(t) PROVE GateInv'
  BY <1>8, GateKeep DEF PersistFail, Goto, VolatileType, GateInv, InBegin
<1>9. ASSUME NEW t \in Handles, Rollback(t) PROVE GateInv'
  BY <1>9, GateKeep DEF Rollback, Goto, VolatileType, GateInv, InBegin
<1>10. ASSUME NEW t \in Handles, RollbackFail(t) PROVE GateInv'
  BY <1>10, LeaveGate DEF RollbackFail, GateInv, InBegin
<1>11. ASSUME NEW t \in Handles, Unwind(t) PROVE GateInv'
  BY <1>11, LeaveGate DEF Unwind, GateInv, InBegin
<1>12. ASSUME NEW t \in Handles, CreateReply(t) PROVE GateInv'
  BY <1>12, GateAdvance DEF CreateReply, Goto, VolatileType, GateInv, InBegin
<1>13. ASSUME NEW t \in Handles, CreateFail(t) PROVE GateInv'
  BY <1>13, GateKeep DEF CreateFail, Goto, VolatileType, GateInv, InBegin
<1>14. ASSUME NEW t \in Handles, Finish(t) PROVE GateInv'
  BY <1>14, GateKeep DEF Finish, Goto, VolatileType, GateInv, InBegin
<1>15. ASSUME NEW t \in Handles, SettleGet(t) PROVE GateInv'
  BY <1>15, EndSettleGate, GateKeep DEF SettleGet, Advance
<1>16. ASSUME NEW t \in Handles, SettleRefund(t) PROVE GateInv'
  BY <1>16, EndSettleGate, GateKeep DEF SettleRefund, Advance
<1>17. ASSUME NEW t \in Handles, SettleInfo(t) PROVE GateInv'
  BY <1>17, EndSettleGate, GateKeep DEF SettleInfo, Advance
<1>18. ASSUME NEW t \in Handles, SettleArchive(t) PROVE GateInv'
  BY <1>18, EndSettleGate, GateKeep DEF SettleArchive, Advance
<1>19. ASSUME NEW t \in Handles, SettleReceive(t) PROVE GateInv'
  BY <1>19, EndSettleGate, GateKeep DEF SettleReceive, Advance
<1>20. ASSUME NEW t \in Handles, SettleCredit(t) PROVE GateInv'
  BY <1>20, EndSettleGate, GateKeep DEF SettleCredit, Advance
<1>21. ASSUME NEW t \in Handles, SettleRemove(t) PROVE GateInv'
  BY <1>21, EndSettleGate DEF SettleRemove
<1>22. ASSUME RecoverStart PROVE GateInv'
  BY <1>22, GateKeep DEF RecoverStart
<1>23. ASSUME NEW t \in Handles, RecoverOne(t) PROVE GateInv'
  BY <1>23, GateKeep DEF RecoverOne
<1>24. ASSUME RecoverEnd PROVE GateInv'
  BY <1>24, GateKeep DEF RecoverEnd
<1>25. ASSUME NEW t \in Handles, AcceptCreate(t) PROVE GateInv'
  BY <1>25, GateKeep DEF AcceptCreate, volatile
<1>26. ASSUME NEW t \in Handles, DropCreate(t) PROVE GateInv'
  BY <1>26, GateKeep DEF DropCreate, volatile
<1>27. ASSUME NEW t \in Handles, Charge(t) PROVE GateInv'
  BY <1>27, GateKeep DEF Charge, volatile
<1>28. ASSUME Crash PROVE GateInv'
  BY <1>28 DEF Crash, GateInv, VolatileType, InBegin
<1>29. ASSUME Restart PROVE GateInv'
  BY <1>29, GateKeep DEF Restart, volatile
<1> QED
  BY <1>1, <1>2, <1>3, <1>4, <1>5, <1>6, <1>7, <1>8, <1>9, <1>10, <1>11, <1>12, <1>13, <1>14, <1>15, <1>16, <1>17, <1>18, <1>19, <1>20, <1>21, <1>22, <1>23, <1>24, <1>25, <1>26, <1>27, <1>28, <1>29 DEF Next, BeginStep, SettleStep, RecoverStep, ProviderStep

\* Where the money of a turn, its record and its settlement are at each stage of
\* the turn.
Life(h) ==
  /\ pc[h] \in {"new", "gate", "scan", "send"} =>
       token[h] = "none" /\ h \notin claims /\ h \notin recTodo
  /\ pc[h] \in {"persist", "rollback"} => token[h] = "cut" /\ net[h] = "unsent"
  /\ pc[h] = "unwind" => token[h] = "stored"
  /\ pc[h] \in OnActive <=> h \in active
  /\ pc[h] \in InBegin => Base[h] \notin held
  /\ token[h] \in {"none", "lost", "stored"} => net[h] = "unsent"
  /\ net[h] = "inflight" => token[h] = "cut"
  /\ token[h] = "deposited" <=> acct[h] # "none"
  /\ token[h] = "deposited" => net[h] = "gone"
  /\ rtok[h] # "none" <=> acct[h] = "refunded"
  /\ Recoverable(h) => h \in claims
  /\ task[h] # "idle" => pc[h] \in {"settle", "finish"} \cup Ended
  /\ task[h] \notin {"idle", "get"} => h \in claims /\ Base[h] \notin held
  /\ task[h] \in {"info", "archive"} => acct[h] = "dust"
  /\ task[h] = "receive" => acct[h] = "refunded"
  /\ task[h] = "credit" => rtok[h] = "swapped"
  /\ task[h] = "remove" =>
       rtok[h] = "stored" \/ acct[h] = "zero" \/ (acct[h] = "dust" /\ h \in archived)
  /\ ~up => pc[h] \in {"new"} \cup Ended /\ task[h] = "idle"

LifeInv == \A h \in Handles : Life(h)

\* The stage of every turn and where its money is stay in agreement.
LEMMA LifeStep ==
  ASSUME TypeOK, LifeInv, Next
  PROVE  LifeInv'
<1> USE DEF TypeOK, DurableType, RemoteType, VolatileType
<1>1. ASSUME NEW t \in Handles, Enter(t), NEW h \in Handles PROVE Life(h)'
  BY <1>1 DEF Enter, Goto, LifeInv, Life, Recoverable, OnActive, InBegin, Ended, PCs, Tasks, store, remote, volatile, scan, rec
<1>2. ASSUME NEW t \in Handles, ListClaims(t), NEW h \in Handles PROVE Life(h)'
  BY <1>2 DEF ListClaims, Scanned, Leave, Goto, LifeInv, Life, Recoverable, OnActive, InBegin, Ended, PCs, Tasks, store, remote, volatile, scan, rec
<1>3. ASSUME NEW t \in Handles, NEW n \in Handles, ScanClaim(t, n), NEW h \in Handles PROVE Life(h)'
  BY <1>3 DEF ScanClaim, Scanned, Leave, Goto, LifeInv, Life, Recoverable, OnActive, InBegin, Ended, PCs, Tasks, store, remote, volatile, scan, rec
<1>4. ASSUME NEW t \in Handles, SendRefused(t), NEW h \in Handles PROVE Life(h)'
  BY <1>4 DEF SendRefused, Leave, Goto, LifeInv, Life, Recoverable, OnActive, InBegin, Ended, PCs, Tasks, store, remote, volatile, scan, rec
<1>5. ASSUME NEW t \in Handles, SendOk(t), NEW h \in Handles PROVE Life(h)'
  BY <1>5 DEF SendOk, Goto, LifeInv, Life, Recoverable, OnActive, InBegin, Ended, PCs, Tasks, store, remote, volatile, scan, rec
<1>6. ASSUME NEW t \in Handles, SendLost(t), NEW h \in Handles PROVE Life(h)'
  BY <1>6 DEF SendLost, Leave, Goto, Fault, LifeInv, Life, Recoverable, OnActive, InBegin, Ended, PCs, Tasks, store, remote, volatile, scan, rec
<1>7. ASSUME NEW t \in Handles, PersistOk(t), NEW h \in Handles PROVE Life(h)'
  BY <1>7 DEF PersistOk, Goto, LifeInv, Life, Recoverable, OnActive, InBegin, Ended, PCs, Tasks, store, remote, volatile, scan, rec
<1>8. ASSUME NEW t \in Handles, PersistFail(t), NEW h \in Handles PROVE Life(h)'
  BY <1>8 DEF PersistFail, Goto, Fault, LifeInv, Life, Recoverable, OnActive, InBegin, Ended, PCs, Tasks, store, remote, volatile, scan, rec
<1>9. ASSUME NEW t \in Handles, Rollback(t), NEW h \in Handles PROVE Life(h)'
  BY <1>9 DEF Rollback, Goto, LifeInv, Life, Recoverable, OnActive, InBegin, Ended, PCs, Tasks, store, remote, volatile, scan, rec
<1>10. ASSUME NEW t \in Handles, RollbackFail(t), NEW h \in Handles PROVE Life(h)'
  BY <1>10 DEF RollbackFail, Leave, Goto, Fault, LifeInv, Life, Recoverable, OnActive, InBegin, Ended, PCs, Tasks, store, remote, volatile, scan, rec
<1>11. ASSUME NEW t \in Handles, Unwind(t), NEW h \in Handles PROVE Life(h)'
  BY <1>11 DEF Unwind, Leave, Goto, Fault, LifeInv, Life, Recoverable, OnActive, InBegin, Ended, PCs, Tasks, store, remote, volatile, scan, rec
<1>12. ASSUME NEW t \in Handles, CreateReply(t), NEW h \in Handles PROVE Life(h)'
  BY <1>12 DEF CreateReply, Goto, LifeInv, Life, Recoverable, OnActive, InBegin, Ended, PCs, Tasks, store, remote, volatile, scan, rec
<1>13. ASSUME NEW t \in Handles, CreateFail(t), NEW h \in Handles PROVE Life(h)'
  BY <1>13 DEF CreateFail, Goto, Fault, CallSettle, LifeInv, Life, Recoverable, OnActive, InBegin, Ended, PCs, Tasks, store, remote, volatile, scan, rec
<1>14. ASSUME NEW t \in Handles, Finish(t), NEW h \in Handles PROVE Life(h)'
  BY <1>14 DEF Finish, Goto, CallSettle, LifeInv, Life, Recoverable, OnActive, InBegin, Ended, PCs, Tasks, store, remote, volatile, scan, rec
<1>15. ASSUME NEW t \in Handles, SettleGet(t), NEW h \in Handles PROVE Life(h)'
  BY <1>15 DEF SettleGet, EndSettle, Advance, Goto, LifeInv, Life, Recoverable, OnActive, InBegin, Ended, PCs, Tasks, store, remote, volatile, scan, rec
<1>16. ASSUME NEW t \in Handles, SettleRefund(t), NEW h \in Handles PROVE Life(h)'
  BY <1>16 DEF SettleRefund, EndSettle, Advance, Goto, Fault, LifeInv, Life, Recoverable, OnActive, InBegin, Ended, PCs, Tasks, store, remote, volatile, scan, rec
<1>17. ASSUME NEW t \in Handles, SettleInfo(t), NEW h \in Handles PROVE Life(h)'
  BY <1>17 DEF SettleInfo, EndSettle, Advance, Goto, Fault, LifeInv, Life, Recoverable, OnActive, InBegin, Ended, PCs, Tasks, store, remote, volatile, scan, rec
<1>18. ASSUME NEW t \in Handles, SettleArchive(t), NEW h \in Handles PROVE Life(h)'
  BY <1>18 DEF SettleArchive, EndSettle, Advance, Goto, Fault, LifeInv, Life, Recoverable, OnActive, InBegin, Ended, PCs, Tasks, store, remote, volatile, scan, rec
<1>19. ASSUME NEW t \in Handles, SettleReceive(t), NEW h \in Handles PROVE Life(h)'
  BY <1>19 DEF SettleReceive, EndSettle, Advance, Goto, Fault, LifeInv, Life, Recoverable, OnActive, InBegin, Ended, PCs, Tasks, store, remote, volatile, scan, rec
<1>20. ASSUME NEW t \in Handles, SettleCredit(t), NEW h \in Handles PROVE Life(h)'
  BY <1>20 DEF SettleCredit, EndSettle, Advance, Goto, Fault, LifeInv, Life, Recoverable, OnActive, InBegin, Ended, PCs, Tasks, store, remote, volatile, scan, rec
<1>21. ASSUME NEW t \in Handles, SettleRemove(t), NEW h \in Handles PROVE Life(h)'
  BY <1>21 DEF SettleRemove, EndSettle, Goto, Fault, LifeInv, Life, Recoverable, OnActive, InBegin, Ended, PCs, Tasks, store, remote, volatile, scan, rec
<1>22. ASSUME RecoverStart, NEW h \in Handles PROVE Life(h)'
  BY <1>22 DEF RecoverStart, LifeInv, Life, Recoverable, OnActive, InBegin, Ended, PCs, Tasks, store, remote, volatile, scan, rec
<1>23. ASSUME NEW t \in Handles, RecoverOne(t), NEW h \in Handles PROVE Life(h)'
  BY <1>23 DEF RecoverOne, CallSettle, LifeInv, Life, Recoverable, OnActive, InBegin, Ended, PCs, Tasks, store, remote, volatile, scan, rec
<1>24. ASSUME RecoverEnd, NEW h \in Handles PROVE Life(h)'
  BY <1>24 DEF RecoverEnd, ClearRec, LifeInv, Life, Recoverable, OnActive, InBegin, Ended, PCs, Tasks, store, remote, volatile, scan, rec
<1>25. ASSUME NEW t \in Handles, AcceptCreate(t), NEW h \in Handles PROVE Life(h)'
  BY <1>25 DEF AcceptCreate, LifeInv, Life, Recoverable, OnActive, InBegin, Ended, PCs, Tasks, store, remote, volatile, scan, rec
<1>26. ASSUME NEW t \in Handles, DropCreate(t), NEW h \in Handles PROVE Life(h)'
  BY <1>26 DEF DropCreate, LifeInv, Life, Recoverable, OnActive, InBegin, Ended, PCs, Tasks, store, remote, volatile, scan, rec
<1>27. ASSUME NEW t \in Handles, Charge(t), NEW h \in Handles PROVE Life(h)'
  BY <1>27 DEF Charge, LifeInv, Life, Recoverable, OnActive, InBegin, Ended, PCs, Tasks, store, remote, volatile, scan, rec
<1>28. ASSUME Crash, NEW h \in Handles PROVE Life(h)'
  <2>1. /\ pc'[h] \in {"new"} \cup Ended
        /\ pc'[h] = "new" => pc[h] = "new"
        /\ task'[h] = "idle"
    BY <1>28 DEF Crash, Ended
  <2>2. /\ active' = {} /\ recTodo' = {}
        /\ UNCHANGED <<held, claims, archived, token, net, acct, busy, rtok>>
    BY <1>28 DEF Crash, ClearRec, store, remote
  <2> QED
    BY <2>1, <2>2 DEF LifeInv, Life, Recoverable, OnActive, InBegin, Ended
<1>29. ASSUME Restart, NEW h \in Handles PROVE Life(h)'
  BY <1>29 DEF Restart, LifeInv, Life, Recoverable, OnActive, InBegin, Ended, PCs, Tasks, store, remote, volatile, scan, rec
<1> QED
  BY <1>1, <1>2, <1>3, <1>4, <1>5, <1>6, <1>7, <1>8, <1>9, <1>10, <1>11, <1>12, <1>13, <1>14, <1>15, <1>16, <1>17, <1>18, <1>19, <1>20, <1>21, <1>22, <1>23, <1>24, <1>25, <1>26, <1>27, <1>28, <1>29 DEF Next, BeginStep, SettleStep, RecoverStep, ProviderStep, LifeInv

\* How the claims stand to what the caller inside begin() has read of them.
Safe(h) == pc[h] = "dead" => Base[h] \in held

\* What begin() counted still bounds the records when it writes its own.
CountInv ==
  /\ Cardinality(claims) <= MaxPending
  /\ \A t \in Handles :
       /\ pc[t] = "scan" => Cardinality(claims) <= count
       /\ pc[t] \in {"send", "persist"} => Cardinality(claims) < MaxPending

\* No unsettled record of an earlier process escapes the scan of begin().
ScanInv ==
  \A t \in Handles :
    /\ pc[t] = "scan" => \A h \in claims : Safe(h) \/ h \in todo \/ open
    /\ pc[t] = "send" => \A h \in claims : Safe(h)

\* One caller at a time is inside begin().
Alone == \A t, u \in Handles : pc[t] \in InBegin /\ pc[u] \in InBegin => t = u

\* The gate admits one caller at a time.
LEMMA AloneInv == GateInv => Alone
BY DEF GateInv, Alone

\* Removing a claim never raises the number of records.
LEMMA Shrink ==
  ASSUME TypeOK, NEW S \in SUBSET claims
  PROVE  Cardinality(S) \in Nat /\ Cardinality(S) <= Cardinality(claims)
BY ClaimsFinite, FS_Subset, FS_CardinalityType

\* Writing one claim raises it by at most one.
LEMMA Grow ==
  ASSUME TypeOK, NEW h
  PROVE  /\ Cardinality(claims \cup {h}) \in Nat
         /\ Cardinality(claims \cup {h}) <= Cardinality(claims) + 1
<1>1. IsFiniteSet(claims) /\ Cardinality(claims) \in Nat
  BY ClaimsFinite
<1>2. Cardinality(claims \cup {h}) =
        IF h \in claims THEN Cardinality(claims) ELSE Cardinality(claims) + 1
  BY <1>1, FS_AddElement
<1> QED
  BY <1>1, <1>2

\* The caller inside begin() may write its record when its count allowed it,
LEMMA CountGrow ==
  ASSUME TypeOK, GateInv, CountInv, NEW t \in Handles, pc[t] = "persist",
         claims' \in {claims, claims \cup {t}},
         pc'[t] \in {"post", "rollback"},
         \A h \in Handles \ {t} : pc'[h] = pc[h]
  PROVE  CountInv'
<1>1. Cardinality(claims) \in Nat /\ MaxPending \in Nat /\ Cardinality(claims) < MaxPending
  BY ClaimsFinite, BoundsNat DEF CountInv
<1>2. Cardinality(claims') \in Nat /\ Cardinality(claims') <= Cardinality(claims) + 1
  <2>1. CASE claims' = claims
    BY <1>1, <2>1
  <2>2. CASE claims' = claims \cup {t}
    BY <2>2, Grow
  <2> QED
    BY <2>1, <2>2
<1>3. \A h \in Handles : pc'[h] \notin {"scan", "send", "persist"}
  BY AloneInv DEF Alone, InBegin
<1> QED
  BY <1>1, <1>2, <1>3 DEF CountInv

\* and everyone else's steps leave the count an upper bound.
LEMMA CountKeep ==
  ASSUME TypeOK, CountInv, claims' \subseteq claims,
         \A h \in Handles : \/ pc'[h] = pc[h] /\ (count' = count \/ pc[h] # "scan")
                            \/ pc'[h] \notin {"scan", "send", "persist"}
                            \/ pc[h] = "send" /\ pc'[h] = "persist"
                            \/ pc'[h] = "scan" /\ Cardinality(claims) <= count'
                            \/ pc'[h] = "send" /\ Cardinality(claims) < MaxPending,
         count' \in Nat
  PROVE  CountInv'
<1>1. Cardinality(claims) \in Nat /\ MaxPending \in Nat /\ count \in Nat
  BY ClaimsFinite, BoundsNat DEF TypeOK, VolatileType
<1>2. Cardinality(claims') \in Nat /\ Cardinality(claims') <= Cardinality(claims)
  BY Shrink
<1> QED
  BY <1>1, <1>2 DEF CountInv

\* The bound on the records is preserved by every step.
LEMMA CountStep ==
  ASSUME TypeOK, TypeOK', GateInv, CountInv, Next
  PROVE  CountInv'
<1> USE AloneInv DEF TypeOK, VolatileType
<1>0. Cardinality(claims) \in Nat /\ MaxPending \in Nat
  BY ClaimsFinite, BoundsNat
<1>1. ASSUME NEW t \in Handles, Enter(t) PROVE CountInv'
  BY <1>1, <1>0, CountKeep DEF Enter, Goto, store, scan
<1>2. ASSUME NEW t \in Handles, ListClaims(t) PROVE CountInv'
  BY <1>2, <1>0, CountKeep DEF ListClaims, Scanned, Leave, Goto, GateInv, CountInv, store, scan, ClearScan, InBegin, Alone
<1>3. ASSUME NEW t \in Handles, NEW n \in Handles, ScanClaim(t, n) PROVE CountInv'
  BY <1>3, <1>0, CountKeep DEF ScanClaim, Scanned, Leave, Goto, GateInv, CountInv, store, scan, ClearScan, InBegin, Alone
<1>4. ASSUME NEW t \in Handles, SendRefused(t) PROVE CountInv'
  BY <1>4, <1>0, CountKeep DEF SendRefused, Leave, Goto, store, scan, ClearScan, InBegin, Alone
<1>5. ASSUME NEW t \in Handles, SendOk(t) PROVE CountInv'
  BY <1>5, <1>0, CountKeep DEF SendOk, Goto, store, scan
<1>6. ASSUME NEW t \in Handles, SendLost(t) PROVE CountInv'
  BY <1>6, <1>0, CountKeep DEF SendLost, Leave, Goto, Fault, store, scan, ClearScan, InBegin, Alone
<1>7. ASSUME NEW t \in Handles, PersistOk(t) PROVE CountInv'
  BY <1>7, CountGrow DEF PersistOk, Goto
<1>8. ASSUME NEW t \in Handles, PersistFail(t) PROVE CountInv'
  BY <1>8, CountGrow DEF PersistFail, Goto
<1>9. ASSUME NEW t \in Handles, Rollback(t) PROVE CountInv'
  BY <1>9, <1>0, CountKeep DEF Rollback, Goto, store, scan
<1>10. ASSUME NEW t \in Handles, RollbackFail(t) PROVE CountInv'
  BY <1>10, <1>0, CountKeep DEF RollbackFail, Leave, Goto, Fault, store, scan, ClearScan, InBegin, Alone
<1>11. ASSUME NEW t \in Handles, Unwind(t) PROVE CountInv'
  BY <1>11, <1>0, CountKeep DEF Unwind, Leave, Goto, Fault, scan, ClearScan, InBegin, Alone
<1>12. ASSUME NEW t \in Handles, CreateReply(t) PROVE CountInv'
  BY <1>12, <1>0, CountKeep DEF CreateReply, Goto, store, scan, ClearScan, InBegin, Alone
<1>13. ASSUME NEW t \in Handles, CreateFail(t) PROVE CountInv'
  BY <1>13, <1>0, CountKeep DEF CreateFail, Goto, Fault, CallSettle, store, scan
<1>14. ASSUME NEW t \in Handles, Finish(t) PROVE CountInv'
  BY <1>14, <1>0, CountKeep DEF Finish, Goto, CallSettle, store, scan
<1>15. ASSUME NEW t \in Handles, SettleGet(t) PROVE CountInv'
  BY <1>15, <1>0, CountKeep DEF SettleGet, EndSettle, Advance, Goto, store, scan, ClearScan, InBegin, Alone
<1>16. ASSUME NEW t \in Handles, SettleRefund(t) PROVE CountInv'
  BY <1>16, <1>0, CountKeep DEF SettleRefund, EndSettle, Advance, Goto, Fault, store, scan, ClearScan, InBegin, Alone
<1>17. ASSUME NEW t \in Handles, SettleInfo(t) PROVE CountInv'
  BY <1>17, <1>0, CountKeep DEF SettleInfo, EndSettle, Advance, Goto, Fault, store, scan, ClearScan, InBegin, Alone
<1>18. ASSUME NEW t \in Handles, SettleArchive(t) PROVE CountInv'
  BY <1>18, <1>0, CountKeep DEF SettleArchive, EndSettle, Advance, Goto, Fault, store, scan, ClearScan, InBegin, Alone
<1>19. ASSUME NEW t \in Handles, SettleReceive(t) PROVE CountInv'
  BY <1>19, <1>0, CountKeep DEF SettleReceive, EndSettle, Advance, Goto, Fault, store, scan, ClearScan, InBegin, Alone
<1>20. ASSUME NEW t \in Handles, SettleCredit(t) PROVE CountInv'
  BY <1>20, <1>0, CountKeep DEF SettleCredit, EndSettle, Advance, Goto, Fault, store, scan, ClearScan, InBegin, Alone
<1>21. ASSUME NEW t \in Handles, SettleRemove(t) PROVE CountInv'
  BY <1>21, <1>0, CountKeep DEF SettleRemove, EndSettle, Goto, Fault, scan, ClearScan, InBegin, Alone
<1>22. ASSUME RecoverStart PROVE CountInv'
  BY <1>22, <1>0, CountKeep DEF RecoverStart, store, scan
<1>23. ASSUME NEW t \in Handles, RecoverOne(t) PROVE CountInv'
  BY <1>23, <1>0, CountKeep DEF RecoverOne, CallSettle, store, scan
<1>24. ASSUME RecoverEnd PROVE CountInv'
  BY <1>24, <1>0, CountKeep DEF RecoverEnd, store, scan
<1>25. ASSUME NEW t \in Handles, AcceptCreate(t) PROVE CountInv'
  BY <1>25, <1>0, CountKeep DEF AcceptCreate, store, scan, volatile
<1>26. ASSUME NEW t \in Handles, DropCreate(t) PROVE CountInv'
  BY <1>26, <1>0, CountKeep DEF DropCreate, store, scan, volatile
<1>27. ASSUME NEW t \in Handles, Charge(t) PROVE CountInv'
  BY <1>27, <1>0, CountKeep DEF Charge, store, scan, volatile
<1>28. ASSUME Crash PROVE CountInv'
  BY <1>28, <1>0, CountKeep DEF Crash, Fault, store, scan, ClearScan, InBegin, Alone
<1>29. ASSUME Restart PROVE CountInv'
  BY <1>29, <1>0, CountKeep DEF Restart, store, scan, volatile
<1> QED
  BY <1>1, <1>2, <1>3, <1>4, <1>5, <1>6, <1>7, <1>8, <1>9, <1>10, <1>11, <1>12, <1>13, <1>14, <1>15, <1>16, <1>17, <1>18, <1>19, <1>20, <1>21, <1>22, <1>23, <1>24, <1>25, <1>26, <1>27, <1>28, <1>29 DEF Next, BeginStep, SettleStep, RecoverStep, ProviderStep

\* Unread records of an earlier process stay unread or stay known.
LEMMA ScanKeep ==
  ASSUME TypeOK, ScanInv, claims' \subseteq claims, held' = held,
         \A h \in Handles :
           \/ pc'[h] = pc[h] /\ (pc[h] = "scan" => todo' = todo /\ open' = open)
           \/ pc'[h] \notin {"scan", "send", "dead"}
  PROVE  ScanInv'
BY DEF ScanInv, Safe, TypeOK, DurableType

\* A settlement that ends does not falsify what begin() has read.
LEMMA EndSettleScan ==
  ASSUME TypeOK, GateInv, ScanInv, NEW h \in Handles, EndSettle(h),
         claims' \subseteq claims, held' = held
  PROVE  ScanInv'
<1>1. \A u \in Handles : pc[u] = "scan" /\ pc[h] = "settle" => u = h
  BY AloneInv DEF Alone, InBegin
<1> QED
  BY <1>1, ScanKeep DEF EndSettle, Goto, TypeOK, VolatileType, scan

\* What begin() knows of old claims is preserved by every step.
LEMMA ScanStep ==
  ASSUME TypeOK, TypeOK', GateInv, LifeInv, ScanInv, Next
  PROVE  ScanInv'
<1> USE AloneInv DEF TypeOK, VolatileType, ScanInv, Safe
<1>1. ASSUME NEW t \in Handles, Enter(t) PROVE ScanInv'
  BY <1>1 DEF Enter, Goto, InBegin, Alone, scan, store
<1>2. ASSUME NEW t \in Handles, ListClaims(t) PROVE ScanInv'
  BY <1>2 DEF ListClaims, Scanned, Leave, Goto, InBegin, Alone, scan, GateInv, LifeInv, Life, OnActive, store, ClearScan
<1>3. ASSUME NEW t \in Handles, NEW n \in Handles, ScanClaim(t, n) PROVE ScanInv'
  <2>1. /\ UNCHANGED <<held, claims>> /\ claims \subseteq Handles
        /\ pc[t] = "scan" /\ n \in todo
    BY <1>3 DEF ScanClaim, store, DurableType
  <2>2. CASE Leave(t)
    BY <2>1, <2>2, ScanKeep DEF Leave, Goto, Alone, InBegin
  <2>3. CASE /\ Goto(t, IF todo' = {} THEN "send" ELSE "scan")
             /\ ~(todo' = {} /\ open')
             /\ todo' = todo \ {n}
             /\ open' = (open \/ (n \notin active /\ Base[n] \notin held))
    <3>1. \A h \in claims : Safe(h)' <=> Safe(h)
      BY <2>1, <2>3 DEF Goto
    <3>2. \A h \in claims : Safe(h) \/ h \in todo' \/ open'
      BY <2>1, <2>3 DEF LifeInv, Life, OnActive
    <3>3. \A u \in Handles : pc'[u] \in {"scan", "send"} => u = t
      BY <2>1, <2>3 DEF Goto, Alone, InBegin
    <3> QED
      BY <2>1, <2>3, <3>1, <3>2, <3>3 DEF Goto
  <2> QED
    BY <1>3, <2>2, <2>3 DEF ScanClaim, Scanned
<1>4. ASSUME NEW t \in Handles, SendRefused(t) PROVE ScanInv'
  BY <1>4 DEF SendRefused, Leave, Goto, InBegin, Alone, scan, store, ClearScan
<1>5. ASSUME NEW t \in Handles, SendOk(t) PROVE ScanInv'
  BY <1>5 DEF SendOk, Goto, InBegin, Alone, scan, store
<1>6. ASSUME NEW t \in Handles, SendLost(t) PROVE ScanInv'
  BY <1>6 DEF SendLost, Leave, Goto, Fault, InBegin, Alone, scan, store, ClearScan
<1>7. ASSUME NEW t \in Handles, PersistOk(t) PROVE ScanInv'
  BY <1>7 DEF PersistOk, Goto, InBegin, Alone, scan
<1>8. ASSUME NEW t \in Handles, PersistFail(t) PROVE ScanInv'
  BY <1>8 DEF PersistFail, Goto, Fault, InBegin, Alone, scan
<1>9. ASSUME NEW t \in Handles, Rollback(t) PROVE ScanInv'
  BY <1>9 DEF Rollback, Goto, InBegin, Alone, scan, store
<1>10. ASSUME NEW t \in Handles, RollbackFail(t) PROVE ScanInv'
  BY <1>10 DEF RollbackFail, Leave, Goto, Fault, InBegin, Alone, scan, store, ClearScan
<1>11. ASSUME NEW t \in Handles, Unwind(t) PROVE ScanInv'
  BY <1>11 DEF Unwind, Leave, Goto, Fault, InBegin, Alone, scan, ClearScan
<1>12. ASSUME NEW t \in Handles, CreateReply(t) PROVE ScanInv'
  BY <1>12 DEF CreateReply, Goto, InBegin, Alone, scan, store, ClearScan
<1>13. ASSUME NEW t \in Handles, CreateFail(t) PROVE ScanInv'
  BY <1>13 DEF CreateFail, Goto, Fault, CallSettle, InBegin, Alone, scan, store
<1>14. ASSUME NEW t \in Handles, Finish(t) PROVE ScanInv'
  BY <1>14 DEF Finish, Goto, CallSettle, InBegin, Alone, scan, store
<1>15. ASSUME NEW t \in Handles, SettleGet(t) PROVE ScanInv'
  BY <1>15, EndSettleScan, ScanKeep DEF SettleGet, Advance, scan, store
<1>16. ASSUME NEW t \in Handles, SettleRefund(t) PROVE ScanInv'
  BY <1>16, EndSettleScan, ScanKeep DEF SettleRefund, Advance, scan, store
<1>17. ASSUME NEW t \in Handles, SettleInfo(t) PROVE ScanInv'
  BY <1>17, EndSettleScan, ScanKeep DEF SettleInfo, Advance, scan, store
<1>18. ASSUME NEW t \in Handles, SettleArchive(t) PROVE ScanInv'
  BY <1>18, EndSettleScan, ScanKeep DEF SettleArchive, Advance, scan, store
<1>19. ASSUME NEW t \in Handles, SettleReceive(t) PROVE ScanInv'
  BY <1>19, EndSettleScan, ScanKeep DEF SettleReceive, Advance, scan, store
<1>20. ASSUME NEW t \in Handles, SettleCredit(t) PROVE ScanInv'
  BY <1>20, EndSettleScan, ScanKeep DEF SettleCredit, Advance, scan, store
<1>21. ASSUME NEW t \in Handles, SettleRemove(t) PROVE ScanInv'
  BY <1>21, EndSettleScan DEF SettleRemove
<1>22. ASSUME RecoverStart PROVE ScanInv'
  BY <1>22 DEF RecoverStart, InBegin, Alone, scan, store
<1>23. ASSUME NEW t \in Handles, RecoverOne(t) PROVE ScanInv'
  BY <1>23 DEF RecoverOne, CallSettle, InBegin, Alone, scan, store
<1>24. ASSUME RecoverEnd PROVE ScanInv'
  BY <1>24 DEF RecoverEnd, InBegin, Alone, scan, store
<1>25. ASSUME NEW t \in Handles, AcceptCreate(t) PROVE ScanInv'
  BY <1>25 DEF AcceptCreate, InBegin, Alone, scan, store, volatile
<1>26. ASSUME NEW t \in Handles, DropCreate(t) PROVE ScanInv'
  BY <1>26 DEF DropCreate, InBegin, Alone, scan, store, volatile
<1>27. ASSUME NEW t \in Handles, Charge(t) PROVE ScanInv'
  BY <1>27 DEF Charge, InBegin, Alone, scan, store, volatile
<1>28. ASSUME Crash PROVE ScanInv'
  BY <1>28 DEF Crash, Fault, InBegin, Alone, scan, store, ClearScan
<1>29. ASSUME Restart PROVE ScanInv'
  BY <1>29 DEF Restart, InBegin, Alone, scan, store, volatile, LifeInv, Life, Ended
<1> QED
  BY <1>1, <1>2, <1>3, <1>4, <1>5, <1>6, <1>7, <1>8, <1>9, <1>10, <1>11, <1>12, <1>13, <1>14, <1>15, <1>16, <1>17, <1>18, <1>19, <1>20, <1>21, <1>22, <1>23, <1>24, <1>25, <1>26, <1>27, <1>28, <1>29 DEF Next, BeginStep, SettleStep, RecoverStep, ProviderStep

\* The inductive invariant.
IInv == TypeOK /\ GateInv /\ LifeInv /\ CountInv /\ ScanInv

\* The inductive invariant holds when the daemon starts with an empty journal.
LEMMA IInvInit == Init => IInv
<1> SUFFICES ASSUME Init PROVE IInv
  OBVIOUS
<1>1. TypeOK
  <2>1. up \in BOOLEAN /\ open \in BOOLEAN /\ recOn \in BOOLEAN
    BY Zenon DEF Init
  <2> QED
    BY <2>1 DEF Init, TypeOK, DurableType, RemoteType, VolatileType, PCs, Tasks
<1>2. GateInv
  BY DEF Init, GateInv, InBegin
<1>3. LifeInv
  <2> SUFFICES ASSUME NEW h \in Handles PROVE Life(h)
    BY DEF LifeInv
  <2>1. up
    BY Zenon DEF Init
  <2> QED
    BY <2>1 DEF Init, Life, Recoverable, OnActive, InBegin, Ended
<1>4. CountInv
  BY FS_EmptySet, BoundsNat DEF Init, CountInv
<1>5. ScanInv
  BY DEF Init, ScanInv
<1> QED
  BY <1>1, <1>2, <1>3, <1>4, <1>5 DEF IInv

\* Every step of the adapter, the provider or a crash preserves it.
LEMMA IInvStep == IInv /\ [Next]_vars => IInv'
<1> SUFFICES ASSUME IInv, [Next]_vars PROVE IInv'
  OBVIOUS
<1>1. TypeOK'
  BY TypeStep DEF IInv
<1>2. CASE Next
  BY <1>1, <1>2, GateStep, LifeStep, CountStep, ScanStep DEF IInv
<1>3. CASE UNCHANGED vars
  BY <1>1, <1>3 DEF vars, store, remote, volatile, scan, rec, IInv, GateInv, LifeInv,
    Life, Recoverable, CountInv, ScanInv, Safe
<1> QED
  BY <1>2, <1>3

\* The inductive invariant holds in every behaviour of routstr-payment.mjs.
THEOREM Invariance == Spec => []IInv
BY IInvInit, IInvStep, PTL DEF Spec

\* Every variable keeps its type: the program counters, the files, the accounts.
THEOREM TypeCorrect == Spec => []TypeOK
<1>1. IInv => TypeOK
  BY DEF IInv
<1> QED
  BY <1>1, Invariance, PTL

\* Money a provider or the mint would still give back has its claim on disk, through
\* every write failure, lost reply and crash.
THEOREM MoneyCovered == Spec => []MoneyHasClaim
<1>1. IInv => MoneyHasClaim
  BY DEF IInv, LifeInv, Life, MoneyHasClaim
<1> QED
  BY <1>1, Invariance, PTL

\* At most MaxPending claims, for any number of concurrent turns.
THEOREM CustodyBounded == Spec => []ClaimBound
<1>1. IInv => ClaimBound
  BY DEF IInv, CountInv, ClaimBound
<1> QED
  BY <1>1, Invariance, PTL

\* The recovery pass never withdraws the balance a turn is using.
THEOREM RefundExcludesUse == Spec => []NoRefundInUse
<1>1. IInv => NoRefundInUse
  BY DEF IInv, LifeInv, Life, NoRefundInUse
<1> QED
  BY <1>1, Invariance, PTL

\* No payment leaves the wallet past the claim of an earlier process.
THEOREM OldClaimsStop == Spec => OldClaimsBlock
<1> DEFINE A == \A t \in Handles : token[t] = "none" /\ token'[t] = "cut" =>
                  \A h \in claims : pc[h] = "dead" => Base[h] \in held
<1>1. ASSUME IInv, Next PROVE A
  <2> SUFFICES ASSUME NEW t \in Handles, token[t] = "none", token'[t] = "cut"
               PROVE  \A h \in claims : pc[h] = "dead" => Base[h] \in held
    OBVIOUS
  <2> USE DEF IInv, TypeOK, DurableType, RemoteType
  <2>1. SendOk(t)
    BY <1>1 DEF Next, BeginStep, SettleStep, RecoverStep, ProviderStep, remote,
      Enter, ListClaims, ScanClaim, SendRefused, SendOk, SendLost, PersistOk, PersistFail,
      Rollback, RollbackFail, Unwind, CreateReply, CreateFail, Finish,
      SettleGet, SettleRefund, SettleInfo, SettleArchive, SettleReceive, SettleCredit,
      SettleRemove, RecoverStart, RecoverOne, RecoverEnd, AcceptCreate, DropCreate, Charge,
      Crash, Restart
  <2> QED
    BY <1>1, <2>1 DEF SendOk, ScanInv, Safe
<1>2. ASSUME IInv, [Next]_vars PROVE [A]_vars
  BY <1>1, <1>2
<1> QED
  BY <1>2, Invariance, PTL DEF Spec, OldClaimsBlock

\* An owner's quarantine keeps a claim and its refund as they are, in every order of
\* turns, settlements, faults and restarts: a settlement past store.get() runs only on
\* a base that is not quarantined, and so does a caller inside begin().
THEOREM QuarantineHolds == Spec => HeldClaimsKept
<1> DEFINE A == \A h \in claims : Base[h] \in held /\ Base[h] \in held' =>
                  h \in claims' /\ rtok'[h] = rtok[h]
<1>1. ASSUME IInv, Next PROVE A
  <2> USE DEF IInv, TypeOK, DurableType, RemoteType
\* Steps that touch neither the records nor the refunds.
  <2>1. ASSUME NEW t \in Handles,
               \/ Enter(t) \/ ListClaims(t) \/ (\E n \in Handles : ScanClaim(t, n))
               \/ SendRefused(t) \/ SendOk(t) \/ SendLost(t) \/ Rollback(t) \/ RollbackFail(t)
               \/ CreateReply(t) \/ CreateFail(t) \/ Finish(t)
        PROVE  UNCHANGED <<claims, rtok>>
    BY <2>1 DEF Enter, ListClaims, ScanClaim, SendRefused, SendOk, SendLost, Rollback,
      RollbackFail, CreateReply, CreateFail, Finish, store, remote
  <2>2. ASSUME NEW h \in Handles,
               SettleGet(h) \/ SettleInfo(h) \/ SettleArchive(h) \/ ProviderStep(h)
        PROVE  UNCHANGED <<claims, rtok>>
    BY <2>2 DEF SettleGet, SettleInfo, SettleArchive, ProviderStep, AcceptCreate,
      DropCreate, Charge, store, remote
  <2>3. ASSUME RecoverStep \/ Crash \/ Restart PROVE UNCHANGED <<claims, rtok>>
    BY <2>3 DEF RecoverStep, RecoverStart, RecoverOne, RecoverEnd, Crash, Restart, store, remote
\* begin() writes its record, and removes it again, for a base that is not held.
  <2>4. ASSUME NEW t \in Handles, PersistOk(t) \/ PersistFail(t) PROVE A
    BY <2>4 DEF PersistOk, PersistFail, remote
  <2>5. ASSUME NEW t \in Handles, Unwind(t) PROVE A
    <3>1. Base[t] \notin held
      BY <1>1, <2>5 DEF Unwind, LifeInv, Life, InBegin
    <3>2. rtok' = rtok /\ claims \ {t} \subseteq claims'
      BY <2>5 DEF Unwind, remote
    <3> QED
      BY <1>1, <3>1, <3>2
\* A settlement past store.get() runs for a base that is not held.
  <2>6. ASSUME NEW t \in Handles,
               SettleRefund(t) \/ SettleReceive(t) \/ SettleCredit(t) \/ SettleRemove(t)
        PROVE  A
    <3>1. Base[t] \notin held
      BY <1>1, <2>6 DEF SettleRefund, SettleReceive, SettleCredit, SettleRemove, LifeInv, Life
    <3>2. claims \ {t} \subseteq claims'
      BY <2>6 DEF SettleRefund, SettleReceive, SettleCredit, SettleRemove, store
    <3>3. rtok' = rtok \/ \E v : rtok' = [rtok EXCEPT ![t] = v]
      BY <2>6 DEF SettleRefund, SettleReceive, SettleCredit, SettleRemove, remote
    <3>4. \A h \in Handles \ {t} : rtok'[h] = rtok[h]
      BY <1>1, <3>3
    <3> QED
      BY <1>1, <3>1, <3>2, <3>4
  <2> QED
    BY <1>1, <2>1, <2>2, <2>3, <2>4, <2>5, <2>6 DEF Next, BeginStep, SettleStep
<1>2. ASSUME IInv, [Next]_vars PROVE [A]_vars
  BY <1>1, <1>2
<1> QED
  BY <1>2, Invariance, PTL DEF Spec, HeldClaimsKept

(***************************************************************************)
(* The adapter implements PaymentCustody                                   *)
(***************************************************************************)
\* Moving the money of one turn is a move of the abstract place.
LEMMA CustodyMove ==
  ASSUME NEW h \in Handles, NEW to,
         Place(h)' = to, \A g \in Handles \ {h} : Place(g)' = Place(g)
  PROVE  Custody!Move(h, Place(h), to)
BY DEF Custody!Move

\* A step that leaves money, posts, claims and archive alone is a stutter.
LEMMA CustodyStutter ==
  ASSUME UNCHANGED <<token, acct, rtok, net, claims, archived>>
  PROVE  UNCHANGED Custody!vars
<1>1. \A h \in Handles : Place(h)' = Place(h)
  BY DEF Place
<1> QED
  BY <1>1 DEF Custody!vars

\* Every step of the adapter is a custody step or leaves custody unchanged.
LEMMA CustodyStep ==
  ASSUME IInv, IInv', Next
  PROVE  [Custody!Next]_Custody!vars
<1> USE DEF IInv, TypeOK, DurableType, RemoteType
<1> DEFINE Rest == UNCHANGED <<net, claims, archived>>
<1>1. ASSUME NEW t \in Handles, SendOk(t) \/ SendLost(t) PROVE Custody!Cut(t)
  <2>1. /\ token[t] = "none"
        /\ \/ token' = [token EXCEPT ![t] = "cut"]
           \/ token' = [token EXCEPT ![t] = "lost"]
        /\ UNCHANGED <<net, acct, rtok, claims, archived>>
    BY <1>1 DEF SendOk, SendLost, LifeInv, Life, store
  <2>2. Place(t) = "wallet" /\ Place(t)' \in {"token", "lost"}
    BY <2>1 DEF Place
  <2>3. \A g \in Handles \ {t} : Place(g)' = Place(g)
    BY <2>1 DEF Place
  <2> QED
    BY <2>1, <2>2, <2>3, CustodyMove DEF Custody!Cut
<1>2. ASSUME NEW t \in Handles, PersistOk(t) \/ PersistFail(t)
      PROVE  [Custody!Next]_Custody!vars
  <2>1. /\ token[t] = "cut" /\ net[t] = "unsent"
        /\ UNCHANGED <<token, acct, rtok, archived>>
        /\ claims' \in {claims, claims \cup {t}}
        /\ \/ net' = net
           \/ net' = [net EXCEPT ![t] = "inflight"] /\ claims' = claims \cup {t}
    BY <1>2 DEF PersistOk, PersistFail, LifeInv, Life, remote
  <2>2. \A g \in Handles : Place(g)' = Place(g)
    BY <2>1 DEF Place
  <2>3. CASE claims' = claims /\ net' = net
    BY <2>1, <2>3, CustodyStutter
  <2>4. CASE claims' = claims \cup {t}
    <3>1. Place(t) = "token"
      BY <2>1 DEF Place
    <3>2. {g \in Handles : net'[g] # "unsent"} \in
            {{g \in Handles : net[g] # "unsent"}, {g \in Handles : net[g] # "unsent"} \cup {t}}
      BY <2>1
    <3> QED
      BY <2>1, <2>2, <2>4, <3>1, <3>2 DEF Custody!Next, Custody!Journal
  <2> QED
    BY <2>1, <2>3, <2>4
<1>3. ASSUME NEW t \in Handles, Rollback(t) PROVE Custody!Undo(t)
  <2>1. /\ token[t] = "cut" /\ net[t] = "unsent" /\ token' = [token EXCEPT ![t] = "stored"]
        /\ UNCHANGED <<net, acct, rtok, claims, archived>>
    BY <1>3 DEF Rollback, LifeInv, Life, store
  <2>2. Place(t) = "token" /\ Place(t)' = "home"
    BY <2>1 DEF Place
  <2>3. \A g \in Handles \ {t} : Place(g)' = Place(g)
    BY <2>1 DEF Place
  <2> QED
    BY <2>1, <2>2, <2>3, CustodyMove DEF Custody!Undo
<1>4. ASSUME NEW t \in Handles, Unwind(t) \/ SettleRemove(t)
      PROVE  [Custody!Next]_Custody!vars
  <2>1. /\ UNCHANGED <<token, net, acct, rtok, archived>>
        /\ claims' \in {claims, claims \ {t}}
    BY <1>4 DEF Unwind, SettleRemove, remote
  <2>2. \/ Place(t) \in {"home", "spent"}
        \/ Place(t) = "dust" /\ t \in archived
    BY <1>4 DEF Unwind, SettleRemove, LifeInv, Life, Place
  <2>3. \A g \in Handles : Place(g)' = Place(g)
    BY <2>1 DEF Place
  <2>4. CASE claims' = claims
    BY <2>1, <2>4, CustodyStutter
  <2>5. CASE claims' = claims \ {t}
    BY <2>1, <2>2, <2>3, <2>5 DEF Custody!Next, Custody!Forget
  <2> QED
    BY <2>1, <2>4, <2>5
<1>5. ASSUME NEW t \in Handles, SettleRefund(t) PROVE [Custody!Next]_Custody!vars
  <2>1. /\ UNCHANGED <<token, net, claims, archived>> /\ t \in claims
        /\ \/ UNCHANGED <<acct, rtok>>
           \/ /\ acct[t] \in {"funded", "refunded"}
              /\ acct' = [acct EXCEPT ![t] = "refunded"]
              /\ rtok' = IF rtok[t] = "none" THEN [rtok EXCEPT ![t] = "issued"] ELSE rtok
    BY <1>5 DEF SettleRefund, LifeInv, Life, store
  <2>2. CASE UNCHANGED <<acct, rtok>>
    BY <2>1, <2>2, CustodyStutter
  <2>3. CASE /\ acct[t] = "funded" /\ acct' = [acct EXCEPT ![t] = "refunded"]
             /\ rtok' = [rtok EXCEPT ![t] = "issued"]
    <3>1. Place(t) = "provider" /\ Place(t)' = "refund"
      BY <2>1, <2>3 DEF LifeInv, Life, Place
    <3>2. \A g \in Handles \ {t} : Place(g)' = Place(g)
      BY <2>1, <2>3 DEF Place
    <3> QED
      BY <2>1, <3>1, <3>2, CustodyMove DEF Custody!Next, Custody!Refund
  <2>4. acct[t] = "funded" => rtok[t] = "none"
    BY DEF LifeInv, Life
  <2>5. acct[t] = "refunded" => rtok[t] # "none"
    BY DEF LifeInv, Life
  <2>6. acct[t] = "refunded" /\ acct' = [acct EXCEPT ![t] = "refunded"] => acct' = acct
    OBVIOUS
  <2> QED
    BY <2>1, <2>2, <2>3, <2>4, <2>5, <2>6
<1>6. ASSUME NEW t \in Handles, SettleArchive(t) PROVE [Custody!Next]_Custody!vars
  <2>1. /\ UNCHANGED <<token, net, acct, rtok, claims>>
        /\ archived' \in {archived, archived \cup {t}}
        /\ t \in claims /\ Place(t) = "dust"
    BY <1>6 DEF SettleArchive, LifeInv, Life, remote, Place
  <2>2. \A g \in Handles : Place(g)' = Place(g)
    BY <2>1 DEF Place
  <2>3. CASE archived' = archived
    BY <2>1, <2>3, CustodyStutter
  <2>4. CASE archived' = archived \cup {t}
    BY <2>1, <2>2, <2>4 DEF Custody!Next, Custody!Archive
  <2> QED
    BY <2>1, <2>3, <2>4
<1>7. ASSUME NEW t \in Handles, SettleReceive(t) \/ SettleCredit(t)
      PROVE  [Custody!Next]_Custody!vars
  <2>1. /\ UNCHANGED <<token, net, acct, claims, archived>>
        /\ t \in claims /\ token[t] = "deposited" /\ acct[t] = "refunded"
        /\ \/ rtok' = rtok
           \/ rtok[t] = "issued" /\ rtok' = [rtok EXCEPT ![t] = "swapped"]
           \/ rtok[t] = "swapped" /\ rtok' = [rtok EXCEPT ![t] = "stored"]
    BY <1>7 DEF SettleReceive, SettleCredit, LifeInv, Life, store
  <2>2. \A g \in Handles \ {t} : Place(g)' = Place(g)
    BY <2>1 DEF Place
  <2>3. CASE rtok' = rtok
    BY <2>1, <2>3, CustodyStutter
  <2>4. CASE rtok[t] = "issued" /\ rtok' = [rtok EXCEPT ![t] = "swapped"]
    <3>1. Place(t) = "refund" /\ Place(t)' = "memory"
      BY <2>1, <2>4 DEF Place
    <3> QED
      BY <2>1, <2>2, <3>1, CustodyMove DEF Custody!Next, Custody!Import
  <2>5. CASE rtok[t] = "swapped" /\ rtok' = [rtok EXCEPT ![t] = "stored"]
    <3>1. Place(t) = "memory" /\ Place(t)' = "home"
      BY <2>1, <2>5 DEF Place
    <3> QED
      BY <2>1, <2>2, <3>1, CustodyMove DEF Custody!Next, Custody!Credit
  <2> QED
    BY <2>1, <2>3, <2>4, <2>5
<1>8. ASSUME NEW t \in Handles, AcceptCreate(t) PROVE Custody!Deposit(t)
  <2>1. /\ net[t] = "inflight" /\ token[t] = "cut" /\ t \in claims /\ acct[t] = "none"
        /\ rtok[t] = "none"
        /\ net' = [net EXCEPT ![t] = "gone"] /\ token' = [token EXCEPT ![t] = "deposited"]
        /\ acct' = [acct EXCEPT ![t] = "funded"]
        /\ UNCHANGED <<rtok, claims, archived>>
    BY <1>8 DEF AcceptCreate, LifeInv, Life, Recoverable, store
  <2>2. Place(t) = "token" /\ Place(t)' = "provider"
    BY <2>1 DEF Place
  <2>3. \A g \in Handles \ {t} : Place(g)' = Place(g)
    BY <2>1 DEF Place
  <2>4. {g \in Handles : net'[g] # "unsent"} = {g \in Handles : net[g] # "unsent"}
    BY <2>1
  <2> QED
    BY <2>1, <2>2, <2>3, <2>4, CustodyMove DEF Custody!Deposit
<1>9. ASSUME NEW t \in Handles, DropCreate(t) PROVE UNCHANGED Custody!vars
  <2>1. /\ {g \in Handles : net'[g] # "unsent"} = {g \in Handles : net[g] # "unsent"}
        /\ UNCHANGED <<token, acct, rtok, claims, archived>>
    BY <1>9 DEF DropCreate, store
  <2>2. \A g \in Handles : Place(g)' = Place(g)
    BY <2>1 DEF Place
  <2> QED
    BY <2>1, <2>2 DEF Custody!vars
<1>10. ASSUME NEW t \in Handles, Charge(t) PROVE [Custody!Next]_Custody!vars
  <2>1. /\ UNCHANGED <<token, net, rtok, claims, archived>>
        /\ \/ acct' = acct
           \/ /\ acct[t] = "funded"
              /\ \/ acct' = [acct EXCEPT ![t] = "dust"]
                 \/ acct' = [acct EXCEPT ![t] = "zero"]
    BY <1>10 DEF Charge, store
  <2>2. CASE acct' = acct
    BY <2>1, <2>2, CustodyStutter
  <2>3. CASE /\ acct[t] = "funded"
             /\ \/ acct' = [acct EXCEPT ![t] = "dust"]
                \/ acct' = [acct EXCEPT ![t] = "zero"]
    <3>1. Place(t) = "provider" /\ Place(t)' \in {"dust", "spent"}
      BY <2>1, <2>3 DEF LifeInv, Life, Place
    <3>2. \A g \in Handles \ {t} : Place(g)' = Place(g)
      BY <2>1, <2>3 DEF Place
    <3> QED
      BY <2>1, <3>1, <3>2, CustodyMove DEF Custody!Next, Custody!Charge
  <2> QED
    BY <2>1, <2>2, <2>3
\* Every other step leaves the money, the network and the records alone.
<1>11. ASSUME NEW t \in Handles,
              \/ Enter(t) \/ ListClaims(t) \/ (\E n \in Handles : ScanClaim(t, n))
              \/ SendRefused(t) \/ RollbackFail(t) \/ CreateReply(t) \/ CreateFail(t)
              \/ Finish(t) \/ SettleGet(t) \/ SettleInfo(t)
       PROVE  UNCHANGED Custody!vars
  BY <1>11, CustodyStutter DEF Enter, ListClaims, ScanClaim, SendRefused, RollbackFail,
    CreateReply, CreateFail, Finish, SettleGet, SettleInfo, store, remote
<1>12. ASSUME RecoverStep \/ Crash \/ Restart PROVE UNCHANGED Custody!vars
  BY <1>12, CustodyStutter DEF RecoverStep, RecoverStart, RecoverOne, RecoverEnd, Crash,
    Restart, store, remote
<1> QED
  BY <1>1, <1>2, <1>3, <1>4, <1>5, <1>6, <1>7, <1>8, <1>9, <1>10, <1>11, <1>12
  DEF Next, BeginStep, SettleStep, ProviderStep, Custody!Next

\* The payment adapter implements its custody specification.
THEOREM Implementation == Spec => ImplementsCustody
<1>1. Init => Custody!Init
  BY DEF Init, Custody!Init, Place
<1>2. IInv /\ IInv' /\ [Next]_vars => [Custody!Next]_Custody!vars
  <2>1. ASSUME UNCHANGED vars PROVE UNCHANGED Custody!vars
    BY <2>1, CustodyStutter DEF vars, store, remote
  <2> QED
    BY <2>1, CustodyStep
<1> QED
  BY <1>1, <1>2, Invariance, PTL DEF Spec, ImplementsCustody, Custody!Spec

(***************************************************************************)
(* ChatTurn.                                                               *)
(***************************************************************************)
Attempts == [sats : 0..Ceiling, slice : Nat, deadline : Nat, worth : Nat, retried : BOOLEAN,
             refund : Nat, code : Codes]

Places == {"route", "discover", "pick", "pay", "call", "settle", "next", "local", "done"}

Types ==
  /\ cfg \in [mode : {"x_cashu", "bearer"}, strategy : Strategies, local : BOOLEAN]
  /\ at \in Places
  /\ clock \in Nat /\ since \in Nat /\ since <= clock
  /\ offers \in Seq(Prices)
  /\ allowance \in Nat /\ reserved \in Nat /\ sent \in Nat /\ out \in Nat
  /\ attempt \in Attempts /\ attempt.refund <= attempt.sats /\ attempt.worth <= attempt.sats
  /\ primary \in Codes
  /\ answer \in [code : Codes, sats : Nat]

\* The paid provider is still to be asked.
Ahead == at \in {"route", "discover"} \/ (at = "local" /\ cfg.strategy = "ollama_first")

\* What is set aside: nothing before the first attempt, and never more than allowed.
Reserve ==
  /\ Ahead => reserved = 0 /\ out = 0 /\ sent = 0 /\ offers = <<>>
  /\ at = "pick" => offers # <<>>
  /\ attempt.sats <= reserved /\ reserved <= allowance

\* Each attempt set its sats aside once, and may give them away twice: the second time
\* only if it is a retry.  What may come back is part of what was given.
Sats ==
  /\ out <= 2 * reserved
  /\ at = "pay" /\ ~attempt.retried => out + 2 * attempt.sats <= 2 * reserved
  /\ at = "pay" \/ (at = "call" /\ ~attempt.retried) => out + attempt.sats <= 2 * reserved
  /\ at \in {"call", "settle"} => attempt.worth <= out

\* The time of an attempt ends within the turn.
Time ==
  /\ at = "route" => clock = 0
  /\ Bearer /\ at = "pay" => since + attempt.slice <= Total
  /\ at = "local" \/ (at = "call" /\ Bearer) => attempt.deadline <= Total

\* With deposits: nothing has left before one, and after one nothing is tried again.
Deposits ==
  Bearer =>
    /\ at \in {"route", "discover", "pick", "pay", "local"} => sent = 0 /\ out = 0
    /\ at \in {"call", "settle"} => sent = 1 /\ out = attempt.sats
    /\ at = "settle" => attempt.code \in {"ok", "payment_recovery_required"}
    /\ at = "next" =>
         \/ sent = 0 /\ out = 0 /\ attempt.code # "ok"
         \/ sent = 1 /\ attempt.code = "payment_recovery_required"
         \/ sent = 1 /\ attempt.code = "ok" /\ out <= attempt.sats - attempt.refund
    /\ sent <= 1 /\ out <= reserved
    /\ answer.code = "ok" => answer.sats \in out..reserved
    /\ answer.code \in Retryable \cup {"budget_exhausted"} => out = 0

\* Only the end of the turn answers it.
Unanswered == at # "done" => answer.code = "none"

ChatInv == Types /\ Reserve /\ Sats /\ Time /\ Deposits /\ Unanswered

\* The attempt is over, with a code.
LEMMA Coded ==
  ASSUME NEW a \in Attempts, NEW c \in Codes, NEW b, b = [a EXCEPT !.code = c]
  PROVE  /\ b \in Attempts
         /\ b.code = c
         /\ b.sats = a.sats /\ b.slice = a.slice /\ b.deadline = a.deadline /\ b.worth = a.worth
             /\ b.retried = a.retried /\ b.refund = a.refund
BY DEF Attempts

\* Sats came back.
LEMMA Refunded ==
  ASSUME NEW a \in Attempts, NEW r \in Nat, NEW b, b = [a EXCEPT !.refund = r]
  PROVE  /\ b \in Attempts
         /\ b.refund = r
         /\ b.sats = a.sats /\ b.slice = a.slice /\ b.deadline = a.deadline /\ b.worth = a.worth
             /\ b.retried = a.retried /\ b.code = a.code
BY DEF Attempts

\* The local model has until d.
LEMMA Timed ==
  ASSUME NEW a \in Attempts, NEW d \in Nat, NEW b, b = [a EXCEPT !.deadline = d]
  PROVE  /\ b \in Attempts
         /\ b.deadline = d
         /\ b.sats = a.sats /\ b.slice = a.slice /\ b.worth = a.worth /\ b.retried = a.retried
             /\ b.refund = a.refund /\ b.code = a.code
BY DEF Attempts

\* Where a turn starts nothing has been set aside or paid.
LEMMA RouteKeeps == ASSUME ChatInv, Route PROVE ChatInv'
<1> USE ChatAssumption DEF ChatInv
<1>1. at = "route" /\ since' = clock /\ clock = 0
          /\ UNCHANGED <<cfg, clock, offers, allowance, reserved, primary, sent, out>>
  BY DEF Route, CallLocal, CallRoutstr, Answer, Go, Time
<1>2. \/ at' = "discover" /\ UNCHANGED <<attempt, answer>>
      \/ at' = "local" /\ attempt' = [attempt EXCEPT !.deadline = clock + SliceFor(LocalSlice)]
          /\ UNCHANGED answer
        /\ cfg.strategy \in {"ollama_only", "ollama_first"}
      \/ at' = "done" /\ answer' = [code |-> "provider_disabled", sats |-> 0] /\ UNCHANGED attempt
  BY DEF Route, CallLocal, CallRoutstr, Answer, Go
<1>3. clock + SliceFor(LocalSlice) \in Nat /\ clock + SliceFor(LocalSlice) <= Total
  BY <1>1 DEF SliceFor, Least, Left, Types
<1>4. attempt' \in Attempts /\ attempt'.sats = attempt.sats /\ attempt'.refund = attempt.refund
          /\ attempt'.code = attempt.code /\ attempt'.worth = attempt.worth /\ attempt'.retried = attempt.retried
          /\ (at' = "local" => attempt'.deadline <= Total)
  BY <1>2, <1>3, Timed DEF Types
<1>5. "provider_disabled" \in Codes /\ "provider_disabled" \notin Retryable
  BY DEF Codes, Final, Retryable
<1>6. Types'
  BY <1>1, <1>2, <1>3, <1>4, <1>5, SMTT(20) DEF Types, Places, Strategies
<1>7. Reserve'
  BY <1>1, <1>2, <1>3, <1>4, <1>5, SMTT(20) DEF Types, Reserve, Ahead, Strategies
<1>8. Sats'
  BY <1>1, <1>2, <1>3, <1>4, <1>5, SMTT(20) DEF Types, Reserve, Ahead, Sats, Strategies
<1>9. Time'
  BY <1>1, <1>2, <1>3, <1>4, <1>5, SMTT(20) DEF Types, Time, Bearer, Strategies
<1>10. Deposits'
  BY <1>1, <1>2, <1>3, <1>4, <1>5, SMTT(20) DEF Types, Reserve, Ahead, Deposits, Bearer, Unanswered, Strategies
<1>11. Unanswered'
  BY <1>1, <1>2, <1>3, <1>4, <1>5, SMTT(20) DEF Types, Unanswered, Strategies
<1> QED BY <1>6, <1>7, <1>8, <1>9, <1>10, <1>11

\* A paid reply is answered with its price; after a deposit no code asks the local model.
LEMMA RoutstrEndsKeeps == ASSUME ChatInv, RoutstrEnds PROVE ChatInv'
<1> USE ChatAssumption DEF ChatInv
<1>1. at = "next" /\ since' = clock /\ UNCHANGED <<cfg, clock, offers, allowance, reserved, sent, out>>
  BY DEF RoutstrEnds, CallLocal, Answer, Go
<1>2. \/ at' = "done" /\ answer' = [code |-> "ok", sats |-> attempt.sats - attempt.refund]
          /\ attempt.code = "ok"
         /\ UNCHANGED <<attempt, primary>>
      \/ at' = "done" /\ answer' = [code |-> attempt.code, sats |-> 0] /\ attempt.code # "ok"
         /\ UNCHANGED <<attempt, primary>>
      \/ at' = "done" /\ answer' = [code |-> "budget_exhausted", sats |-> 0] /\ attempt.code \in Retryable
         /\ UNCHANGED <<attempt, primary>>
      \/ at' = "local" /\ attempt' = [attempt EXCEPT !.deadline = clock + SliceFor(LocalSlice)]
          /\ primary' = attempt.code
        /\ attempt.code \in Retryable /\ cfg.strategy = "routstr_first" /\ UNCHANGED answer
  BY SMTT(60) DEF RoutstrEnds, CallLocal, Answer, Go, WorthAnother
<1>3. at' = "local" => WorthAttempting
  BY DEF RoutstrEnds, Answer, Go
<1>4. SliceFor(LocalSlice) \in Nat /\ (WorthAttempting => clock + SliceFor(LocalSlice) <= Total)
  BY DEF SliceFor, WorthAttempting, Least, Left, Types
<1>5. attempt.sats - attempt.refund \in Nat /\ attempt.code \in Codes /\ "ok" \in Codes
          /\ "budget_exhausted" \in Codes
  BY DEF Types, Attempts, Codes, Final, Retryable
<1>6. attempt' \in Attempts /\ attempt'.sats = attempt.sats /\ attempt'.refund = attempt.refund
          /\ attempt'.code = attempt.code /\ attempt'.worth = attempt.worth /\ attempt'.retried = attempt.retried
          /\ (at' = "local" => attempt'.deadline <= Total)
  BY <1>2, <1>3, <1>4, Timed, clock + SliceFor(LocalSlice) \in Nat DEF Types
<1>7. Types'
  BY <1>1, <1>2, <1>3, <1>4, <1>5, <1>6, SMTT(20) DEF Types, Places, Retryable
<1>8. Reserve'
  BY <1>1, <1>2, <1>3, <1>4, <1>5, <1>6, SMTT(20) DEF Types, Reserve, Ahead, Retryable
<1>9. Sats'
  BY <1>1, <1>2, <1>3, <1>4, <1>5, <1>6, SMTT(20) DEF Types, Reserve, Ahead, Sats, Retryable
<1>10. Time'
  BY <1>1, <1>2, <1>3, <1>4, <1>5, <1>6, SMTT(20) DEF Types, Time, Bearer, Retryable
<1>11. Deposits'
  <2>1. attempt.sats - attempt.refund <= reserved /\ out \in Nat /\ reserved \in Nat
    BY DEF Types, Attempts, Reserve
  <2>2. Bearer /\ attempt.code = "ok" => sent = 1 /\ attempt.sats - attempt.refund \in out..reserved
    BY <1>1, <1>5, <2>1 DEF Deposits
  <2>3. Bearer /\ attempt.code \in Retryable => sent = 0 /\ out = 0
    BY <1>1 DEF Deposits, Retryable
  <2>4. CASE at' = "done" /\ answer' = [code |-> "ok", sats |-> attempt.sats - attempt.refund]
             /\ attempt.code = "ok"
    BY <1>1, <2>1, <2>2, <2>4, SMTT(20) DEF Deposits, Bearer, Retryable
  <2>5. CASE at' = "done" /\ answer' = [code |-> attempt.code, sats |-> 0] /\ attempt.code # "ok"
    BY <1>1, <2>1, <2>3, <2>5, SMTT(20) DEF Deposits, Bearer, Retryable
  <2>6. CASE at' = "done" /\ answer' = [code |-> "budget_exhausted", sats |-> 0] /\ attempt.code \in Retryable
    BY <1>1, <2>1, <2>3, <2>6, SMTT(20) DEF Deposits, Bearer, Retryable
  <2>7. CASE at' = "local" /\ attempt.code \in Retryable /\ UNCHANGED answer
    BY <1>1, <2>1, <2>3, <2>7, SMTT(20) DEF Deposits, Bearer, Retryable
  <2> QED BY ONLY <1>2, <2>4, <2>5, <2>6, <2>7
<1>12. Unanswered'
  BY <1>1, <1>2, <1>3, <1>4, <1>5, <1>6, SMTT(20) DEF Types, Unanswered, Retryable
<1> QED BY <1>7, <1>8, <1>9, <1>10, <1>11, <1>12

\* The local model is free, and nothing has left before it in a turn with deposits.
LEMMA LocalRepliesKeeps == ASSUME ChatInv, LocalReplies PROVE ChatInv'
BY ChatAssumption, SMTT(30) DEF ChatInv, Types, Attempts, Places, Ahead, Reserve, Sats, Time, Deposits
    , Unanswered, Bearer,
  LocalReplies, Answer, Go, Strategies, Codes, Final, Retryable

\* Nor does its failure answer with money spent.
LEMMA LocalFailsKeeps == ASSUME ChatInv, LocalFails PROVE ChatInv'
<1> USE ChatAssumption DEF ChatInv
<1>1. PICK c \in {"unavailable", "upstream_4xx", "upstream_timeout"} :
        \/ Answer(c, 0) /\ cfg.strategy = "ollama_only"
        \/ Answer(primary, 0) /\ cfg.strategy = "routstr_first"
        \/ Answer("budget_exhausted", 0) /\ cfg.strategy = "ollama_first"
        \/ CallRoutstr /\ cfg.strategy = "ollama_first"
  BY DEF LocalFails
<1>2. c \in Codes /\ c # "ok" /\ "budget_exhausted" \in Codes
  BY DEF Codes, Final, Retryable
<1>3. at = "local" BY DEF LocalFails
<1>4. Types'
  BY <1>1, <1>2, <1>3, SMTT(20) DEF Types, Places, Answer, CallRoutstr, Go
<1>5. Reserve'
  BY <1>1, <1>2, <1>3, SMTT(20) DEF Types, Reserve, Ahead, Answer, CallRoutstr, Go
<1>6. Sats'
  BY <1>1, <1>2, <1>3, SMTT(20) DEF Types, Reserve, Ahead, Sats, Answer, CallRoutstr, Go
<1>7. Time'
  BY <1>1, <1>2, <1>3, SMTT(20) DEF Types, Time, Bearer, Answer, CallRoutstr, Go
<1>8. Deposits'
  BY <1>1, <1>2, <1>3, SMTT(20) DEF Types, Reserve, Ahead, Deposits, Bearer, Unanswered, Answer, CallRoutstr, Go
<1>9. Unanswered'
  BY <1>1, <1>2, <1>3, SMTT(20) DEF Types, Unanswered, Answer, CallRoutstr, Go
<1> QED BY <1>4, <1>5, <1>6, <1>7, <1>8, <1>9

\* At most MaxOffers candidates, and nothing set aside for them yet.
LEMMA DiscoveredKeeps == ASSUME ChatInv, Discovered PROVE ChatInv'
BY ChatAssumption, SMTT(30) DEF ChatInv, Types, Attempts, Places, Ahead, Reserve, Sats, Time, Deposits
    , Unanswered, Bearer,
  Discovered, Candidates, Go

\* No candidate: nothing was set aside.
LEMMA NothingFoundKeeps == ASSUME ChatInv, NothingFound PROVE ChatInv'
BY ChatAssumption, SMTT(30) DEF ChatInv, Types, Attempts, Places, Ahead, Reserve, Sats, Time, Deposits
    , Unanswered, Bearer,
  NothingFound, WorthAttempting, Go, Codes, Final, Retryable

\* Setting sats aside makes room for twice as many.
LEMMA Twice ==
  ASSUME NEW a \in Nat, NEW r \in Nat, NEW q \in Nat, a <= 2 * r, r <= q
  PROVE  a <= 2 * q /\ \A m \in Nat : q = r + m => a + 2 * m <= 2 * q
OBVIOUS

\* The sats of the attempt are set aside before it is paid, once.
LEMMA PickKeeps == ASSUME ChatInv, Pick PROVE ChatInv'
<1> USE ChatAssumption DEF ChatInv
<1>1. offers # <<>> /\ at = "pick"
  BY DEF Pick, Types, Reserve
<1>2. Head(offers) \in Prices /\ Tail(offers) \in Seq(Prices) /\ Len(Tail(offers)) = Len(offers) - 1
          /\ Len(offers) \in Nat \ {0}
  BY <1>1, HeadTailProperties, EmptySeq, LenProperties DEF Types
<1>3. PICK m \in 0..Ceiling, l \in Nat : m = SatsFor(Head(offers)) /\ l = SliceFor(Slice)
          /\ (WorthAttempting => clock + l <= Total)
  <2>1. SatsFor(Head(offers)) \in 0..Ceiling
    <3>1. Head(offers) \in Nat /\ Ceiling \in Nat
      BY <1>2
    <3> QED BY <3>1 DEF SatsFor, Least
  <2>2. SliceFor(Slice) \in Nat /\ (WorthAttempting => clock + SliceFor(Slice) <= Total)
    BY DEF SliceFor, WorthAttempting, Least, Left, Types
  <2> QED BY <2>1, <2>2
<1>4. \/ /\ WorthAttempting /\ reserved + m <= allowance
         /\ attempt' = [attempt EXCEPT !.sats = m, !.slice = l, !.retried = FALSE, !.worth = 0,
             !.refund = 0, !.code = "none", !.deadline = 0]
         /\ reserved' = reserved + m /\ at' = "pay"
      \/ attempt' = [attempt EXCEPT !.code = "budget_exhausted"] /\ at' = "next" /\ reserved' = reserved
  BY <1>3, Zenon DEF Pick, Go
<1>5. {"none", "budget_exhausted"} \subseteq Codes
  BY DEF Codes, Final, Retryable
<1>6. /\ attempt' \in Attempts /\ attempt'.refund <= attempt'.sats /\ attempt'.worth <= attempt'.sats
      /\ \/ /\ at' = "pay" /\ attempt'.sats = m /\ attempt'.slice = l /\ WorthAttempting
            /\ reserved' = reserved + m /\ reserved' <= allowance
         \/ at' = "next" /\ attempt'.code = "budget_exhausted" /\ attempt'.sats = attempt.sats
            /\ reserved' = reserved
  <2>1. CASE attempt' = [attempt EXCEPT !.code = "budget_exhausted"] /\ at' = "next" /\ reserved' = reserved
    <3>1. attempt' \in Attempts /\ attempt'.code = "budget_exhausted" /\ attempt'.sats = attempt.sats
              /\ attempt'.refund = attempt.refund /\ attempt'.worth = attempt.worth
      BY <1>5, <2>1, Coded DEF Types
    <3>2. attempt.refund <= attempt.sats /\ attempt.worth <= attempt.sats
      BY DEF Types
    <3> QED BY <2>1, <3>1, <3>2
  <2>2. CASE /\ attempt' = [attempt EXCEPT !.sats = m, !.slice = l, !.retried = FALSE, !.worth = 0,
                 !.refund = 0, !.code = "none", !.deadline = 0]
             /\ at' = "pay" /\ WorthAttempting /\ reserved' = reserved + m /\ reserved + m <= allowance
    <3>1. attempt \in Attempts
      BY DEF Types
    <3>2. attempt' \in Attempts
      BY ONLY <1>3, <1>5, <2>2, <3>1 DEF Attempts
    <3>3. attempt'.sats = m /\ attempt'.slice = l /\ attempt'.refund = 0 /\ attempt'.worth = 0
      BY ONLY <2>2, <3>1 DEF Attempts
    <3> QED BY <1>3, <2>2, <3>2, <3>3
  <2> QED BY <1>4, <2>1, <2>2
<1>7. offers' = Tail(offers) /\ since' = clock
          /\ UNCHANGED <<cfg, clock, allowance, primary, sent, out, answer>>
  BY DEF Pick, Go
<1>8. reserved \in Nat /\ reserved' \in Nat /\ reserved <= reserved' /\ reserved' <= allowance
          /\ attempt'.sats <= reserved'
  BY <1>6 DEF Types, Reserve
<1>9. Types'
  BY <1>1, <1>2, <1>6, <1>7, <1>8, SMTT(20) DEF Types, Places
<1>10. Reserve'
  BY <1>6, <1>7, <1>8, SMTT(20) DEF Reserve, Ahead
<1>11. Sats'
  <2>1. out \in Nat /\ out <= 2 * reserved
    BY DEF Types, Sats
  <2>2. at' \in {"pay", "next"} /\ attempt'.sats \in Nat
    BY <1>6 DEF Attempts
  <2>3. out' = out /\ (at' = "pay" => reserved' = reserved + attempt'.sats)
    BY <1>6, <1>7
  <2>4. out' <= 2 * reserved' /\ (at' = "pay" => out' + 2 * attempt'.sats <= 2 * reserved')
    BY <1>8, <2>1, <2>2, <2>3, Twice, Zenon
  <2>5. out' \in Nat /\ (at' = "pay" => out' + attempt'.sats <= 2 * reserved')
    BY ONLY <1>8, <2>1, <2>2, <2>3
  <2> QED BY ONLY <2>2, <2>4, <2>5 DEF Sats
<1>12. Time'
  BY <1>1, <1>3, <1>6, <1>7, SMTT(20) DEF Types, Time, Bearer
<1>13. Deposits'
  BY <1>1, <1>6, <1>7, <1>8, SMTT(20) DEF Types, Deposits, Bearer, Unanswered, Retryable
<1>14. Unanswered'
  BY <1>1, <1>6, <1>7, SMTT(20) DEF Unanswered
<1> QED BY <1>9, <1>10, <1>11, <1>12, <1>13, <1>14

\* Another candidate is tried only if nothing is in doubt.
LEMMA AnotherKeeps == ASSUME ChatInv, Another PROVE ChatInv'
BY ChatAssumption, SMTT(30) DEF ChatInv, Types, Attempts, Places, Ahead, Reserve, Sats, Time, Deposits
    , Unanswered, Bearer,
  Another, WorthAnother, Go, Codes, Final, Retryable

\* What leaves was set aside, and a bearer deadline is counted from before the deposit.
LEMMA PaidKeeps == ASSUME ChatInv, Paid PROVE ChatInv'
<1> USE ChatAssumption DEF ChatInv
<1>1. PICK w \in (IF Bearer THEN {attempt.sats} ELSE 0..attempt.sats) :
        /\ attempt' = [attempt EXCEPT !.worth = w, !.deadline = Deadline]
        /\ out' = out + w
  BY Zenon DEF Paid
<1>2. Deadline \in Nat /\ (Bearer => Deadline = since + attempt.slice) /\ attempt.sats \in Nat /\ out \in Nat
  BY DEF Types, Attempts, Deadline
<1>3. w \in Nat /\ w <= attempt.sats /\ (Bearer => w = attempt.sats)
  BY <1>2
<1>4. /\ attempt' \in Attempts
      /\ attempt'.worth = w /\ attempt'.deadline = Deadline /\ attempt'.sats = attempt.sats
      /\ attempt'.refund = attempt.refund /\ attempt'.code = attempt.code
      /\ attempt'.retried = attempt.retried
  BY <1>1, <1>2, <1>3 DEF Types, Attempts
<1>5. at = "pay" /\ at' = "call" /\ since' = clock /\ sent' = sent + 1
          /\ UNCHANGED <<cfg, clock, offers, allowance, reserved, primary, answer>>
  BY DEF Paid, Go
<1>6. out' = out + w
  BY <1>1
<1>7. reserved \in Nat /\ attempt.sats <= reserved
  BY DEF Types, Reserve
<1>8. Types'
  BY <1>1, <1>2, <1>3, <1>4, <1>5, <1>6, <1>7, SMTT(20) DEF Types, Places, Retryable
<1>9. Reserve'
  BY <1>1, <1>2, <1>3, <1>4, <1>5, <1>6, <1>7, SMTT(20) DEF Types, Reserve, Ahead, Retryable
<1>10. Sats'
  BY <1>1, <1>2, <1>3, <1>4, <1>5, <1>6, <1>7, SMTT(20) DEF Types, Reserve, Ahead, Sats, Retryable
<1>11. Time'
  BY <1>1, <1>2, <1>3, <1>4, <1>5, <1>6, <1>7, SMTT(20) DEF Types, Time, Bearer, Retryable
<1>12. Deposits'
  BY <1>1, <1>2, <1>3, <1>4, <1>5, <1>6, <1>7, SMTT(20) DEF Types, Reserve, Ahead, Deposits, Bearer
      , Unanswered, Retryable
<1>13. Unanswered'
  BY <1>1, <1>2, <1>3, <1>4, <1>5, <1>6, <1>7, SMTT(20) DEF Types, Unanswered, Retryable
<1> QED BY <1>8, <1>9, <1>10, <1>11, <1>12, <1>13

\* Nothing has left.
LEMMA NotPaidKeeps == ASSUME ChatInv, NotPaid PROVE ChatInv'
<1> USE ChatAssumption DEF ChatInv
<1>1. PICK c \in {"insufficient_funds", "payment_recovery_required"} : attempt' = [attempt EXCEPT !.code = c]
  BY DEF NotPaid, Attempted
<1>2. c \in Codes
  BY DEF Codes, Final, Retryable
<1>3. attempt' \in Attempts /\ attempt'.code = c /\ attempt'.sats = attempt.sats
          /\ attempt'.refund = attempt.refund /\ attempt'.worth = attempt.worth
          /\ attempt'.retried = attempt.retried
  BY <1>1, <1>2, Coded DEF Types
<1>4. Types'
  BY <1>1, <1>2, <1>3, SMTT(20) DEF Types, Places, NotPaid, Attempted, Go
<1>5. Reserve'
  BY <1>1, <1>2, <1>3, SMTT(20) DEF Types, Attempts, Reserve, Ahead, NotPaid, Attempted, Go, Retryable
<1>6. Sats'
  BY <1>1, <1>2, <1>3, SMTT(20) DEF Types, Attempts, Reserve, Ahead, Sats, NotPaid, Attempted, Go, Retryable
<1>7. Time'
  BY <1>1, <1>2, <1>3, SMTT(20) DEF Types, Attempts, Time, Bearer, NotPaid, Attempted, Go, Retryable
<1>8. Deposits'
  BY <1>1, <1>2, <1>3, SMTT(20) DEF Types, Attempts, Reserve, Ahead, Deposits, Bearer, NotPaid, Attempted
      , Go, Retryable
<1>9. Unanswered'
  BY <1>1, <1>2, <1>3, SMTT(20) DEF Types, Unanswered, NotPaid, Attempted, Go, Retryable
<1> QED BY <1>4, <1>5, <1>6, <1>7, <1>8, <1>9

\* What the wallet is short of was set aside, and its code ends the paid attempts.
LEMMA DepositFailsKeeps == ASSUME ChatInv, DepositFails PROVE ChatInv'
<1> USE ChatAssumption DEF ChatInv
<1>1. PICK r \in 0..attempt.sats : out' = out + attempt.sats - r
  BY DEF DepositFails
<1>2. attempt.sats \in 0..Ceiling /\ r \in Nat /\ r <= attempt.sats
  BY DEF Types, Attempts
<1>3. "payment_recovery_required" \in Codes
  BY DEF Codes, Final, Retryable
<1>4. attempt' \in Attempts /\ attempt'.code = "payment_recovery_required" /\ attempt'.sats = attempt.sats
          /\ attempt'.refund = attempt.refund /\ attempt'.worth = attempt.worth
  BY <1>3, Coded DEF Types, DepositFails, Attempted
<1>5. at = "pay" /\ at' = "next" /\ Bearer /\ sent' = sent + 1 /\ since' = clock
  BY DEF DepositFails, Attempted, Go
<1>6. out' \in Nat /\ out' <= out + attempt.sats /\ out \in Nat
  BY <1>1, <1>2 DEF Types
<1>7. UNCHANGED <<cfg, clock, offers, allowance, reserved, primary, answer>>
  BY DEF DepositFails
<1>8. Types'
  BY <1>1, <1>2, <1>3, <1>4, <1>5, <1>6, <1>7, SMTT(20) DEF Types, Places, Retryable
<1>9. Reserve'
  BY <1>1, <1>2, <1>3, <1>4, <1>5, <1>6, <1>7, SMTT(20) DEF Types, Reserve, Ahead, Retryable
<1>10. Sats'
  BY <1>1, <1>2, <1>3, <1>4, <1>5, <1>6, <1>7, SMTT(20) DEF Types, Reserve, Ahead, Sats, Retryable
<1>11. Time'
  BY <1>1, <1>2, <1>3, <1>4, <1>5, <1>6, <1>7, SMTT(20) DEF Types, Time, Bearer, Retryable
<1>12. Deposits'
  BY <1>1, <1>2, <1>3, <1>4, <1>5, <1>6, <1>7, SMTT(20) DEF Types, Reserve, Ahead, Deposits, Bearer
      , Unanswered, Retryable
<1>13. Unanswered'
  BY <1>1, <1>2, <1>3, <1>4, <1>5, <1>6, <1>7, SMTT(20) DEF Types, Unanswered, Retryable
<1> QED BY <1>8, <1>9, <1>10, <1>11, <1>12, <1>13

\* The reply costs nothing more.
LEMMA RepliesKeeps == ASSUME ChatInv, Replies PROVE ChatInv'
<1> USE ChatAssumption DEF ChatInv
<1>1. "ok" \in Codes
  BY DEF Codes, Final, Retryable
<1>2. attempt' \in Attempts /\ attempt'.code = "ok" /\ attempt'.sats = attempt.sats
          /\ attempt'.refund = attempt.refund /\ attempt'.worth = attempt.worth
          /\ attempt'.retried = attempt.retried
  BY <1>1, Coded DEF Types, Replies
<1>3. Types'
  BY <1>1, <1>2, SMTT(20) DEF Types, Places, Replies, Go
<1>4. Reserve'
  BY <1>1, <1>2, SMTT(20) DEF Types, Attempts, Reserve, Ahead, Replies, Go, Retryable
<1>5. Sats'
  BY <1>1, <1>2, SMTT(20) DEF Types, Attempts, Reserve, Ahead, Sats, Replies, Go, Retryable
<1>6. Time'
  BY <1>1, <1>2, SMTT(20) DEF Types, Attempts, Time, Bearer, Replies, Go, Retryable
<1>7. Deposits'
  BY <1>1, <1>2, SMTT(20) DEF Types, Attempts, Reserve, Ahead, Deposits, Bearer, Replies, Go, Retryable
<1>8. Unanswered'
  BY <1>1, <1>2, SMTT(20) DEF Types, Unanswered, Replies, Go, Retryable
<1> QED BY <1>3, <1>4, <1>5, <1>6, <1>7, <1>8

\* A failed request ends in a code that, after a deposit, is not retryable.
LEMMA RequestFailsKeeps == ASSUME ChatInv, RequestFails PROVE ChatInv'
<1> USE ChatAssumption DEF ChatInv
<1>1. PICK c \in {"unavailable", "upstream_timeout", "upstream_4xx", "insufficient_funds"} :
        /\ attempt' = [attempt EXCEPT !.code = Failure(c)]
        /\ IF ~Bearer /\ c \in {"upstream_4xx", "insufficient_funds"} THEN Go("next") ELSE Go("settle")
  BY DEF RequestFails
<1>2. Failure(c) \in Codes /\ (Bearer => Failure(c) = "payment_recovery_required")
  BY DEF Failure, Codes, Final, Retryable
<1>3. attempt' \in Attempts /\ attempt'.code = Failure(c) /\ attempt'.sats = attempt.sats
          /\ attempt'.refund = attempt.refund /\ attempt'.worth = attempt.worth
          /\ attempt'.retried = attempt.retried
  BY <1>1, <1>2, Coded DEF Types
<1>4. at = "call" /\ at' \in {"next", "settle"} /\ (Bearer => at' = "settle") /\ since' = clock
  BY <1>1 DEF Go, RequestFails
<1>5. Types'
  BY <1>1, <1>2, <1>3, <1>4, SMTT(20) DEF Types, Places, RequestFails
<1>6. Reserve'
  BY <1>1, <1>2, <1>3, <1>4, SMTT(20) DEF Types, Attempts, Reserve, Ahead, RequestFails, Retryable
<1>7. Sats'
  BY <1>1, <1>2, <1>3, <1>4, SMTT(20) DEF Types, Attempts, Reserve, Ahead, Sats, RequestFails, Retryable
<1>8. Time'
  BY <1>1, <1>2, <1>3, <1>4, SMTT(20) DEF Types, Attempts, Time, Bearer, RequestFails, Retryable
<1>9. Deposits'
  BY <1>1, <1>2, <1>3, <1>4, SMTT(20) DEF Types, Attempts, Reserve, Ahead, Deposits, Bearer, RequestFails
      , Retryable
<1>10. Unanswered'
  BY <1>1, <1>2, <1>3, <1>4, SMTT(20) DEF Types, Unanswered, RequestFails, Retryable
<1> QED BY <1>5, <1>6, <1>7, <1>8, <1>9, <1>10

\* Only the first payment of an attempt is repeated.
LEMMA AlreadySpentKeeps == ASSUME ChatInv, AlreadySpent PROVE ChatInv'
<1> USE ChatAssumption DEF ChatInv
<1>1. at = "call" /\ ~Bearer /\ since' = clock
          /\ UNCHANGED <<cfg, clock, offers, allowance, reserved, primary, sent, out, answer>>
  BY DEF AlreadySpent, Attempted, Go
<1>2. \/ ~attempt.retried /\ attempt' = [attempt EXCEPT !.retried = TRUE] /\ at' = "pay"
      \/ attempt' = [attempt EXCEPT !.code = "token_already_spent"] /\ at' = "next"
  BY Zenon DEF AlreadySpent, MayRetry, Attempted, Go
<1>3. "token_already_spent" \in Codes
  BY DEF Codes, Final, Retryable
<1>4. attempt' \in Attempts /\ attempt'.sats = attempt.sats /\ attempt'.refund = attempt.refund
          /\ attempt'.worth = attempt.worth /\ (at' = "pay" => ~attempt.retried /\ attempt'.retried)
  <2>1. CASE ~attempt.retried /\ attempt' = [attempt EXCEPT !.retried = TRUE]
    BY <2>1 DEF Types, Attempts
  <2>2. CASE attempt' = [attempt EXCEPT !.code = "token_already_spent"] /\ at' = "next"
    BY <1>3, <2>2, Coded DEF Types
  <2> QED BY <1>2, <2>1, <2>2
<1>5. Types'
  BY <1>1, <1>2, <1>3, <1>4, SMTT(20) DEF Types, Places, Retryable
<1>6. Reserve'
  BY <1>1, <1>2, <1>3, <1>4, SMTT(20) DEF Types, Reserve, Ahead, Retryable
<1>7. Sats'
  BY <1>1, <1>2, <1>3, <1>4, SMTT(20) DEF Types, Reserve, Ahead, Sats, Retryable
<1>8. Time'
  BY <1>1, <1>2, <1>3, <1>4, SMTT(20) DEF Types, Time, Bearer, Retryable
<1>9. Deposits'
  BY <1>1, <1>2, <1>3, <1>4, SMTT(20) DEF Types, Reserve, Ahead, Deposits, Bearer, Unanswered, Retryable
<1>10. Unanswered'
  BY <1>1, <1>2, <1>3, <1>4, SMTT(20) DEF Types, Unanswered, Retryable
<1> QED BY <1>5, <1>6, <1>7, <1>8, <1>9, <1>10

\* No more comes back than left.
LEMMA SettledKeeps == ASSUME ChatInv, Settled PROVE ChatInv'
<1> USE ChatAssumption DEF ChatInv
<1>1. PICK r \in Nat, t \in Nat :
        /\ r <= attempt.worth /\ t <= r
        /\ out' = out - r /\ attempt' = [attempt EXCEPT !.refund = t]
  <2>1. PICK b \in 0..attempt.worth :
          \E d \in {0, b} : out' = out - b /\ attempt' = [attempt EXCEPT !.refund = d]
    BY DEF Settled
  <2>2. b \in Nat /\ b <= attempt.worth
    BY <2>1 DEF Types, Attempts
  <2> QED BY <2>1, <2>2
<1>2. attempt.worth \in Nat /\ attempt.sats \in Nat /\ attempt.worth <= attempt.sats
  BY DEF Types, Attempts
<1>3. attempt' \in Attempts /\ attempt'.refund = t /\ attempt'.sats = attempt.sats
          /\ attempt'.code = attempt.code /\ attempt'.worth = attempt.worth
  BY <1>1, Refunded DEF Types
<1>4. at = "settle" /\ at' = "next" /\ since' = clock
          /\ UNCHANGED <<cfg, clock, offers, allowance, reserved, primary, sent, answer>>
  BY DEF Settled, Go
<1>5. out' \in Nat /\ out' = out - r
  <2>1. out \in Nat /\ attempt.worth <= out
    BY <1>4 DEF Types, Sats
  <2> QED BY <1>1, <1>2, <2>1
<1>6. Types'
  BY <1>1, <1>2, <1>3, <1>4, <1>5, SMTT(20) DEF Types, Places, Retryable
<1>7. Reserve'
  BY <1>1, <1>2, <1>3, <1>4, <1>5, SMTT(20) DEF Types, Reserve, Ahead, Retryable
<1>8. Sats'
  BY <1>1, <1>2, <1>3, <1>4, <1>5, SMTT(20) DEF Types, Reserve, Ahead, Sats, Retryable
<1>9. Time'
  BY <1>1, <1>2, <1>3, <1>4, <1>5, SMTT(20) DEF Types, Time, Bearer, Retryable
<1>10. Deposits'
  BY <1>1, <1>2, <1>3, <1>4, <1>5, SMTT(20) DEF Types, Reserve, Ahead, Deposits, Bearer, Unanswered, Retryable
<1>11. Unanswered'
  BY <1>1, <1>2, <1>3, <1>4, <1>5, SMTT(20) DEF Types, Unanswered, Retryable
<1> QED BY <1>6, <1>7, <1>8, <1>9, <1>10, <1>11

\* Time disturbs no sats, and the deadlines were fixed before it passed.
LEMMA TickKeeps == ASSUME ChatInv, Tick PROVE ChatInv'
<1> USE ChatAssumption DEF ChatInv
<1>1. clock' = clock + 1
          /\ UNCHANGED <<cfg, at, since, offers, allowance, reserved, attempt, primary, sent, out, answer>> /\ at # "route"
  BY DEF Tick
<1>2. Types'
  BY <1>1, SMTT(20) DEF Types, Places, Retryable
<1>3. Reserve'
  BY <1>1, SMTT(20) DEF Types, Reserve, Ahead, Retryable
<1>4. Sats'
  BY <1>1, SMTT(20) DEF Types, Reserve, Ahead, Sats, Retryable
<1>5. Time'
  BY <1>1, SMTT(20) DEF Types, Time, Bearer, Retryable
<1>6. Deposits'
  BY <1>1, SMTT(20) DEF Types, Reserve, Ahead, Deposits, Bearer, Unanswered, Retryable
<1>7. Unanswered'
  BY <1>1, SMTT(20) DEF Types, Unanswered, Retryable
<1> QED BY <1>2, <1>3, <1>4, <1>5, <1>6, <1>7

\* A turn begins with nothing set aside.
LEMMA InitInv == ChatInit => ChatInv
<1> SUFFICES ASSUME ChatInit PROVE ChatInv
  OBVIOUS
<1> USE ChatAssumption DEF ChatInit
<1>1. 0 \in 0..Ceiling /\ "none" \in Codes /\ "none" \notin Retryable
  BY DEF Codes, Final, Retryable
<1>3. Types
  BY <1>1 DEF Types, Attempts, Places
<1>4. Reserve
  BY DEF Reserve, Ahead
<1>5. Sats /\ Time /\ Unanswered
  BY DEF Sats, Time, Unanswered
<1>6. Deposits
  BY <1>1 DEF Deposits
<1> QED BY <1>3, <1>4, <1>5, <1>6 DEF ChatInv

\* Every step of the turn keeps the invariant.
LEMMA StepKeeps == ChatInv /\ [ChatNext]_chatVars => ChatInv'
<1> SUFFICES ASSUME ChatInv, [ChatNext]_chatVars PROVE ChatInv'
  OBVIOUS
<1>1. CASE UNCHANGED chatVars
  BY <1>1 DEF chatVars, ChatInv, Types, Reserve, Ahead, Sats, Time, Deposits, Unanswered, Bearer
<1>2. CASE Steps
  BY <1>2, RouteKeeps, RoutstrEndsKeeps, LocalRepliesKeeps, LocalFailsKeeps, DiscoveredKeeps, NothingFoundKeeps,
     PickKeeps, AnotherKeeps, PaidKeeps, NotPaidKeeps, DepositFailsKeeps, RepliesKeeps, RequestFailsKeeps,
     AlreadySpentKeeps, SettledKeeps
     DEF Steps
<1>3. CASE Tick
  BY <1>3, TickKeeps
<1> QED BY <1>1, <1>2, <1>3 DEF ChatNext

\* The strengthening holds in every state of a turn.
THEOREM Inductive == ChatSpec => []ChatInv
BY InitInv, StepKeeps, PTL DEF ChatSpec

\* What the strengthening says of the sats and the time of a turn.
LEMMA Bounded == ChatInv => WithinBudget
<1> SUFFICES ASSUME ChatInv PROVE WithinBudget
  OBVIOUS
<1> USE ChatAssumption DEF ChatInv
<1>1. ChatTypeOK
  BY DEF ChatTypeOK, Types, Attempts, Places
<1>2. reserved <= allowance
  BY DEF Reserve
<1>3. out \in 0..(IF Bearer THEN reserved ELSE 2 * reserved)
  BY DEF Types, Sats, Deposits
<1>4. (at = "local" \/ (at = "call" /\ Bearer)) => attempt.deadline <= Total
  BY DEF Time
<1> QED BY <1>1, <1>2, <1>3, <1>4 DEF WithinBudget

\* With deposits what a turn costs is within what its attempts set aside, with tokens
\* within twice that; what they set aside is within the allowance of the turn; and with
\* deposits no call is given time beyond the budget of the turn.
THEOREM Within == ChatSpec => []WithinBudget
BY Inductive, Bounded, PTL

\* With deposits a turn pays at most once, and its answer says what that cost.
THEOREM PaidOnce == ChatSpec => []PaidOnceAndTold
<1>1. ChatInv => PaidOnceAndTold
  BY DEF ChatInv, Deposits, PaidOnceAndTold
<1> QED BY <1>1, Inductive, PTL
=============================================================================
