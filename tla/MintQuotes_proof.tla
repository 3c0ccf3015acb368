------------------------- MODULE MintQuotes_proof -------------------------
(***************************************************************************)
(* Proofs about MintQuotes and the ProofStore it extends: every proof is   *)
(* accounted for once, a paid quote can be resumed until its proofs are    *)
(* stored, and the wallet implements Purse, so that no write drops a proof *)
(* the mint honours, for any callers, proofs, quotes and faults.           *)
(***************************************************************************)
EXTENDS MintQuotes, SequenceTheorems, FiniteSetTheorems, TLAPS

Waits == {"append", "send", "drop", "qappend"}
Inside == {"appending", "check", "clean", "swap", "persist", "dropping", "qappending", "mark"}

\* The queue of the lock holds those that wait for it or are inside, each once, and
\* only the first of them is inside.
LockInv ==
  /\ \A c \in Callers : at[c] \in Waits \cup Inside <=> \E i \in 1..Len(lockq) : lockq[i] = c
  /\ \A i, j \in 1..Len(lockq) : lockq[i] = lockq[j] => i = j
  /\ \A c \in Callers : at[c] \in Inside => lockq[1] = c

\* What a caller read is what the file holds, less what it saw spent.
SnapOK(c) ==
  /\ at[c] \in {"appending", "check", "swap", "dropping", "qappending"} => snap[c] = file
  /\ at[c] \in {"clean", "persist"} =>
       \A p \in Proofs : snap[c][p] = file[p] \/ (snap[c][p] = 0 /\ mint[p] = "spent")
  /\ at[c] \in {"clean", "swap"} => \A p \in use[c] : snap[c][p] > 0

SnapInv == \A c \in Callers : SnapOK(c)

InHand == {"append", "appending", "persist", "token"}
Spending == {"paid", "drop", "dropping"}
Minting == {"qappend", "qappending"}

\* What a caller has in hand: proofs nobody else has, proofs handed to a provider, or
\* the proofs of a quote.
HandOK(c) ==
  /\ at[c] \notin InHand \cup Spending \cup Minting => mem[c] = {}
  /\ at[c] \in InHand => \A p \in mem[c] : p \notin Reserved /\ file[p] = 0 /\ p \notin out
  /\ at[c] \in Spending => mem[c] \subseteq out
  /\ at[c] \in {"drop", "dropping"} => \A p \in mem[c] : mint[p] = "spent"
  /\ at[c] \in Minting => mem[c] \subseteq Reserved
  /\ \A p \in mem[c] : mint[p] # "unissued"

HandInv ==
  /\ \A c \in Callers : HandOK(c)
  /\ \A c, d \in Callers : at[c] \in InHand /\ at[d] \in InHand /\ mem[c] \cap mem[d] # {} => c = d

\* Where a proof may be, by what the mint knows of it.
Accounted(p) == file[p] > 0 \/ p \in out \/ p \in lost \/ \E c \in Callers : p \in mem[c]

ProofOK(p) ==
  /\ mint[p] = "unissued" => file[p] = 0 /\ p \notin out
  /\ mint[p] \in {"unspent", "pending"} => Accounted(p)
  /\ mint[p] = "pending" => file[p] > 0
  /\ p \in out => file[p] = 0 /\ p \notin Reserved
  /\ file[p] <= 1

ProofInv == \A p \in Proofs : ProofOK(p)

\* The proofs of a quote are stored, or spent since.
Held(q) == file[QuoteProof[q]] > 0 \/ mint[QuoteProof[q]] = "spent"

QuoteOK(q) ==
  /\ quote[q] # "issued" <=> mint[QuoteProof[q]] = "unissued"
  /\ q \in shown /\ quote[q] = "unpaid" => marker[q] = "open"
  /\ quote[q] \in {"paid", "issued"} => q \in shown /\ (marker[q] = "open" \/ Held(q))

\* A quote is shown once its marker is there; its proofs are in the hands of a poller
\* until they are stored.
DoingOK(c) ==
  /\ \A q, r \in doing[c] : q = r
  /\ at[c] = "marking" => \A q \in doing[c] : quote[q] = "unpaid" /\ q \notin shown
  /\ at[c] \in Minting => \A q \in doing[c] : quote[q] = "issued" /\ QuoteProof[q] \in mem[c]
  /\ at[c] = "mark" => \A q \in doing[c] : quote[q] = "issued" /\ Held(q)

QuoteInv ==
  /\ \A q \in Quotes : QuoteOK(q) /\ (q \in shown => quote[q] # "none")
  /\ \A c \in Creators \cup Pollers : DoingOK(c)
  /\ \A c, d \in Creators \cup Pollers :
       at[c] = "marking" /\ at[d] = "marking" /\ doing[c] \cap doing[d] # {} => c = d

IInv == TypeOK /\ LockInv /\ SnapInv /\ HandInv /\ ProofInv /\ QuoteInv

(***************************************************************************)
(* Types.                                                                  *)
(***************************************************************************)
ProofType ==
  /\ mint \in [Proofs -> {"unissued", "unspent", "pending", "spent"}]
  /\ file \in [Proofs -> Nat] /\ out \subseteq Proofs /\ lost \subseteq Proofs /\ faults \in Nat
HandType ==
  /\ snap \in [Callers -> [Proofs -> Nat]]
  /\ use \in [Callers -> SUBSET Proofs] /\ mem \in [Callers -> SUBSET Proofs]
LockType == at \in [Callers -> QuoteAts] /\ lockq \in Seq(Callers)
QuoteType ==
  /\ quote \in [Quotes -> {"none", "unpaid", "paid", "issued"}]
  /\ marker \in [Quotes -> {"none", "open", "torn", "minted"}]
  /\ shown \subseteq Quotes /\ recent \subseteq Quotes
  /\ doing \in [Creators \cup Pollers -> SUBSET Quotes]
SetType ==
  /\ mapped \in Creators \cup {NoSet}
  /\ ref \in [Creators -> Creators \cup {NoSet}]
  /\ members \in [Creators -> SUBSET Quotes]

LEMMA Types ==
  /\ TypeOK <=> ProofType /\ HandType /\ LockType /\ QuoteType /\ SetType
  /\ TypeOK' <=> ProofType' /\ HandType' /\ LockType' /\ QuoteType' /\ SetType'
<1>1. TypeOK <=> ProofType /\ HandType /\ LockType /\ QuoteType /\ SetType
  BY DEF TypeOK, StoreType, ProofType, HandType, LockType, QuoteType, SetType
<1>2. TypeOK' <=> ProofType' /\ HandType' /\ LockType' /\ QuoteType' /\ SetType'
  BY DEF TypeOK, StoreType, ProofType, HandType, LockType, QuoteType, SetType
<1> QED
  BY <1>1, <1>2

LEMMA TypesHold == IInv => ProofType /\ HandType /\ LockType /\ QuoteType /\ SetType
BY Types DEF IInv

(***************************************************************************)
(* The lock.                                                               *)
(***************************************************************************)
InLine(c) == at[c] \in Waits \cup Inside

\* How a caller moves: it joins the queue, goes on inside, leaves the lock, or moves
\* where no lock is held.
Joins(c) == ~InLine(c) /\ Queue(c) /\ \E l \in Waits : Goto(c, l)
Works(c) == InLine(c) /\ Holds(c) /\ UNCHANGED lockq /\ \E l \in Inside : Goto(c, l)
Leaves(c) ==
  InLine(c) /\ Holds(c) /\ lockq' = Tail(lockq) /\ \E l \in QuoteAts \ (Waits \cup Inside) : Goto(c, l)
Moves(c) == ~InLine(c) /\ UNCHANGED lockq /\ \E l \in QuoteAts \ (Waits \cup Inside) : Goto(c, l)

LEMMA JoinsLine ==
  ASSUME LockType, LockInv, NEW c \in Callers, Joins(c)
  PROVE  LockType' /\ LockInv'
<1>1. PICK l \in Waits : at' = [at EXCEPT ![c] = l]
  BY DEF Joins, Goto
<1>2. at'[c] = l /\ \A d \in Callers \ {c} : at'[d] = at[d]
  BY <1>1 DEF LockType
<1>3. lockq' = Append(lockq, c)
  BY DEF Joins, Queue
<1>4. LockType'
  BY <1>1, <1>3, AppendProperties DEF LockType, Waits, QuoteAts, StoreAts
<1>5. /\ Len(lockq) \in Nat /\ Len(lockq') = Len(lockq) + 1
      /\ lockq'[Len(lockq) + 1] = c
      /\ \A i \in 1..Len(lockq) : lockq'[i] = lockq[i] /\ lockq[i] \in Callers
  BY <1>3, AppendProperties DEF LockType
<1>6. \A i \in 1..Len(lockq) : lockq[i] # c
  BY <1>5 DEF LockInv, Joins, InLine
<1>7. ASSUME NEW d \in Callers
      PROVE  at'[d] \in Waits \cup Inside <=> \E i \in 1..Len(lockq') : lockq'[i] = d
  <2>1. CASE d = c
    BY <1>2, <1>5, <2>1
  <2>2. CASE d # c
    <3>1. at'[d] \in Waits \cup Inside <=> \E i \in 1..Len(lockq) : lockq[i] = d
      BY <1>2, <2>2 DEF LockInv
    <3> QED
      BY <1>5, <2>2, <3>1
  <2> QED
    BY <2>1, <2>2
<1>8. \A i, j \in 1..Len(lockq') : lockq'[i] = lockq'[j] => i = j
  BY <1>5, <1>6 DEF LockInv
<1>9. ASSUME NEW d \in Callers, at'[d] \in Inside PROVE lockq'[1] = d
  <2>1. d # c /\ at[d] \in Inside
    BY <1>2, <1>9 DEF Waits, Inside
  <2>2. lockq[1] = d /\ \E i \in 1..Len(lockq) : lockq[i] = d
    BY <2>1 DEF LockInv
  <2> QED
    BY <1>5, <2>2
<1> QED
  BY <1>4, <1>7, <1>8, <1>9 DEF LockInv

LEMMA WorksInLine ==
  ASSUME LockType, LockInv, NEW c \in Callers, Works(c)
  PROVE  LockType' /\ LockInv'
<1>1. PICK l \in Inside : at' = [at EXCEPT ![c] = l]
  BY DEF Works, Goto
<1>2. at'[c] = l /\ \A d \in Callers \ {c} : at'[d] = at[d]
  BY <1>1 DEF LockType
<1>3. lockq' = lockq /\ lockq[1] = c /\ InLine(c)
  BY DEF Works, Holds
<1>4. LockType'
  BY <1>1, <1>3 DEF LockType, Inside, QuoteAts, StoreAts
<1> QED
  BY <1>2, <1>3, <1>4 DEF LockInv, InLine

LEMMA MovesFree ==
  ASSUME LockType, LockInv, NEW c \in Callers, Moves(c)
  PROVE  LockType' /\ LockInv'
<1>1. PICK l \in QuoteAts \ (Waits \cup Inside) : at' = [at EXCEPT ![c] = l]
  BY DEF Moves, Goto
<1>2. at'[c] = l /\ \A d \in Callers \ {c} : at'[d] = at[d]
  BY <1>1 DEF LockType
<1>3. lockq' = lockq /\ ~InLine(c)
  BY DEF Moves
<1>4. LockType'
  BY <1>1, <1>3 DEF LockType
<1> QED
  BY <1>2, <1>3, <1>4 DEF LockInv, InLine

LEMMA LeavesLine ==
  ASSUME LockType, LockInv, NEW c \in Callers, Leaves(c)
  PROVE  LockType' /\ LockInv'
<1>1. PICK l \in QuoteAts \ (Waits \cup Inside) : at' = [at EXCEPT ![c] = l]
  BY DEF Leaves, Goto
<1>2. at'[c] = l /\ \A d \in Callers \ {c} : at'[d] = at[d]
  BY <1>1 DEF LockType
<1>3. lockq' = Tail(lockq) /\ lockq # <<>> /\ lockq[1] = c
  BY DEF Leaves, Holds
<1>4. /\ Tail(lockq) \in Seq(Callers) /\ Len(lockq) \in Nat \ {0}
      /\ Len(lockq') = Len(lockq) - 1
      /\ \A i \in 1..Len(lockq') : i + 1 \in 1..Len(lockq) /\ lockq'[i] = lockq[i + 1]
  BY <1>3, HeadTailProperties, EmptySeq DEF LockType
<1>5. LockType'
  BY <1>1, <1>3, <1>4 DEF LockType
<1>6. \A i \in 1..Len(lockq') : lockq'[i] # c
  BY <1>3, <1>4 DEF LockInv
<1>7. \A i, j \in 1..Len(lockq') : lockq'[i] = lockq'[j] => i = j
  BY <1>4 DEF LockInv
<1>8. ASSUME NEW d \in Callers
      PROVE  at'[d] \in Waits \cup Inside <=> \E i \in 1..Len(lockq') : lockq'[i] = d
  <2>1. CASE d = c
    BY <1>2, <1>6, <2>1
  <2>2. CASE d # c
    <3>1. at'[d] \in Waits \cup Inside <=> \E i \in 1..Len(lockq) : lockq[i] = d
      BY <1>2, <2>2 DEF LockInv
    <3>2. ASSUME NEW i \in 1..Len(lockq), lockq[i] = d PROVE \E j \in 1..Len(lockq') : lockq'[j] = d
      <4>1. i - 1 \in 1..Len(lockq')
        BY <1>3, <1>4, <2>2, <3>2
      <4>2. lockq'[i - 1] = d
        BY <1>4, <3>2, <4>1
      <4> QED
        BY <4>1, <4>2
    <3>3. ASSUME NEW j \in 1..Len(lockq'), lockq'[j] = d PROVE \E i \in 1..Len(lockq) : lockq[i] = d
      BY <1>4, <3>3
    <3> QED
      BY <3>1, <3>2, <3>3
  <2> QED
    BY <2>1, <2>2
<1>9. \A d \in Callers : at'[d] \notin Inside
  BY <1>2, <1>3 DEF LockInv
<1> QED
  BY <1>5, <1>7, <1>8, <1>9 DEF LockInv

\* Two callers inside are one.
LEMMA OneInside ==
  ASSUME IInv, NEW c \in Callers, NEW d \in Callers, at[c] \in Inside, at[d] \in Inside
  PROVE  c = d
BY DEF IInv, LockInv

LEMMA StoreMoves ==
  ASSUME NEW c \in Callers, LockStep(c)
  PROVE  Works(c) \/ Leaves(c)
<1> USE DEF InLine, Waits, Inside, QuoteAts, StoreAts, Goto
<1>1. CASE AppendRead(c) \/ SendRead(c) \/ DropRead(c)
  BY <1>1 DEF AppendRead, SendRead, DropRead, Read, Works
<1>2. CASE SendCheck(c) \/ SendClean(c) \/ SendSwap(c)
  BY <1>2 DEF SendCheck, SendClean, SendSwap, Works
<1>3. CASE \/ AppendWrite(c) \/ AppendFail(c) \/ SendRefuse(c) \/ SendCleanFail(c)
           \/ SendSwapLost(c) \/ SendPersist(c) \/ SendPersistFail(c) \/ DropWrite(c)
  BY <1>3 DEF AppendWrite, AppendFail, SendRefuse, SendCleanFail, SendSwapLost, SendPersist,
              SendPersistFail, DropWrite, Release, Leaves
<1> QED
  BY <1>1, <1>2, <1>3 DEF LockStep

LEMMA FreeMoves ==
  ASSUME NEW c \in Callers, FreeStep(c)
  PROVE  Joins(c) \/ Moves(c) \/ (ReceiveLost(c) /\ UNCHANGED <<at, lockq>>)
<1> USE DEF InLine, Waits, Inside, QuoteAts, StoreAts, Goto
<1>1. CASE ReceiveSwap(c) \/ SendCall(c) \/ Rollback(c) \/ MarkSpent(c)
  BY <1>1 DEF ReceiveSwap, SendCall, Rollback, MarkSpent, Joins
<1>2. CASE Dispatch(c) \/ PaidDone(c)
  BY <1>2 DEF Dispatch, PaidDone, Moves
<1>3. CASE ReceiveLost(c)
  BY <1>3 DEF ReceiveLost
<1> QED
  BY <1>1, <1>2, <1>3 DEF FreeStep

LEMMA QuoteMoves ==
  ASSUME NEW c \in Callers, CreateStep(c) \/ PollStep(c)
  PROVE  \/ Joins(c) \/ Leaves(c) \/ Moves(c)
         \/ Works(c) /\ (PollAppendRead(c) \/ PollAppendWrite(c))
<1> USE DEF InLine, Waits, Inside, QuoteAts, StoreAts, Goto
<1>1. CASE CreateStep(c)
  BY <1>1 DEF CreateStep, CreateCheck, CreateFail, CreateQuote, CreateMark, CreateMarkFail,
              OnlyAt, Stop, Moves
<1>2. CASE PollStop(c) \/ \E q \in Quotes : PollRead(c, q) \/ PollAsk(c, q) \/ PollDrop(c, q)
  BY <1>2 DEF PollStop, PollRead, PollAsk, PollDrop, OnlyAt, Stop, Moves
<1>3. CASE \E q \in Quotes : PollIssue(c, q) \/ PollReplay(c, q)
  BY <1>3 DEF PollIssue, PollReplay, Stop, Joins, Moves
<1>4. CASE PollAppendRead(c) \/ PollAppendWrite(c)
  BY <1>4 DEF PollAppendRead, PollAppendWrite, Read, Works
<1>5. CASE PollAppendFail(c) \/ \E q \in Quotes : PollMark(c, q) \/ PollMarkFail(c, q)
  BY <1>5 DEF PollAppendFail, PollMark, PollMarkFail, Release, Leaves
<1> QED
  BY <1>1, <1>2, <1>3, <1>4, <1>5 DEF PollStep

\* Every step is one of a caller of the store, of a top-up, of somebody else, or a crash.
Elsewhere ==
  \/ (\E p \in Proofs : ProviderSpends(p) \/ MintResolves(p)) /\ UNCHANGED quoteVars
  \/ \E q \in Quotes : Unthrottle(q) \/ Pay(q)
  \/ UNCHANGED vars

LEMMA Steps ==
  ASSUME [Next]_vars
  PROVE  \/ \E c \in Callers : (LockStep(c) \/ FreeStep(c)) /\ UNCHANGED quoteVars
         \/ \E c \in Callers : c \in Creators /\ CreateStep(c)
         \/ \E c \in Callers : c \in Pollers /\ PollStep(c)
         \/ Elsewhere
         \/ Crash
BY QuoteCallers DEF Next, StoreNext, Elsewhere

LEMMA LockStays ==
  ASSUME IInv, [Next]_vars
  PROVE  LockType' /\ LockInv'
<1>1. LockType /\ LockInv
  BY TypesHold DEF IInv
<1>2. CASE UNCHANGED <<at, lockq>>
  BY <1>1, <1>2 DEF LockType, LockInv
<1>3. CASE \E c \in Callers : Joins(c) \/ Works(c) \/ Leaves(c) \/ Moves(c)
  BY <1>1, <1>3, JoinsLine, WorksInLine, LeavesLine, MovesFree
<1>4. CASE Crash
  <2>1. lockq' = <<>> /\ at' = [c \in Callers |-> "idle"]
    BY <1>4 DEF Crash, StoreCrash
  <2>2. "idle" \in QuoteAts /\ "idle" \notin Waits \cup Inside
    BY DEF QuoteAts, StoreAts, Waits, Inside
  <2> QED
    BY <2>1, <2>2 DEF LockType, LockInv
<1>5. CASE Elsewhere
  BY <1>2, <1>5 DEF Elsewhere, ProviderSpends, MintResolves, Unthrottle, Pay, vars, storeVars
<1> QED
  BY <1>2, <1>3, <1>4, <1>5, Steps, StoreMoves, FreeMoves, QuoteMoves

(***************************************************************************)
(* What the store keeps has its types.                                     *)
(***************************************************************************)
LEMMA PlusType ==
  ASSUME NEW f \in [Proofs -> Nat], NEW S
  PROVE  /\ Plus(f, S) \in [Proofs -> Nat] /\ Only(f, S) \in [Proofs -> Nat]
         /\ \A p \in Proofs : /\ p \in S => Plus(f, S)[p] = f[p] + 1 /\ Only(f, S)[p] = f[p]
                              /\ p \notin S => Plus(f, S)[p] = f[p] /\ Only(f, S)[p] = 0
BY DEF Plus, Only

LEMMA EmptyType == Empty \in [Proofs -> Nat]
BY DEF Empty

LEMMA ReleaseType ==
  ASSUME HandType, NEW c \in Callers, NEW l, Release(c, l)
  PROVE  snap' \in [Callers -> [Proofs -> Nat]] /\ use' \in [Callers -> SUBSET Proofs]
BY EmptyType DEF HandType, Release

LEMMA ReadType ==
  ASSUME ProofType, HandType, NEW c \in Callers, NEW l, Read(c, l)
  PROVE  ProofType' /\ HandType'
BY DEF ProofType, HandType, Read

LEMMA FaultType == faults \in Nat /\ Fault => faults' \in Nat
BY DEF Fault

LEMMA StoreTypes ==
  ASSUME ProofType, HandType, NEW c \in Callers, LockStep(c)
  PROVE  ProofType' /\ HandType'
<1>1. CASE AppendRead(c) \/ SendRead(c) \/ DropRead(c)
  BY <1>1, ReadType DEF AppendRead, SendRead, DropRead
<1>2. CASE AppendWrite(c)
  BY <1>2, ReleaseType, PlusType DEF AppendWrite, Keep, ProofType, HandType
<1>3. CASE AppendFail(c) \/ SendPersistFail(c)
  <2>1. mem' = [mem EXCEPT ![c] = {}] /\ lost' = lost \cup mem[c] /\ mem[c] \subseteq Proofs
    BY <1>3 DEF AppendFail, SendPersistFail, Lose, Keep, HandType
  <2> QED
    BY <1>3, <2>1, ReleaseType, FaultType DEF AppendFail, SendPersistFail, ProofType, HandType
<1>4. CASE SendRefuse(c) \/ SendCleanFail(c)
  BY <1>4, ReleaseType, FaultType DEF SendRefuse, SendCleanFail, ProofType, HandType
<1>5. CASE SendCheck(c)
  <2>1. Stored(c) \subseteq Proofs /\ In(c, "unspent") \subseteq Proofs
    BY DEF Stored, In
  <2>2. Only(snap[c], Stored(c) \ In(c, "spent")) \in [Proofs -> Nat]
    BY PlusType DEF HandType
  <2> QED
    BY <1>5, <2>1, <2>2 DEF SendCheck, ProofType, HandType
<1>6. CASE SendClean(c)
  BY <1>6 DEF SendClean, ProofType, HandType
<1>7. CASE SendSwap(c)
  <2>1. PICK p \in use[c], q \in Proofs \ Reserved :
          /\ mint' = [mint EXCEPT ![p] = "spent", ![q] = "unspent"]
          /\ snap' = [snap EXCEPT ![c] = Only(snap[c], Proofs \ {p})]
          /\ mem' = [mem EXCEPT ![c] = {q}]
    BY <1>7 DEF SendSwap
  <2>2. Only(snap[c], Proofs \ {p}) \in [Proofs -> Nat]
    BY PlusType DEF HandType
  <2>3. HandType'
    BY <1>7, <2>1, <2>2 DEF SendSwap, HandType
  <2>4. ProofType'
    BY <1>7, <2>1 DEF SendSwap, ProofType, HandType
  <2> QED
    BY <2>3, <2>4
<1>8. CASE SendSwapLost(c)
  BY <1>8, ReleaseType, FaultType DEF SendSwapLost, ProofType, HandType
<1>9. CASE SendPersist(c)
  BY <1>9, ReleaseType DEF SendPersist, ProofType, HandType
<1>10. CASE DropWrite(c)
  <2>1. file' \in [Proofs -> Nat] /\ faults' \in Nat
    BY <1>10, PlusType, FaultType DEF DropWrite, ProofType, HandType
  <2> QED
    BY <1>10, <2>1, ReleaseType DEF DropWrite, Keep, ProofType, HandType
<1> QED
  BY <1>1, <1>2, <1>3, <1>4, <1>5, <1>6, <1>7, <1>8, <1>9, <1>10 DEF LockStep

LEMMA FreeTypes ==
  ASSUME ProofType, HandType, NEW c \in Callers, FreeStep(c)
  PROVE  ProofType' /\ HandType'
<1>1. CASE ReceiveSwap(c)
  BY <1>1 DEF ReceiveSwap, ProofType, HandType
<1>4. CASE ReceiveLost(c)
  BY <1>4, FaultType DEF ReceiveLost, ProofType, HandType
<1>2. CASE SendCall(c) \/ Rollback(c) \/ MarkSpent(c) \/ PaidDone(c)
  BY <1>2 DEF SendCall, Rollback, MarkSpent, PaidDone, Keep, ProofType, HandType
<1>3. CASE Dispatch(c)
  BY <1>3 DEF Dispatch, ProofType, HandType
<1> QED
  BY <1>1, <1>2, <1>3, <1>4 DEF FreeStep

LEMMA QuoteTypes ==
  ASSUME ProofType, HandType, NEW c \in Callers, CreateStep(c) \/ PollStep(c)
  PROVE  ProofType' /\ HandType'
<1>1. CASE \/ CreateStep(c) \/ PollStop(c)
           \/ \E q \in Quotes : PollRead(c, q) \/ PollAsk(c, q) \/ PollDrop(c, q)
  BY <1>1, FaultType
     DEF CreateStep, CreateCheck, CreateFail, CreateQuote, CreateMark, CreateMarkFail, PollStop,
         PollRead, PollAsk, PollDrop, OnlyAt, ProofType, HandType
<1>2. CASE \E q \in Quotes : PollIssue(c, q) \/ PollReplay(c, q)
  <2>1. PICK q \in Quotes : PollIssue(c, q) \/ PollReplay(c, q)
    BY <1>2
  <2>2. QuoteProof[q] \in Proofs
    BY QuoteProofs, ProofsFinite
  <2> QED
    BY <2>1, <2>2, FaultType DEF PollIssue, PollReplay, ProofType, HandType
<1>3. CASE PollAppendRead(c)
  BY <1>3, ReadType DEF PollAppendRead
<1>4. CASE PollAppendWrite(c)
  BY <1>4, PlusType DEF PollAppendWrite, Keep, ProofType, HandType
<1>5. CASE PollAppendFail(c)
  <2>1. mem' = [mem EXCEPT ![c] = {}] /\ lost' = lost \cup mem[c] /\ mem[c] \subseteq Proofs
    BY <1>5 DEF PollAppendFail, Lose, Keep, HandType
  <2> QED
    BY <1>5, <2>1, ReleaseType, FaultType DEF PollAppendFail, ProofType, HandType
<1>6. CASE \E q \in Quotes : PollMark(c, q) \/ PollMarkFail(c, q)
  BY <1>6, ReleaseType, FaultType DEF PollMark, PollMarkFail, ProofType, HandType
<1> QED
  BY <1>1, <1>2, <1>3, <1>4, <1>5, <1>6 DEF PollStep

LEMMA TopUpTypes ==
  ASSUME QuoteType, SetType, NEW c \in Creators \cup Pollers,
         (c \in Creators /\ CreateStep(c)) \/ (c \in Pollers /\ PollStep(c))
  PROVE  QuoteType' /\ SetType'
<1>1. CASE c \in Creators /\ CreateCheck(c)
  BY <1>1 DEF CreateCheck, QuoteType, SetType
<1>2. CASE CreateFail(c)
  BY <1>2 DEF CreateFail, Stop, QuoteType, SetType
<1>3. CASE \E q \in Quotes : CreateQuote(c, q)
  BY <1>3 DEF CreateQuote, QuoteType, SetType
<1>4. CASE c \in Creators /\ \E q \in Quotes : CreateMark(c, q)
  <2>1. PICK q \in Quotes : CreateMark(c, q)
    BY <1>4
  <2>2. QuoteType'
    BY <2>1 DEF CreateMark, Stop, QuoteType
  <2>3. mapped' \in Creators \cup {NoSet} /\ ref' = ref
    BY <1>4, <2>1 DEF CreateMark, SetType
  <2>4. members' \in [Creators -> SUBSET Quotes]
    BY <2>1 DEF CreateMark, SetType
  <2> QED
    BY <2>2, <2>3, <2>4 DEF SetType
<1>5. CASE \E q \in Quotes : CreateMarkFail(c, q)
  BY <1>5 DEF CreateMarkFail, Stop, QuoteType, SetType
<1>6. CASE \E q \in Quotes : PollRead(c, q)
  BY <1>6 DEF PollRead, QuoteType, SetType
<1>7. CASE PollStop(c)
  BY <1>7 DEF PollStop, Stop, QuoteType, SetType
<1>8. CASE \/ PollAppendRead(c) \/ PollAppendWrite(c)
           \/ \E q \in Quotes : PollAsk(c, q) \/ PollReplay(c, q)
  BY <1>8 DEF PollAppendRead, PollAppendWrite, PollAsk, PollReplay, quoteVars, QuoteType, SetType
<1>9. CASE \E q \in Quotes : PollIssue(c, q)
  BY <1>9 DEF PollIssue, Stop, QuoteType, SetType
<1>10. CASE PollAppendFail(c)
  BY <1>10 DEF PollAppendFail, QuoteType, SetType
<1>11. CASE \E q \in Quotes : PollMark(c, q)
  BY <1>11 DEF PollMark, QuoteType, SetType
<1>12. CASE \E q \in Quotes : PollMarkFail(c, q)
  BY <1>12 DEF PollMarkFail, QuoteType, SetType
<1>13. CASE \E q \in Quotes : PollDrop(c, q)
  <2>1. PICK q \in Quotes : PollDrop(c, q)
    BY <1>13
  <2>2. QuoteType'
    BY <2>1 DEF PollDrop, Stop, QuoteType
  <2>3. SetType'
    BY <2>1 DEF PollDrop, SetType
  <2> QED
    BY <2>2, <2>3
<1> QED
  BY <1>1, <1>2, <1>3, <1>4, <1>5, <1>6, <1>7, <1>8, <1>9, <1>10, <1>11, <1>12, <1>13
     DEF CreateStep, PollStep

LEMMA TypeStep ==
  ASSUME IInv, [Next]_vars
  PROVE  TypeOK'
<1>1. ProofType /\ HandType /\ QuoteType /\ SetType
  BY TypesHold
<1>2. CASE \E c \in Callers : (LockStep(c) \/ FreeStep(c)) /\ UNCHANGED quoteVars
  <2>1. ProofType' /\ HandType'
    BY <1>1, <1>2, StoreTypes, FreeTypes
  <2>2. QuoteType' /\ SetType'
    BY <1>1, <1>2 DEF quoteVars, QuoteType, SetType
  <2> QED
    BY <2>1, <2>2, LockStays, Types
<1>3. CASE \E c \in Callers : \/ c \in Creators /\ CreateStep(c)
                              \/ c \in Pollers /\ PollStep(c)
  <2>1. ProofType' /\ HandType'
    BY <1>1, <1>3, QuoteTypes
  <2>2. QuoteType' /\ SetType'
    BY <1>1, <1>3, TopUpTypes
  <2> QED
    BY <2>1, <2>2, LockStays, Types
<1>4. CASE Elsewhere
  <2>1. ProofType' /\ HandType'
    BY <1>1, <1>4
       DEF Elsewhere, ProviderSpends, MintResolves, Unthrottle, Pay, vars, storeVars, ProofType, HandType
  <2>2. QuoteType' /\ SetType'
    <3>1. CASE \E q \in Quotes : Unthrottle(q) \/ Pay(q)
      BY <1>1, <3>1 DEF Unthrottle, Pay, QuoteType, SetType
    <3>2. CASE UNCHANGED quoteVars
      BY <1>1, <3>2 DEF quoteVars, QuoteType, SetType
    <3> QED
      BY <1>4, <3>1, <3>2 DEF Elsewhere, vars
  <2> QED
    BY <2>1, <2>2, LockStays, Types
<1>5. CASE Crash
  <2>1. ProofType'
    BY <1>1, <1>5, FaultType DEF Crash, StoreCrash, ProofType, HandType
  <2>2. HandType'
    BY <1>5, EmptyType DEF Crash, StoreCrash, HandType
  <2>3. QuoteType'
    <3>1. marker' \in [Quotes -> {"none", "open", "torn", "minted"}]
      BY <1>1, <1>5 DEF Crash, QuoteType
    <3> QED
      BY <1>1, <1>5, <3>1 DEF Crash, QuoteType
  <2>4. SetType'
    BY <1>5 DEF Crash, SetType
  <2> QED
    BY <2>1, <2>2, <2>3, <2>4, LockStays, Types
<1> QED
  BY <1>2, <1>3, <1>4, <1>5, Steps

(***************************************************************************)
(* Each step is one caller's own.                                          *)
(***************************************************************************)
CallerStep(c) == LockStep(c) \/ FreeStep(c) \/ CreateStep(c) \/ PollStep(c)

Apart(c) ==
  \A d \in Callers \ {c} : at'[d] = at[d] /\ snap'[d] = snap[d] /\ use'[d] = use[d] /\ mem'[d] = mem[d]

LEMMA Own ==
  ASSUME IInv, NEW c \in Callers, CallerStep(c)
  PROVE  Apart(c)
<1>1. HandType /\ LockType
  BY TypesHold
<1> USE DEF Goto
<1>2. \A d \in Callers \ {c} : at'[d] = at[d]
  BY <1>1, StoreMoves, FreeMoves, QuoteMoves
     DEF CallerStep, LockType, Joins, Works, Leaves, Moves
<1>3. CASE AppendRead(c) \/ SendRead(c) \/ DropRead(c) \/ PollAppendRead(c)
  BY <1>1, <1>2, <1>3 DEF AppendRead, SendRead, DropRead, PollAppendRead, Read, HandType, Apart
<1>4. CASE \/ AppendWrite(c) \/ AppendFail(c) \/ SendRefuse(c) \/ SendCleanFail(c)
           \/ SendSwapLost(c) \/ SendPersist(c) \/ SendPersistFail(c) \/ DropWrite(c)
  BY <1>1, <1>2, <1>4
     DEF AppendWrite, AppendFail, SendRefuse, SendCleanFail, SendSwapLost, SendPersist,
         SendPersistFail, DropWrite, Release, Lose, Keep, HandType, Apart
<1>5. CASE SendCheck(c) \/ SendClean(c)
  BY <1>1, <1>2, <1>5 DEF SendCheck, SendClean, HandType, Apart
<1>6. CASE SendSwap(c)
  BY <1>1, <1>2, <1>6 DEF SendSwap, HandType, Apart
<1>7. CASE FreeStep(c)
  BY <1>1, <1>2, <1>7
     DEF FreeStep, ReceiveSwap, ReceiveLost, SendCall, Dispatch, Rollback, PaidDone, MarkSpent,
         Keep, HandType, Apart
<1>8. CASE \/ CreateStep(c) \/ PollStop(c)
           \/ \E q \in Quotes : PollRead(c, q) \/ PollAsk(c, q) \/ PollDrop(c, q)
  BY <1>1, <1>2, <1>8
     DEF CreateStep, CreateCheck, CreateFail, CreateQuote, CreateMark, CreateMarkFail, PollStop,
         PollRead, PollAsk, PollDrop, OnlyAt, Apart
<1>9. CASE \E q \in Quotes : PollIssue(c, q) \/ PollReplay(c, q)
  BY <1>1, <1>2, <1>9 DEF PollIssue, PollReplay, HandType, Apart
<1>10. CASE \/ PollAppendWrite(c) \/ PollAppendFail(c)
            \/ \E q \in Quotes : PollMark(c, q) \/ PollMarkFail(c, q)
  BY <1>1, <1>2, <1>10
     DEF PollAppendWrite, PollAppendFail, PollMark, PollMarkFail, Release, Lose, Keep, HandType, Apart
<1> QED
  BY <1>3, <1>4, <1>5, <1>6, <1>7, <1>8, <1>9, <1>10 DEF CallerStep, LockStep, PollStep

\* A proof that is spent stays spent, and one that is issued stays issued.
LEMMA MintStep ==
  ASSUME IInv, [Next]_vars, NEW p \in Proofs
  PROVE  /\ mint[p] = "spent" => mint'[p] = "spent"
         /\ mint[p] # "unissued" => mint'[p] # "unissued"
<1>1. ProofType
  BY TypesHold
<1>2. CASE UNCHANGED mint
  BY <1>2
<1>3. CASE \E c \in Callers : ReceiveSwap(c) \/ ReceiveLost(c)
  BY <1>1, <1>3 DEF ReceiveSwap, ReceiveLost, ProofType
<1>4. CASE \E c \in Callers : SendSwap(c)
  BY <1>1, <1>4 DEF SendSwap, ProofType
<1>5. CASE \E c \in Callers : SendSwapLost(c)
  BY <1>1, <1>5 DEF SendSwapLost, ProofType
<1>6. CASE \E c \in Callers, q \in Quotes : PollIssue(c, q)
  <2>1. PICK c \in Callers, q \in Quotes : PollIssue(c, q)
    BY <1>6
  <2>2. mint[QuoteProof[q]] = "unissued"
    BY <2>1 DEF IInv, QuoteInv, QuoteOK, PollIssue
  <2> QED
    BY <1>1, <2>1, <2>2 DEF PollIssue, ProofType
<1>7. CASE \E r \in Proofs : ProviderSpends(r) \/ MintResolves(r)
  BY <1>1, <1>7 DEF ProviderSpends, MintResolves, ProofType
<1>8. CASE \E c \in Callers : LockStep(c) \/ FreeStep(c)
  BY <1>2, <1>3, <1>4, <1>5, <1>8
     DEF LockStep, FreeStep, AppendRead, SendRead, DropRead, Read, AppendWrite, AppendFail,
         SendRefuse, SendCheck, SendClean, SendCleanFail, SendPersist, SendPersistFail, DropWrite,
         SendCall, Dispatch, Rollback, PaidDone, MarkSpent
<1>9. CASE \E c \in Callers : CreateStep(c) \/ PollStep(c)
  BY <1>2, <1>6, <1>9
     DEF CreateStep, CreateCheck, CreateFail, CreateQuote, CreateMark, CreateMarkFail, OnlyAt, PollStep,
         PollStop, PollRead, PollAsk, PollReplay, PollAppendRead, Read, PollAppendWrite,
         PollAppendFail, PollMark, PollMarkFail, PollDrop
<1> QED
  BY <1>2, <1>7, <1>8, <1>9, Steps
     DEF Elsewhere, Unthrottle, Pay, Crash, StoreCrash, vars, storeVars

(***************************************************************************)
(* What is read under the lock.                                            *)
(***************************************************************************)
\* While one is inside, the file changes by its writes only; those outside have read
\* nothing.
LEMMA SnapCaller ==
  ASSUME IInv, [Next]_vars, NEW c \in Callers, Apart(c),
         file' = file \/ at[c] \in Inside, SnapOK(c)'
  PROVE  SnapInv'
<1>1. ASSUME NEW d \in Callers, d # c
      PROVE  SnapOK(d)'
  <2>1. SnapOK(d) /\ at'[d] = at[d] /\ snap'[d] = snap[d] /\ use'[d] = use[d]
    BY <1>1 DEF IInv, SnapInv, Apart
  <2>2. CASE at[d] \notin Inside
    BY <2>1, <2>2 DEF SnapOK, Inside
  <2>3. CASE at[d] \in Inside
    <3>1. file' = file
      BY <1>1, <2>3, OneInside
    <3> QED
      BY <2>1, <3>1, MintStep DEF SnapOK
  <2> QED
    BY <2>2, <2>3
<1> QED
  BY <1>1 DEF SnapInv

LEMMA Outside ==
  ASSUME NEW c \in Callers, at'[c] \notin Inside
  PROVE  SnapOK(c)'
BY DEF SnapOK, Inside

LEMMA StoreSnap ==
  ASSUME IInv, [Next]_vars, NEW c \in Callers, LockStep(c)
  PROVE  SnapInv'
<1>1. ProofType /\ HandType /\ LockType /\ SnapOK(c)
  BY TypesHold DEF IInv, SnapInv
<1>2. Apart(c)
  BY Own DEF CallerStep
<1>3. CASE AppendRead(c) \/ SendRead(c) \/ DropRead(c)
  <2>1. snap'[c] = file /\ file' = file /\ at'[c] \notin {"clean", "swap", "persist"}
    BY <1>1, <1>3 DEF AppendRead, SendRead, DropRead, Read, Goto, HandType, LockType
  <2>2. SnapOK(c)'
    BY <2>1 DEF SnapOK
  <2> QED
    BY <1>2, <2>1, <2>2, SnapCaller
<1>4. CASE Leaves(c)
  <2>1. at[c] \in Inside \/ file' = file
    BY <1>4
       DEF LockStep, AppendRead, SendRead, DropRead, Read, AppendWrite, AppendFail, SendRefuse,
           SendCheck, SendClean, SendCleanFail, SendSwap, SendSwapLost, SendPersist,
           SendPersistFail, DropWrite, Inside
  <2>2. at'[c] \notin Inside
    BY <1>1, <1>4 DEF Leaves, Goto, LockType
  <2> QED
    BY <1>2, <2>1, <2>2, Outside, SnapCaller
<1>5. CASE SendCheck(c)
  <2>1. at[c] = "check" /\ snap[c] = file /\ file' = file /\ mint' = mint
    BY <1>1, <1>5 DEF SendCheck, SnapOK
  <2>2. CASE /\ use' = [use EXCEPT ![c] = Stored(c)] /\ UNCHANGED snap
             /\ at' = [at EXCEPT ![c] = "swap"]
    <3>1. snap'[c] = file /\ use'[c] = Stored(c) /\ at'[c] = "swap"
      BY <1>1, <2>1, <2>2 DEF LockType, HandType
    <3>2. SnapOK(c)'
      BY <2>1, <3>1 DEF SnapOK, Stored
    <3> QED
      BY <1>2, <2>1, <3>2, SnapCaller
  <2>3. CASE /\ use' = [use EXCEPT ![c] = In(c, "unspent")]
             /\ snap' = [snap EXCEPT ![c] = Only(snap[c], Stored(c) \ In(c, "spent"))]
             /\ at' = [at EXCEPT ![c] = IF In(c, "spent") # {} THEN "clean" ELSE "swap"]
    <3>1. /\ use'[c] = In(c, "unspent") /\ snap'[c] = Only(snap[c], Stored(c) \ In(c, "spent"))
          /\ at'[c] = IF In(c, "spent") # {} THEN "clean" ELSE "swap"
      BY <1>1, <2>3, Zenon DEF LockType, HandType
    <3>2. \A p \in Proofs : /\ snap'[c][p] = file[p] \/ (snap'[c][p] = 0 /\ mint[p] = "spent")
                            /\ mint[p] # "spent" => snap'[c][p] = file[p]
      BY <1>1, <2>1, <3>1, PlusType DEF Stored, In, ProofType
    <3>3. In(c, "spent") = {} => snap'[c] = file
      <4>1. In(c, "spent") = {} => \A p \in Proofs : snap'[c][p] = file[p]
        BY <1>1, <2>1, <3>1, PlusType DEF Stored, In, ProofType
      <4>2. snap'[c] \in [Proofs -> Nat]
        BY <1>1, <3>1, PlusType DEF HandType
      <4> QED
        BY <1>1, <4>1, <4>2 DEF ProofType
    <3>4. \A p \in use'[c] : snap'[c][p] > 0
      BY <2>1, <3>1, <3>2 DEF Stored, In
    <3>5. SnapOK(c)'
      BY <2>1, <3>1, <3>2, <3>3, <3>4 DEF SnapOK
    <3> QED
      BY <1>2, <2>1, <3>5, SnapCaller
  <2> QED
    BY <1>5, <2>2, <2>3 DEF SendCheck, Goto
<1>6. CASE SendClean(c)
  <2>1. at[c] = "clean" /\ at'[c] = "swap" /\ file' = snap[c] /\ snap' = snap /\ use' = use
    BY <1>1, <1>6 DEF SendClean, Goto, LockType
  <2>2. SnapOK(c)'
    BY <1>1, <2>1 DEF SnapOK
  <2> QED
    BY <1>2, <2>1, <2>2, SnapCaller DEF Inside
<1>7. CASE SendSwap(c)
  <2>1. PICK p \in use[c], q \in Proofs \ Reserved :
          /\ mint[p] = "unspent" /\ mint[q] = "unissued"
          /\ mint' = [mint EXCEPT ![p] = "spent", ![q] = "unspent"]
          /\ snap' = [snap EXCEPT ![c] = Only(snap[c], Proofs \ {p})]
    BY <1>7 DEF SendSwap
  <2>2. /\ at[c] = "swap" /\ at'[c] = "persist" /\ file' = file /\ snap[c] = file
        /\ snap'[c] = Only(file, Proofs \ {p}) /\ p \in Proofs /\ mint'[p] = "spent"
    BY <1>1, <1>7, <2>1 DEF SendSwap, Goto, LockType, SnapOK, ProofType, HandType
  <2>3. \A r \in Proofs : snap'[c][r] = file[r] \/ (snap'[c][r] = 0 /\ r = p)
    BY <1>1, <2>2, PlusType DEF ProofType
  <2>4. SnapOK(c)'
    BY <2>2, <2>3 DEF SnapOK
  <2> QED
    BY <1>2, <2>2, <2>4, SnapCaller
<1> QED
  BY <1>3, <1>4, <1>5, <1>6, <1>7
     DEF LockStep, AppendWrite, AppendFail, SendRefuse, SendCleanFail, SendSwapLost, SendPersist,
         SendPersistFail, DropWrite, Release, Leaves, InLine, Waits, Inside, QuoteAts, StoreAts

LEMMA SnapStep ==
  ASSUME IInv, [Next]_vars
  PROVE  SnapInv'
<1>1. ProofType /\ HandType /\ LockType /\ SnapInv
  BY TypesHold DEF IInv
<1>2. CASE \E c \in Callers : LockStep(c)
  BY <1>2, StoreSnap
<1>3. CASE \E c \in Callers : FreeStep(c) \/ CreateStep(c) \/ PollStep(c)
  <2>1. PICK c \in Callers : FreeStep(c) \/ CreateStep(c) \/ PollStep(c)
    BY <1>3
  <2>2. Apart(c) /\ SnapOK(c)
    BY <1>1, <2>1, Own DEF CallerStep, SnapInv
  <2>3. CASE PollAppendRead(c)
    <3>1. snap'[c] = file /\ file' = file /\ at'[c] = "qappending"
      BY <1>1, <2>3 DEF PollAppendRead, Read, Goto, HandType, LockType
    <3>2. SnapOK(c)'
      BY <3>1 DEF SnapOK
    <3> QED
      BY <2>2, <3>1, <3>2, SnapCaller
  <2>4. CASE PollAppendWrite(c)
    <3>1. at[c] \in Inside /\ at'[c] = "mark"
      BY <1>1, <2>4 DEF PollAppendWrite, Goto, LockType, Inside
    <3>2. SnapOK(c)'
      BY <3>1 DEF SnapOK
    <3> QED
      BY <2>2, <3>1, <3>2, SnapCaller
  <2>5. CASE ReceiveLost(c)
    <3>1. UNCHANGED <<file, at, snap, use>>
      BY <2>5 DEF ReceiveLost
    <3>2. SnapOK(c)'
      BY <2>2, <3>1, MintStep DEF SnapOK
    <3> QED
      BY <2>2, <3>1, <3>2, SnapCaller
  <2>6. CASE file' = file /\ (Joins(c) \/ Moves(c) \/ Leaves(c))
    <3>1. at'[c] \notin Inside
      BY <1>1, <2>6 DEF Joins, Moves, Leaves, Goto, LockType, Waits, Inside
    <3> QED
      BY <2>2, <2>6, <3>1, Outside, SnapCaller
  <2>7. ~PollAppendWrite(c) => file' = file
    BY <2>1
       DEF FreeStep, ReceiveSwap, ReceiveLost, SendCall, Dispatch, Rollback, PaidDone, MarkSpent,
           CreateStep, CreateCheck, CreateFail, CreateQuote, CreateMark, CreateMarkFail, OnlyAt,
           PollStep, PollStop, PollRead, PollAsk, PollIssue, PollReplay, PollAppendRead, Read,
           PollAppendFail, PollMark, PollMarkFail, PollDrop
  <2> QED
    BY <2>1, <2>3, <2>4, <2>5, <2>6, <2>7, FreeMoves, QuoteMoves
<1>4. CASE Elsewhere
  <2>1. UNCHANGED <<file, at, snap, use>>
    BY <1>4 DEF Elsewhere, ProviderSpends, MintResolves, Unthrottle, Pay, vars, storeVars
  <2> QED
    BY <1>1, <2>1, MintStep DEF SnapInv, SnapOK
<1>5. CASE Crash
  <2>1. \A c \in Callers : at'[c] = "idle"
    BY <1>5 DEF Crash, StoreCrash
  <2> QED
    BY <2>1, Outside DEF SnapInv, Inside
<1> QED
  BY <1>2, <1>3, <1>4, <1>5, Steps

(***************************************************************************)
(* What callers have in hand.                                              *)
(***************************************************************************)
\* A proof that enters the file, or is handed out, is one the caller had in hand.
FromHand(c) ==
  /\ \A p \in Proofs : file'[p] > 0 /\ file[p] = 0 => p \in mem[c] /\ at[c] \in InHand \cup Minting
  /\ \A p \in out' : p \in out \/ (p \in mem[c] /\ at[c] \in InHand)
  /\ out \subseteq out'

\* What the caller has in hand then is new, or it had it before.
NewInHand(c) ==
  at'[c] \in InHand => \/ at[c] \in InHand /\ mem'[c] \subseteq mem[c]
                       \/ \A p \in mem'[c] : mint[p] = "unissued"

LEMMA HandCaller ==
  ASSUME IInv, [Next]_vars, NEW c \in Callers, Apart(c), FromHand(c), NewInHand(c), HandOK(c)'
  PROVE  HandInv'
<1>1. ProofType /\ HandType /\ HandInv /\ ProofType'
  BY TypesHold, TypeStep, Types DEF IInv
<1>2. ASSUME NEW d \in Callers, d # c
      PROVE  HandOK(d)'
  <2>1. HandOK(d) /\ at'[d] = at[d] /\ mem'[d] = mem[d] /\ mem[d] \subseteq Proofs
    BY <1>1, <1>2 DEF HandInv, Apart, HandType
  <2>2. ASSUME NEW p \in mem[d], at[d] \in InHand
        PROVE  file'[p] = 0 /\ p \notin out'
    <3>1. p \in Proofs /\ p \notin Reserved /\ file[p] = 0 /\ p \notin out
      BY <2>1, <2>2 DEF HandOK
    <3>2. ~(p \in mem[c] /\ at[c] \in InHand)
      BY <1>1, <1>2, <2>2 DEF HandInv
    <3>3. ~(p \in mem[c] /\ at[c] \in Minting)
      BY <1>1, <3>1 DEF HandInv, HandOK
    <3>4. file'[p] \in Nat
      BY <1>1, <3>1 DEF ProofType
    <3> QED
      BY <3>1, <3>2, <3>3, <3>4 DEF FromHand
  <2> QED
    BY <2>1, <2>2, MintStep DEF HandOK, FromHand
<1>3. ASSUME NEW d \in Callers, d # c, at'[c] \in InHand, at'[d] \in InHand, mem'[c] \cap mem'[d] # {}
      PROVE  FALSE
  <2>1. at[d] \in InHand /\ mem'[d] = mem[d]
    BY <1>3 DEF Apart
  <2>2. PICK p \in mem'[c] : p \in mem[d]
    BY <1>3, <2>1
  <2>3. mint[p] # "unissued"
    BY <1>1, <2>2 DEF HandInv, HandOK
  <2>4. at[c] \in InHand /\ p \in mem[c]
    BY <1>3, <2>2, <2>3 DEF NewInHand
  <2> QED
    BY <1>1, <1>3, <2>1, <2>2, <2>4 DEF HandInv
<1>4. ASSUME NEW d \in Callers, NEW e \in Callers, d # c, e # c,
             at'[d] \in InHand, at'[e] \in InHand, mem'[d] \cap mem'[e] # {}
      PROVE  d = e
  BY <1>1, <1>4 DEF HandInv, Apart
<1> QED
  BY <1>2, <1>3, <1>4 DEF HandInv

\* With nothing in hand there is nothing to show.
LEMMA NothingInHand ==
  ASSUME NEW c \in Callers, mem'[c] = {}
  PROVE  HandOK(c)' /\ NewInHand(c)
BY DEF HandOK, NewInHand

\* Its file is what it read, less what it saw spent.
LEMMA ReadFile ==
  ASSUME IInv, NEW c \in Callers, at[c] \in Inside \ {"mark"}, NEW p \in Proofs
  PROVE  snap[c][p] = file[p] \/ (snap[c][p] = 0 /\ mint[p] = "spent")
BY DEF IInv, SnapInv, SnapOK, Inside

LEMMA SameHand ==
  ASSUME UNCHANGED <<file, out>>, NEW c \in Callers
  PROVE  FromHand(c)
BY DEF FromHand

LEMMA StoreHand ==
  ASSUME IInv, [Next]_vars, NEW c \in Callers, LockStep(c)
  PROVE  HandInv'
<1>1. ProofType /\ HandType /\ LockType /\ HandOK(c) /\ mem[c] \subseteq Proofs
  BY TypesHold DEF IInv, HandInv, HandType
<1>2. Apart(c)
  BY Own DEF CallerStep
<1> USE DEF Goto
<1>3. CASE AppendRead(c) \/ DropRead(c)
  <2>1. /\ UNCHANGED <<mint, file, mem, out>>
        /\ \/ at[c] = "append" /\ at'[c] = "appending"
           \/ at[c] = "drop" /\ at'[c] = "dropping"
    BY <1>1, <1>3 DEF AppendRead, DropRead, Read, LockType
  <2>2. HandOK(c)' /\ NewInHand(c)
    BY <1>1, <2>1 DEF HandOK, NewInHand, InHand, Spending, Minting
  <2> QED
    BY <1>2, <2>1, <2>2, SameHand, HandCaller
<1>4. CASE SendRead(c) \/ SendRefuse(c) \/ SendCheck(c) \/ SendCleanFail(c) \/ SendSwapLost(c)
  <2>1. UNCHANGED <<file, out>> /\ mem' = mem
        /\ at[c] \in {"send", "check", "swap", "clean"}
    BY <1>4 DEF SendRead, Read, SendRefuse, SendCheck, SendCleanFail, SendSwapLost
  <2>2. mem'[c] = {}
    BY <1>1, <2>1 DEF HandOK, InHand, Spending, Minting
  <2> QED
    BY <1>2, <2>1, <2>2, SameHand, NothingInHand, HandCaller
<1>5. CASE AppendFail(c) \/ SendPersistFail(c)
  <2>1. UNCHANGED <<file, out>> /\ mem'[c] = {}
    BY <1>1, <1>5 DEF AppendFail, SendPersistFail, Lose, Keep, HandType
  <2> QED
    BY <1>2, <2>1, SameHand, NothingInHand, HandCaller
<1>6. CASE AppendWrite(c)
  <2>1. /\ at[c] = "appending" /\ file' = Plus(snap[c], mem[c]) /\ mem'[c] = {} /\ out' = out
        /\ snap[c] = file
    BY <1>1, <1>6 DEF AppendWrite, Keep, HandType, IInv, SnapInv, SnapOK
  <2>2. FromHand(c)
    BY <1>1, <2>1, PlusType DEF FromHand, InHand, ProofType
  <2> QED
    BY <1>2, <2>1, <2>2, NothingInHand, HandCaller
<1>7. CASE SendClean(c)
  <2>1. at[c] = "clean" /\ file' = snap[c] /\ mem' = mem /\ out' = out
    BY <1>7 DEF SendClean
  <2>2. mem'[c] = {}
    BY <1>1, <2>1 DEF HandOK, InHand, Spending, Minting
  <2>3. FromHand(c)
    BY <2>1, ReadFile DEF FromHand, Inside
  <2> QED
    BY <1>2, <2>2, <2>3, NothingInHand, HandCaller
<1>8. CASE SendSwap(c)
  <2>1. PICK p \in use[c], q \in Proofs \ Reserved :
          /\ mint[p] = "unspent" /\ mint[q] = "unissued"
          /\ mint' = [mint EXCEPT ![p] = "spent", ![q] = "unspent"]
          /\ mem' = [mem EXCEPT ![c] = {q}]
    BY <1>8 DEF SendSwap
  <2>2. file' = file /\ out' = out /\ at'[c] = "persist" /\ mem'[c] = {q}
    BY <1>1, <1>8, <2>1 DEF SendSwap, LockType, HandType
  <2>3. file[q] = 0 /\ q \notin out /\ mint'[q] = "unspent"
    BY <1>1, <2>1 DEF IInv, ProofInv, ProofOK, ProofType
  <2>4. HandOK(c)' /\ NewInHand(c)
    BY <2>1, <2>2, <2>3 DEF HandOK, NewInHand, InHand, Spending, Minting
  <2> QED
    BY <1>2, <2>2, <2>4, SameHand, HandCaller
<1>9. CASE SendPersist(c)
  <2>1. /\ at[c] = "persist" /\ at'[c] = "token" /\ file' = snap[c]
        /\ UNCHANGED <<mint, mem, out>>
    BY <1>1, <1>9 DEF SendPersist, Release, LockType
  <2>2. FromHand(c)
    BY <2>1, ReadFile DEF FromHand, Inside
  <2>3. HandOK(c)' /\ NewInHand(c)
    BY <1>1, <2>1, ReadFile DEF HandOK, NewInHand, InHand, Spending, Minting, Inside
  <2> QED
    BY <1>2, <2>2, <2>3, HandCaller
<1>10. CASE DropWrite(c)
  <2>1. at[c] = "dropping" /\ mem'[c] = {} /\ out' = out
        /\ (file' = Only(snap[c], Proofs \ mem[c]) \/ file' = file)
    BY <1>1, <1>10 DEF DropWrite, Keep, HandType
  <2>2. snap[c] = file
    BY <2>1 DEF IInv, SnapInv, SnapOK
  <2>3. FromHand(c)
    BY <1>1, <2>1, <2>2, PlusType DEF FromHand, ProofType
  <2> QED
    BY <1>2, <2>1, <2>3, NothingInHand, HandCaller
<1> QED
  BY <1>3, <1>4, <1>5, <1>6, <1>7, <1>8, <1>9, <1>10 DEF LockStep

LEMMA FreeHand ==
  ASSUME IInv, [Next]_vars, NEW c \in Callers, FreeStep(c)
  PROVE  HandInv'
<1>1. ProofType /\ HandType /\ LockType /\ HandOK(c) /\ mem[c] \subseteq Proofs
  BY TypesHold DEF IInv, HandInv, HandType
<1>2. Apart(c)
  BY Own DEF CallerStep
<1> USE DEF Goto
<1>3. CASE ReceiveSwap(c)
  <2>1. PICK p \in Proofs \ Reserved :
          /\ mint[p] = "unissued" /\ mint' = [mint EXCEPT ![p] = "unspent"]
          /\ mem' = [mem EXCEPT ![c] = {p}]
    BY <1>3 DEF ReceiveSwap
  <2>2. file' = file /\ out' = out /\ at'[c] = "append" /\ mem'[c] = {p}
    BY <1>1, <1>3, <2>1 DEF ReceiveSwap, LockType, HandType
  <2>3. file[p] = 0 /\ p \notin out /\ mint'[p] = "unspent"
    BY <1>1, <2>1 DEF IInv, ProofInv, ProofOK, ProofType
  <2>4. HandOK(c)' /\ NewInHand(c)
    BY <2>1, <2>2, <2>3 DEF HandOK, NewInHand, InHand, Spending, Minting
  <2> QED
    BY <1>2, <2>2, <2>4, SameHand, HandCaller
<1>4. CASE ReceiveLost(c) \/ SendCall(c)
  <2>1. UNCHANGED <<file, out>> /\ mem' = mem /\ at[c] = "idle"
    BY <1>4 DEF ReceiveLost, SendCall
  <2>2. mem'[c] = {}
    BY <1>1, <2>1 DEF HandOK, InHand, Spending, Minting
  <2> QED
    BY <1>2, <2>1, <2>2, SameHand, NothingInHand, HandCaller
<1>5. CASE Dispatch(c)
  <2>1. /\ at[c] = "token" /\ at'[c] = "paid" /\ out' = out \cup mem[c]
        /\ UNCHANGED <<mint, file, mem>>
    BY <1>1, <1>5 DEF Dispatch, LockType
  <2>2. FromHand(c)
    BY <2>1 DEF FromHand, InHand
  <2>3. HandOK(c)' /\ NewInHand(c)
    BY <1>1, <2>1 DEF HandOK, NewInHand, InHand, Spending, Minting
  <2> QED
    BY <1>2, <2>2, <2>3, HandCaller
<1>6. CASE Rollback(c)
  <2>1. at[c] = "token" /\ at'[c] = "append" /\ UNCHANGED <<mint, file, mem, out>>
    BY <1>1, <1>6 DEF Rollback, LockType
  <2>2. HandOK(c)' /\ NewInHand(c)
    BY <1>1, <2>1 DEF HandOK, NewInHand, InHand, Spending, Minting
  <2> QED
    BY <1>2, <2>1, <2>2, SameHand, HandCaller
<1>7. CASE PaidDone(c)
  <2>1. UNCHANGED <<file, out>> /\ mem'[c] = {}
    BY <1>1, <1>7 DEF PaidDone, Keep, HandType
  <2> QED
    BY <1>2, <2>1, SameHand, NothingInHand, HandCaller
<1>8. CASE MarkSpent(c)
  <2>1. /\ at[c] = "paid" /\ at'[c] = "drop" /\ UNCHANGED <<mint, file, mem, out>>
        /\ \A p \in mem[c] : mint[p] = "spent"
    BY <1>1, <1>8 DEF MarkSpent, LockType
  <2>2. HandOK(c)' /\ NewInHand(c)
    BY <1>1, <2>1 DEF HandOK, NewInHand, InHand, Spending, Minting
  <2> QED
    BY <1>2, <2>1, <2>2, SameHand, HandCaller
<1> QED
  BY <1>3, <1>4, <1>5, <1>6, <1>7, <1>8 DEF FreeStep

LEMMA TopUpHand ==
  ASSUME IInv, [Next]_vars, NEW c \in Callers, CreateStep(c) \/ PollStep(c)
  PROVE  HandInv'
<1>1. ProofType /\ HandType /\ LockType /\ HandOK(c) /\ mem[c] \subseteq Proofs
  BY TypesHold DEF IInv, HandInv, HandType
<1>2. Apart(c)
  BY Own DEF CallerStep
<1> USE DEF Goto
<1>3. CASE \/ CreateStep(c) \/ PollStop(c)
           \/ \E q \in Quotes : PollRead(c, q) \/ PollAsk(c, q) \/ PollDrop(c, q)
                                \/ PollMark(c, q) \/ PollMarkFail(c, q)
  <2>1. UNCHANGED <<file, out>> /\ mem' = mem
        /\ at[c] \in {"idle", "quoting", "marking", "ask", "issue", "mark", "qdrop"}
    BY <1>3
       DEF CreateStep, CreateCheck, CreateFail, CreateQuote, CreateMark, CreateMarkFail, OnlyAt, PollStop,
           PollRead, PollAsk, PollDrop, PollMark, PollMarkFail
  <2>2. mem'[c] = {}
    BY <1>1, <2>1 DEF HandOK, InHand, Spending, Minting
  <2> QED
    BY <1>2, <2>1, <2>2, SameHand, NothingInHand, HandCaller
<1>4. CASE \E q \in Quotes : PollIssue(c, q) \/ PollReplay(c, q)
  <2>1. PICK q \in Quotes : PollIssue(c, q) \/ PollReplay(c, q)
    BY <1>4
  <2>2. QuoteProof[q] \in Reserved /\ QuoteProof[q] \in Proofs
    BY QuoteProofs, ProofsFinite
  <2>3. UNCHANGED <<file, out>> /\ at[c] = "issue" /\ mem[c] = {}
    BY <1>1, <2>1 DEF PollIssue, PollReplay, HandOK, InHand, Spending, Minting
  <2>4. mint'[QuoteProof[q]] # "unissued"
    BY <1>1, <2>1, <2>2 DEF PollIssue, PollReplay, ProofType, IInv, QuoteInv, QuoteOK
  <2>5. mem' = mem \/ (mem'[c] = {QuoteProof[q]} /\ at'[c] = "qappend")
    BY <1>1, <2>1 DEF PollIssue, PollReplay, HandType, LockType
  <2>6. CASE mem' = mem
    BY <1>2, <2>3, <2>6, SameHand, NothingInHand, HandCaller
  <2>7. CASE mem'[c] = {QuoteProof[q]} /\ at'[c] = "qappend"
    <3>1. HandOK(c)' /\ NewInHand(c)
      BY <2>2, <2>4, <2>7 DEF HandOK, NewInHand, InHand, Spending, Minting
    <3> QED
      BY <1>2, <2>3, <3>1, SameHand, HandCaller
  <2> QED
    BY <2>5, <2>6, <2>7
<1>5. CASE PollAppendRead(c)
  <2>1. at[c] = "qappend" /\ at'[c] = "qappending" /\ UNCHANGED <<mint, file, mem, out>>
    BY <1>1, <1>5 DEF PollAppendRead, Read, LockType
  <2>2. HandOK(c)' /\ NewInHand(c)
    BY <1>1, <2>1 DEF HandOK, NewInHand, InHand, Spending, Minting
  <2> QED
    BY <1>2, <2>1, <2>2, SameHand, HandCaller
<1>6. CASE PollAppendWrite(c)
  <2>1. /\ at[c] = "qappending" /\ file' = Plus(snap[c], Fresh(c)) /\ mem'[c] = {} /\ out' = out
        /\ snap[c] = file /\ Fresh(c) \subseteq mem[c]
    BY <1>1, <1>6 DEF PollAppendWrite, Keep, HandType, IInv, SnapInv, SnapOK, Fresh
  <2>2. FromHand(c)
    BY <1>1, <2>1, PlusType DEF FromHand, Minting, ProofType
  <2> QED
    BY <1>2, <2>1, <2>2, NothingInHand, HandCaller
<1>7. CASE PollAppendFail(c)
  <2>1. UNCHANGED <<file, out>> /\ mem'[c] = {}
    BY <1>1, <1>7 DEF PollAppendFail, Lose, Keep, HandType
  <2> QED
    BY <1>2, <2>1, SameHand, NothingInHand, HandCaller
<1> QED
  BY <1>3, <1>4, <1>5, <1>6, <1>7 DEF PollStep

LEMMA HandStep ==
  ASSUME IInv, [Next]_vars
  PROVE  HandInv'
<1>1. HandInv /\ HandType
  BY TypesHold DEF IInv
<1>2. CASE Elsewhere
  <2>1. UNCHANGED <<file, at, mem, out>>
    BY <1>2 DEF Elsewhere, ProviderSpends, MintResolves, Unthrottle, Pay, vars, storeVars
  <2>2. ASSUME NEW c \in Callers
        PROVE  HandOK(c)'
    BY <1>1, <2>1, MintStep DEF HandInv, HandOK, HandType
  <2> QED
    BY <1>1, <2>1, <2>2 DEF HandInv
<1>3. CASE Crash
  <2>1. \A c \in Callers : mem'[c] = {}
    BY <1>3 DEF Crash, StoreCrash
  <2> QED
    BY <2>1, NothingInHand DEF HandInv
<1> QED
  BY <1>2, <1>3, Steps, StoreHand, FreeHand, TopUpHand

(***************************************************************************)
(* Where the proofs are.                                                   *)
(***************************************************************************)
\* Of a proof the step does not touch all stays as it was, and one that leaves the
\* caller's hands was handed out, is lost, or the mint does not honour it any more.
Untouched(c, p) ==
  /\ mint'[p] = mint[p] /\ file'[p] = file[p] /\ (p \in out' <=> p \in out) /\ lost \subseteq lost'
  /\ p \in mem[c] => p \in mem'[c] \cup out \cup lost' \/ mint[p] = "spent"

LEMMA ProofKept ==
  ASSUME IInv, NEW c \in Callers, Apart(c), NEW p \in Proofs, Untouched(c, p)
  PROVE  ProofOK(p)'
<1>1. ProofOK(p)
  BY DEF IInv, ProofInv
<1>2. Accounted(p) /\ mint[p] # "spent" => Accounted(p)'
  <2>1. ASSUME NEW d \in Callers, p \in mem[d], mint[p] # "spent"
        PROVE  Accounted(p)'
    <3>1. CASE d = c
      BY <2>1, <3>1 DEF Untouched, Accounted
    <3>2. CASE d # c
      BY <2>1, <3>2 DEF Apart, Accounted
    <3> QED
      BY <3>1, <3>2
  <2> QED
    BY <2>1 DEF Untouched, Accounted
<1> QED
  BY <1>1, <1>2 DEF Untouched, ProofOK

\* One the mint honours no more need not be anywhere.
LEMMA SpentOK ==
  ASSUME ProofType', NEW p \in Proofs, ProofOK(p), mint'[p] = "spent",
         p \in out' => p \in out, file'[p] = file[p] \/ file'[p] = 0
  PROVE  ProofOK(p)'
BY DEF ProofOK, ProofType

LEMMA StoreProofs ==
  ASSUME IInv, [Next]_vars, NEW c \in Callers, LockStep(c), NEW p \in Proofs
  PROVE  ProofOK(p)'
<1>1. /\ ProofType /\ HandType /\ ProofType' /\ HandOK(c) /\ ProofOK(p) /\ SnapOK(c)
      /\ mem[c] \subseteq Proofs
  BY TypesHold, TypeStep, Types DEF IInv, HandInv, HandType, ProofInv, SnapInv
<1>2. Apart(c)
  BY Own DEF CallerStep
<1>3. CASE \/ AppendRead(c) \/ SendRead(c) \/ DropRead(c)
           \/ SendRefuse(c) \/ SendCheck(c) \/ SendCleanFail(c)
  <2>1. UNCHANGED <<mint, file, mem, out, lost>>
    BY <1>3 DEF AppendRead, SendRead, DropRead, Read, SendRefuse, SendCheck, SendCleanFail
  <2>2. Untouched(c, p)
    BY <2>1 DEF Untouched
  <2> QED
    BY <1>2, <2>2, ProofKept
<1>4. CASE AppendWrite(c)
  <2>1. /\ at[c] = "appending" /\ file' = Plus(file, mem[c]) /\ UNCHANGED <<mint, out, lost>>
    BY <1>1, <1>4 DEF AppendWrite, SnapOK
  <2>2. CASE p \in mem[c]
    <3>1. file'[p] = 1 /\ p \notin out /\ mint[p] # "unissued"
      BY <1>1, <2>1, <2>2, PlusType DEF HandOK, InHand, ProofType
    <3> QED
      BY <2>1, <3>1 DEF ProofOK, Accounted
  <2>3. CASE p \notin mem[c]
    <3>1. Untouched(c, p)
      BY <1>1, <2>1, <2>3, PlusType DEF Untouched, ProofType
    <3> QED
      BY <1>2, <3>1, ProofKept
  <2> QED
    BY <2>2, <2>3
<1>5. CASE AppendFail(c) \/ SendPersistFail(c)
  <2>1. Untouched(c, p)
    BY <1>5 DEF AppendFail, SendPersistFail, Lose, Keep, Untouched
  <2> QED
    BY <1>2, <2>1, ProofKept
<1>6. CASE SendClean(c) \/ SendPersist(c)
  <2>1. file' = snap[c] /\ UNCHANGED <<mint, mem, out, lost>> /\ at[c] \in Inside \ {"mark"}
    BY <1>6 DEF SendClean, SendPersist, Inside
  <2>2. CASE snap[c][p] = file[p]
    <3>1. Untouched(c, p)
      BY <2>1, <2>2 DEF Untouched
    <3> QED
      BY <1>2, <3>1, ProofKept
  <2>3. CASE snap[c][p] = 0 /\ mint[p] = "spent"
    BY <1>1, <2>1, <2>3, SpentOK
  <2> QED
    BY <2>1, <2>2, <2>3, ReadFile
<1>7. CASE SendSwap(c)
  <2>1. PICK i \in use[c], q \in Proofs \ Reserved :
          /\ mint[i] = "unspent" /\ mint[q] = "unissued"
          /\ mint' = [mint EXCEPT ![i] = "spent", ![q] = "unspent"]
          /\ mem' = [mem EXCEPT ![c] = {q}]
    BY <1>7 DEF SendSwap
  <2>2. UNCHANGED <<file, out, lost>> /\ mem'[c] = {q} /\ mem[c] = {} /\ i \in Proofs
    BY <1>1, <1>7, <2>1 DEF SendSwap, HandType, HandOK, InHand, Spending, Minting
  <2>3. CASE p = i
    BY <1>1, <2>1, <2>2, <2>3, SpentOK DEF ProofType
  <2>4. CASE p = q
    <3>1. mint'[p] = "unspent" /\ file[p] = 0 /\ p \notin out /\ p \in mem'[c]
      BY <1>1, <2>1, <2>2, <2>4 DEF ProofOK, ProofType
    <3> QED
      BY <2>2, <3>1 DEF ProofOK, Accounted
  <2>5. CASE p # i /\ p # q
    <3>1. Untouched(c, p)
      BY <1>1, <2>1, <2>2, <2>5 DEF Untouched, ProofType
    <3> QED
      BY <1>2, <3>1, ProofKept
  <2> QED
    BY <2>3, <2>4, <2>5
<1>8. CASE SendSwapLost(c)
  <2>1. PICK i \in use[c] : mint[i] = "unspent" /\ mint' = [mint EXCEPT ![i] = "pending"]
    BY <1>8 DEF SendSwapLost
  <2>2. UNCHANGED <<file, mem, out, lost>> /\ at[c] = "swap" /\ i \in Proofs
    BY <1>1, <1>8, <2>1 DEF SendSwapLost, HandType
  <2>3. CASE p = i
    <3>1. file[p] > 0 /\ mint'[p] = "pending"
      BY <1>1, <2>1, <2>2, <2>3 DEF SnapOK, ProofType
    <3> QED
      BY <1>1, <2>2, <3>1 DEF ProofOK, Accounted
  <2>4. CASE p # i
    <3>1. Untouched(c, p)
      BY <1>1, <2>1, <2>2, <2>4 DEF Untouched, ProofType
    <3> QED
      BY <1>2, <3>1, ProofKept
  <2> QED
    BY <2>3, <2>4
<1>9. CASE DropWrite(c)
  <2>1. /\ at[c] = "dropping" /\ UNCHANGED <<mint, out, lost>>
        /\ (file' = Only(file, Proofs \ mem[c]) \/ file' = file)
    BY <1>1, <1>9 DEF DropWrite, SnapOK
  <2>2. CASE p \in mem[c]
    <3>1. mint'[p] = "spent" /\ (file'[p] = file[p] \/ file'[p] = 0)
      BY <1>1, <2>1, <2>2, PlusType DEF HandOK, ProofType
    <3> QED
      BY <1>1, <2>1, <3>1, SpentOK
  <2>3. CASE p \notin mem[c]
    <3>1. Untouched(c, p)
      BY <1>1, <2>1, <2>3, PlusType DEF Untouched, ProofType
    <3> QED
      BY <1>2, <3>1, ProofKept
  <2> QED
    BY <2>2, <2>3
<1> QED
  BY <1>3, <1>4, <1>5, <1>6, <1>7, <1>8, <1>9 DEF LockStep

LEMMA FreeProofs ==
  ASSUME IInv, [Next]_vars, NEW c \in Callers, FreeStep(c), NEW p \in Proofs
  PROVE  ProofOK(p)'
<1>1. ProofType /\ HandType /\ HandOK(c) /\ ProofOK(p)
  BY TypesHold DEF IInv, HandInv, ProofInv
<1>2. Apart(c)
  BY Own DEF CallerStep
<1>3. CASE ReceiveSwap(c) \/ ReceiveLost(c)
  <2>1. PICK q \in Proofs \ Reserved :
          /\ mint[q] = "unissued" /\ mint' = [mint EXCEPT ![q] = "unspent"]
          /\ (mem' = [mem EXCEPT ![c] = {q}] /\ lost' = lost) \/ (mem' = mem /\ lost' = lost \cup {q})
    BY <1>3 DEF ReceiveSwap, ReceiveLost
  <2>2. UNCHANGED <<file, out>> /\ mem[c] = {}
    BY <1>1, <1>3 DEF ReceiveSwap, ReceiveLost, HandOK, InHand, Spending, Minting
  <2>3. CASE p = q
    <3>1. mint'[p] = "unspent" /\ file[p] = 0 /\ p \notin out /\ p \in mem'[c] \cup lost'
      BY <1>1, <2>1, <2>2, <2>3 DEF ProofOK, ProofType, HandType
    <3> QED
      BY <2>2, <3>1 DEF ProofOK, Accounted
  <2>4. CASE p # q
    <3>1. Untouched(c, p)
      BY <1>1, <2>1, <2>2, <2>4 DEF Untouched, ProofType
    <3> QED
      BY <1>2, <3>1, ProofKept
  <2> QED
    BY <2>3, <2>4
<1>4. CASE SendCall(c) \/ Rollback(c) \/ MarkSpent(c)
  <2>1. Untouched(c, p)
    BY <1>4 DEF SendCall, Rollback, MarkSpent, Untouched
  <2> QED
    BY <1>2, <2>1, ProofKept
<1>5. CASE Dispatch(c)
  <2>1. at[c] = "token" /\ out' = out \cup mem[c] /\ UNCHANGED <<mint, file, mem, lost>>
    BY <1>5 DEF Dispatch
  <2>2. CASE p \in mem[c]
    <3>1. file[p] = 0 /\ p \notin Reserved /\ mint[p] # "unissued"
      BY <1>1, <2>1, <2>2 DEF HandOK, InHand
    <3> QED
      BY <1>1, <2>1, <2>2, <3>1 DEF ProofOK, Accounted
  <2>3. CASE p \notin mem[c]
    <3>1. Untouched(c, p)
      BY <2>1, <2>3 DEF Untouched
    <3> QED
      BY <1>2, <3>1, ProofKept
  <2> QED
    BY <2>2, <2>3
<1>6. CASE PaidDone(c)
  <2>1. Untouched(c, p)
    BY <1>1, <1>6 DEF PaidDone, Keep, HandOK, Spending, Untouched
  <2> QED
    BY <1>2, <2>1, ProofKept
<1> QED
  BY <1>3, <1>4, <1>5, <1>6 DEF FreeStep

LEMMA TopUpProofs ==
  ASSUME IInv, [Next]_vars, NEW c \in Callers, CreateStep(c) \/ PollStep(c), NEW p \in Proofs
  PROVE  ProofOK(p)'
<1>1. ProofType /\ HandType /\ HandOK(c) /\ ProofOK(p) /\ SnapOK(c)
  BY TypesHold DEF IInv, HandInv, ProofInv, SnapInv
<1>2. Apart(c)
  BY Own DEF CallerStep
<1>3. CASE \/ CreateStep(c) \/ PollStop(c) \/ PollAppendRead(c)
           \/ \E q \in Quotes : PollRead(c, q) \/ PollAsk(c, q) \/ PollDrop(c, q)
                                \/ PollMark(c, q) \/ PollMarkFail(c, q)
  <2>1. UNCHANGED <<mint, file, mem, out, lost>>
    BY <1>3
       DEF CreateStep, CreateCheck, CreateFail, CreateQuote, CreateMark, CreateMarkFail, OnlyAt, PollStop,
           PollRead, PollAsk, PollDrop, PollMark, PollMarkFail, PollAppendRead, Read
  <2>2. Untouched(c, p)
    BY <2>1 DEF Untouched
  <2> QED
    BY <1>2, <2>2, ProofKept
<1>4. CASE \E q \in Quotes : PollReplay(c, q)
  <2>1. UNCHANGED <<mint, file, out, lost>> /\ mem[c] = {}
    BY <1>1, <1>4 DEF PollReplay, HandOK, InHand, Spending, Minting
  <2>2. Untouched(c, p)
    BY <2>1 DEF Untouched
  <2> QED
    BY <1>2, <2>2, ProofKept
<1>5. CASE \E q \in Quotes : PollIssue(c, q)
  <2>1. PICK q \in Quotes : PollIssue(c, q)
    BY <1>5
  <2> DEFINE r == QuoteProof[q]
  <2>2. /\ r \in Proofs /\ mint[r] = "unissued" /\ mint' = [mint EXCEPT ![r] = "unspent"]
        /\ mem[c] = {} /\ UNCHANGED <<file, out>> /\ lost \subseteq lost'
    BY <1>1, <2>1, QuoteProofs, ProofsFinite
       DEF PollIssue, IInv, QuoteInv, QuoteOK, HandOK, InHand, Spending, Minting
  <2>3. CASE p = r
    <3>1. p \in mem'[c] \cup lost'
      BY <1>1, <2>1, <2>3 DEF PollIssue, HandType
    <3>2. mint'[p] = "unspent" /\ file[p] = 0 /\ p \notin out
      BY <1>1, <2>2, <2>3 DEF ProofOK, ProofType
    <3> QED
      BY <2>2, <3>1, <3>2 DEF ProofOK, Accounted
  <2>4. CASE p # r
    <3>1. Untouched(c, p)
      BY <1>1, <2>2, <2>4 DEF Untouched, ProofType
    <3> QED
      BY <1>2, <3>1, ProofKept
  <2> QED
    BY <2>3, <2>4
<1>6. CASE PollAppendWrite(c)
  <2>1. /\ at[c] = "qappending" /\ file' = Plus(file, Fresh(c)) /\ UNCHANGED <<mint, out, lost>>
        /\ Fresh(c) = {q \in mem[c] : file[q] = 0}
    BY <1>1, <1>6 DEF PollAppendWrite, SnapOK, Fresh
  <2>2. CASE p \in mem[c]
    <3>1. p \in Reserved /\ mint[p] # "unissued"
      BY <1>1, <2>1, <2>2 DEF HandOK, Minting
    <3>2. file'[p] = 1
      BY <1>1, <2>1, <2>2, PlusType DEF ProofOK, ProofType
    <3> QED
      BY <1>1, <2>1, <3>1, <3>2 DEF ProofOK, Accounted
  <2>3. CASE p \notin mem[c]
    <3>1. Untouched(c, p)
      BY <1>1, <2>1, <2>3, PlusType DEF Untouched, ProofType
    <3> QED
      BY <1>2, <3>1, ProofKept
  <2> QED
    BY <2>2, <2>3
<1>7. CASE PollAppendFail(c)
  <2>1. Untouched(c, p)
    BY <1>7 DEF PollAppendFail, Lose, Keep, Untouched
  <2> QED
    BY <1>2, <2>1, ProofKept
<1> QED
  BY <1>3, <1>4, <1>5, <1>6, <1>7 DEF PollStep

LEMMA ProofStep ==
  ASSUME IInv, [Next]_vars
  PROVE  ProofInv'
<1> SUFFICES ASSUME NEW p \in Proofs PROVE ProofOK(p)'
  BY DEF ProofInv
<1>1. ProofOK(p) /\ ProofType /\ ProofType'
  BY TypesHold, TypeStep, Types DEF IInv, ProofInv
<1>2. CASE UNCHANGED storeVars
  BY <1>1, <1>2 DEF storeVars, ProofOK, Accounted
<1>3. CASE \E r \in Proofs : ProviderSpends(r) \/ MintResolves(r)
  <2>1. PICK r \in Proofs : ProviderSpends(r) \/ MintResolves(r)
    BY <1>3
  <2>2. UNCHANGED <<file, mem, out, lost>>
    BY <2>1 DEF ProviderSpends, MintResolves
  <2>3. CASE mint'[p] = "spent"
    BY <1>1, <2>2, <2>3, SpentOK
  <2>4. CASE mint'[p] # "spent"
    <3>1. mint'[p] = mint[p] \/ (mint[p] = "pending" /\ mint'[p] = "unspent")
      BY <1>1, <2>1, <2>4 DEF ProviderSpends, MintResolves, ProofType
    <3> QED
      BY <1>1, <2>2, <3>1 DEF ProofOK, Accounted
  <2> QED
    BY <2>3, <2>4
<1>4. CASE Crash
  <2>1. UNCHANGED <<mint, file, out>> /\ lost \subseteq lost'
        /\ \A c \in Callers : mem[c] \subseteq lost'
    BY <1>4 DEF Crash, StoreCrash
  <2>2. Accounted(p) => Accounted(p)'
    BY <2>1 DEF Accounted
  <2> QED
    BY <1>1, <2>1, <2>2 DEF ProofOK
<1> QED
  BY <1>2, <1>3, <1>4, Steps, StoreProofs, FreeProofs, TopUpProofs
     DEF Elsewhere, Unthrottle, Pay, vars

(***************************************************************************)
(* Quotes.                                                                 *)
(***************************************************************************)
\* A write of the file drops what is spent only.
LEMMA Dropped ==
  ASSUME IInv, [Next]_vars, NEW p \in Proofs, file[p] > 0, file'[p] = 0
  PROVE  mint[p] = "spent"
<1>1. ProofType /\ HandType
  BY TypesHold
<1>2. PICK c \in Callers : AppendWrite(c) \/ SendClean(c) \/ SendPersist(c) \/ DropWrite(c)
                           \/ PollAppendWrite(c)
  <2>1. file' # file
    BY <1>1 DEF ProofType
  <2>2. ASSUME NEW c \in Callers, CallerStep(c)
        PROVE  AppendWrite(c) \/ SendClean(c) \/ SendPersist(c) \/ DropWrite(c) \/ PollAppendWrite(c)
    BY <2>1, <2>2
       DEF CallerStep, LockStep, FreeStep, AppendRead, SendRead, DropRead, Read, AppendFail, SendRefuse,
           SendCheck, SendCleanFail, SendSwap, SendSwapLost, SendPersistFail, ReceiveSwap, ReceiveLost,
           SendCall, Dispatch, Rollback, PaidDone, MarkSpent, CreateStep, CreateCheck, CreateFail,
           CreateQuote, CreateMark, CreateMarkFail, OnlyAt, PollStep, PollStop, PollRead, PollAsk,
           PollIssue, PollReplay, PollAppendRead, PollAppendFail, PollMark, PollMarkFail, PollDrop
  <2>3. ~Elsewhere /\ ~Crash
    BY <2>1 DEF Elsewhere, ProviderSpends, MintResolves, Unthrottle, Pay, Crash, StoreCrash, vars, storeVars
  <2> QED
    BY <2>2, <2>3, Steps DEF CallerStep
<1>3. CASE AppendWrite(c) \/ PollAppendWrite(c)
  <2>1. snap[c] = file /\ \E S : file' = Plus(snap[c], S)
    BY <1>3 DEF AppendWrite, PollAppendWrite, IInv, SnapInv, SnapOK
  <2> QED
    BY <1>1, <2>1, PlusType DEF ProofType
<1>4. CASE SendClean(c) \/ SendPersist(c)
  <2>1. file' = snap[c] /\ at[c] \in Inside \ {"mark"}
    BY <1>4 DEF SendClean, SendPersist, Inside
  <2> QED
    BY <2>1, ReadFile
<1>5. CASE DropWrite(c)
  <2>1. at[c] = "dropping" /\ (file' = Only(file, Proofs \ mem[c]) \/ file' = file)
    BY <1>5 DEF DropWrite, IInv, SnapInv, SnapOK
  <2>2. p \in mem[c]
    BY <1>1, <2>1, PlusType DEF ProofType
  <2> QED
    BY <2>1, <2>2 DEF IInv, HandInv, HandOK
<1> QED
  BY <1>2, <1>3, <1>4, <1>5

LEMMA HeldStays ==
  ASSUME IInv, [Next]_vars, NEW q \in Quotes, Held(q)
  PROVE  Held(q)'
<1>1. QuoteProof[q] \in Proofs
  BY QuoteProofs, ProofsFinite
<1>2. ProofType /\ ProofType'
  BY TypesHold, TypeStep, Types
<1>3. file[QuoteProof[q]] > 0 /\ file'[QuoteProof[q]] = 0 => mint[QuoteProof[q]] = "spent"
  BY <1>1, Dropped
<1>4. file'[QuoteProof[q]] \in Nat
  BY <1>1, <1>2 DEF ProofType
<1>5. QuoteProof' = QuoteProof
  OBVIOUS
<1> QED
  BY <1>1, <1>3, <1>4, <1>5, MintStep DEF Held

\* The proofs of a quote are signed when it is issued, and by nothing else.
LEMMA QuoteSigned ==
  ASSUME IInv, [Next]_vars, NEW q \in Quotes
  PROVE  quote'[q] # "issued" <=> mint'[QuoteProof[q]] = "unissued"
<1> DEFINE p == QuoteProof[q]
<1>1. ProofType /\ QuoteType /\ p \in Reserved /\ p \in Proofs
  BY TypesHold, QuoteProofs, ProofsFinite
<1>2. quote[q] # "issued" <=> mint[p] = "unissued"
  BY DEF IInv, QuoteInv, QuoteOK
<1>3. CASE \E c \in Callers, r \in Quotes : PollIssue(c, r)
  <2>1. PICK c \in Callers, r \in Quotes : PollIssue(c, r)
    BY <1>3
  <2>2. mint' = [mint EXCEPT ![QuoteProof[r]] = "unspent"] /\ quote' = [quote EXCEPT ![r] = "issued"]
    BY <2>1 DEF PollIssue
  <2>3. q # r => QuoteProof[r] # p
    BY QuoteProofs
  <2> QED
    BY <1>1, <1>2, <2>2, <2>3 DEF ProofType, QuoteType
<1>4. CASE mint'[p] = "unissued" <=> mint[p] = "unissued"
  <2>1. CASE UNCHANGED quote
    BY <1>2, <1>4, <2>1
  <2>2. CASE \E c \in Callers, r \in Quotes : CreateQuote(c, r)
    BY <1>1, <1>2, <1>4, <2>2 DEF CreateQuote, QuoteType
  <2>3. CASE \E r \in Quotes : Pay(r)
    BY <1>1, <1>2, <1>4, <2>3 DEF Pay, QuoteType
  <2>4. CASE \E c \in Callers : CreateStep(c) \/ PollStep(c)
    BY <1>3, <2>1, <2>2, <2>4
       DEF CreateStep, CreateCheck, CreateFail, CreateMark, CreateMarkFail, PollStep, PollStop, PollRead,
           PollAsk, PollReplay, PollAppendRead, PollAppendWrite, PollAppendFail, PollMark, PollMarkFail,
           PollDrop, quoteVars
  <2> QED
    BY <2>1, <2>3, <2>4, Steps DEF Elsewhere, Unthrottle, Crash, vars, quoteVars
<1>5. CASE ~(\E c \in Callers, r \in Quotes : PollIssue(c, r))
  <2>1. mint'[p] = "unissued" <=> mint[p] = "unissued"
    <3>1. mint[p] # "unissued" => mint'[p] # "unissued"
      BY <1>1, MintStep
    <3>2. ASSUME mint[p] = "unissued"
          PROVE  mint'[p] = "unissued"
      <4>1. CASE UNCHANGED mint
        BY <3>2, <4>1
      <4>2. CASE \E c \in Callers : ReceiveSwap(c) \/ ReceiveLost(c)
        BY <1>1, <3>2, <4>2 DEF ReceiveSwap, ReceiveLost, ProofType
      <4>3. CASE \E c \in Callers : SendSwap(c) \/ SendSwapLost(c)
        BY <1>1, <3>2, <4>3 DEF SendSwap, SendSwapLost, ProofType
      <4>4. CASE \E r \in Proofs : ProviderSpends(r) \/ MintResolves(r)
        BY <1>1, <3>2, <4>4 DEF ProviderSpends, MintResolves, ProofType
      <4>5. CASE \E c \in Callers : LockStep(c) \/ FreeStep(c)
        BY <4>1, <4>2, <4>3, <4>5
           DEF LockStep, FreeStep, AppendRead, SendRead, DropRead, Read, AppendWrite, AppendFail,
               SendRefuse, SendCheck, SendClean, SendCleanFail, SendPersist, SendPersistFail, DropWrite,
               SendCall, Dispatch, Rollback, PaidDone, MarkSpent
      <4>6. CASE \E c \in Callers : CreateStep(c) \/ PollStep(c)
        BY <1>5, <4>1, <4>6
           DEF CreateStep, CreateCheck, CreateFail, CreateQuote, CreateMark, CreateMarkFail, OnlyAt,
               PollStep, PollStop, PollRead, PollAsk, PollReplay, PollAppendRead, Read, PollAppendWrite,
               PollAppendFail, PollMark, PollMarkFail, PollDrop
      <4> QED
        BY <4>1, <4>4, <4>5, <4>6, Steps
           DEF Elsewhere, Unthrottle, Pay, Crash, StoreCrash, vars, storeVars
    <3> QED
      BY <3>1, <3>2
  <2> QED
    BY <1>4, <2>1
<1> QED
  BY <1>3, <1>5

Users == Creators \cup Pollers

QuoteFine(q) == QuoteOK(q) /\ (q \in shown => quote[q] # "none")

\* A quote of which neither the state nor the marker changes.
LEMMA QuoteSame ==
  ASSUME IInv, [Next]_vars, NEW q \in Quotes,
         quote'[q] = quote[q], marker'[q] = marker[q], q \in shown' <=> q \in shown
  PROVE  QuoteFine(q)'
<1>1. QuoteFine(q)
  BY DEF IInv, QuoteInv, QuoteFine
<1>2. quote'[q] # "issued" <=> mint'[QuoteProof[q]] = "unissued"
  BY QuoteSigned
<1>3. Held(q) => Held(q)'
  BY HeldStays
<1> QED
  BY <1>1, <1>2, <1>3 DEF QuoteFine, QuoteOK

\* What the others do stays right, if the quotes they mark stay as they are.
Spared(c) ==
  \A d \in Users \ {c} :
    /\ doing'[d] = doing[d]
    /\ at[d] = "marking" => \A q \in doing[d] : quote'[q] = quote[q] /\ (q \in shown' => q \in shown)

Alone(c) ==
  c \in Users /\ at'[c] = "marking" => \A d \in Users \ {c} : at[d] = "marking" => doing'[c] \cap doing[d] = {}

LEMMA QuoteCaller ==
  ASSUME IInv, [Next]_vars, NEW c \in Callers, Apart(c), Spared(c), Alone(c),
         c \in Users => DoingOK(c)',
         \A q \in Quotes : quote[q] = "issued" => quote'[q] = "issued",
         \A q \in Quotes : QuoteFine(q)'
  PROVE  QuoteInv'
<1>1. QuoteInv /\ QuoteType /\ Users \subseteq Callers
  BY TypesHold, QuoteCallers DEF IInv, Users
<1>2. ASSUME NEW d \in Users, d # c
      PROVE  DoingOK(d)'
  <2>1. /\ DoingOK(d) /\ doing[d] \subseteq Quotes
        /\ at'[d] = at[d] /\ mem'[d] = mem[d] /\ doing'[d] = doing[d]
    BY <1>1, <1>2 DEF QuoteInv, QuoteType, Users, Apart, Spared
  <2>2. at[d] = "marking" => \A q \in doing[d] : quote'[q] = "unpaid" /\ q \notin shown'
    BY <1>2, <2>1 DEF Spared, DoingOK
  <2>3. \A q \in doing[d] : Held(q) => Held(q)'
    BY <2>1, HeldStays
  <2> QED
    BY <2>1, <2>2, <2>3 DEF DoingOK
<1>3. ASSUME NEW d \in Users, NEW e \in Users, at'[d] = "marking", at'[e] = "marking",
             doing'[d] \cap doing'[e] # {}
      PROVE  d = e
  <2>1. \A u \in Users \ {c} : at'[u] = at[u] /\ doing'[u] = doing[u]
    BY <1>1 DEF Apart, Spared
  <2>2. CASE d # c /\ e # c
    BY <1>1, <1>3, <2>1, <2>2 DEF QuoteInv, Users
  <2>3. CASE d = c \/ e = c
    BY <1>3, <2>1, <2>3 DEF Alone
  <2> QED
    BY <2>2, <2>3
<1> QED
  BY <1>2, <1>3 DEF QuoteInv, QuoteFine, Users

\* A caller that ends marks nothing and has nothing to store.
LEMMA StopOK ==
  ASSUME QuoteType, NEW c \in Callers, doing' = [doing EXCEPT ![c] = {}]
  PROVE  (c \in Users => DoingOK(c)') /\ Alone(c) /\ \A d \in Users \ {c} : doing'[d] = doing[d]
<1>1. \A d \in Users \ {c} : doing'[d] = doing[d]
  BY DEF QuoteType, Users
<1>2. c \in Users => doing'[c] = {}
  BY DEF QuoteType, Users
<1>3. c \in Users => DoingOK(c)'
  BY <1>2 DEF DoingOK
<1> QED
  BY <1>1, <1>2, <1>3 DEF Alone

LEMMA SparedSame ==
  ASSUME NEW c \in Callers, \A d \in Users \ {c} : doing'[d] = doing[d],
         UNCHANGED <<quote, shown>>
  PROVE  Spared(c)
BY DEF Spared

\* The operations of the store leave quotes alone.
LEMMA StoreQuotes ==
  ASSUME IInv, [Next]_vars, NEW c \in Callers, LockStep(c) \/ FreeStep(c), UNCHANGED quoteVars
  PROVE  QuoteInv'
<1>1. LockType /\ QuoteInv
  BY TypesHold DEF IInv
<1>2. Apart(c) /\ UNCHANGED <<quote, marker, shown, doing>>
  BY Own DEF CallerStep, quoteVars
<1>3. \A q \in Quotes : QuoteFine(q)'
  BY <1>2, QuoteSame
<1>4. at'[c] \notin {"marking", "mark"} \cup Minting \/ at' = at
  BY <1>1
     DEF LockStep, FreeStep, AppendRead, SendRead, DropRead, Read, AppendWrite, AppendFail,
         SendRefuse, SendCheck, SendClean, SendCleanFail, SendSwap, SendSwapLost, SendPersist,
         SendPersistFail, DropWrite, Release, ReceiveSwap, ReceiveLost, SendCall, Dispatch,
         Rollback, PaidDone, MarkSpent, Goto, LockType, Minting
<1>5. CASE at'[c] \notin {"marking", "mark"} \cup Minting
  <2>1. c \in Users => DoingOK(c)'
    BY <1>1, <1>2, <1>5 DEF QuoteInv, DoingOK, Users, Minting
  <2>2. Alone(c)
    BY <1>5 DEF Alone
  <2> QED
    BY <1>2, <1>3, <2>1, <2>2, SparedSame, QuoteCaller
<1>6. CASE at' = at /\ at[c] \in {"marking", "mark"} \cup Minting
  <2>1. FALSE
    BY <1>6
       DEF LockStep, FreeStep, AppendRead, SendRead, DropRead, Read, AppendWrite, AppendFail,
           SendRefuse, SendCheck, SendClean, SendCleanFail, SendSwap, SendSwapLost, SendPersist,
           SendPersistFail, DropWrite, ReceiveSwap, ReceiveLost, SendCall, Dispatch, Rollback,
           PaidDone, MarkSpent, Minting
  <2> QED
    BY <2>1
<1> QED
  BY <1>4, <1>5, <1>6

LEMMA CreateQuotes ==
  ASSUME IInv, [Next]_vars, NEW c \in Callers, c \in Creators, CreateStep(c)
  PROVE  QuoteInv'
<1>1. LockType /\ QuoteType /\ QuoteInv /\ DoingOK(c) /\ c \in Users
  BY TypesHold DEF IInv, QuoteInv, Users
<1>2. Apart(c)
  BY Own DEF CallerStep
<1>3. CASE CreateCheck(c)
  <2>1. UNCHANGED <<quote, marker, shown, doing>> /\ at'[c] = "quoting"
    BY <1>1, <1>3 DEF CreateCheck, Goto, LockType
  <2>2. DoingOK(c)' /\ Alone(c)
    BY <1>1, <2>1 DEF DoingOK, Alone, Minting
  <2> QED
    BY <1>2, <2>1, <2>2, SparedSame, QuoteSame, QuoteCaller
<1>4. CASE CreateFail(c)
  <2>1. UNCHANGED <<quote, marker, shown>> /\ doing' = [doing EXCEPT ![c] = {}]
    BY <1>4 DEF CreateFail, Stop
  <2> QED
    BY <1>1, <1>2, <2>1, StopOK, SparedSame, QuoteSame, QuoteCaller
<1>5. CASE \E q \in Quotes : CreateQuote(c, q)
  <2>1. PICK q \in Quotes : CreateQuote(c, q)
    BY <1>5
  <2>2. /\ quote[q] = "none" /\ quote'[q] = "unpaid" /\ UNCHANGED <<marker, shown>>
        /\ \A r \in Quotes \ {q} : quote'[r] = quote[r]
        /\ doing'[c] = {q} /\ \A d \in Users \ {c} : doing'[d] = doing[d]
    BY <1>1, <2>1 DEF CreateQuote, QuoteType, Users
  <2>3. q \notin shown
    BY <1>1, <2>2 DEF QuoteInv
  <2>4. \A d \in Users : at[d] = "marking" => q \notin doing[d]
    BY <1>1, <2>2 DEF QuoteInv, DoingOK, Users
  <2>5. Spared(c) /\ Alone(c)
    BY <1>1, <2>2, <2>4 DEF Spared, Alone, QuoteType, Users
  <2>6. DoingOK(c)'
    <3>1. at'[c] = "marking"
      BY <1>1, <2>1 DEF CreateQuote, Goto, LockType
    <3> QED
      BY <2>2, <2>3, <3>1 DEF DoingOK, Minting
  <2>7. QuoteFine(q)'
    <3>1. quote'[q] # "issued" <=> mint'[QuoteProof[q]] = "unissued"
      BY QuoteSigned
    <3> QED
      BY <2>2, <2>3, <3>1 DEF QuoteFine, QuoteOK
  <2>8. \A r \in Quotes : QuoteFine(r)'
    BY <2>2, <2>7, QuoteSame
  <2> QED
    BY <1>2, <2>2, <2>5, <2>6, <2>8, QuoteCaller
<1>6. CASE \E q \in Quotes : CreateMark(c, q) \/ CreateMarkFail(c, q)
  <2>1. PICK q \in Quotes : CreateMark(c, q) \/ CreateMarkFail(c, q)
    BY <1>6
  <2>2. at[c] = "marking" /\ q \in doing[c] /\ quote' = quote /\ doing' = [doing EXCEPT ![c] = {}]
    BY <2>1 DEF CreateMark, CreateMarkFail, Stop
  <2>3. quote[q] = "unpaid" /\ q \notin shown
    BY <1>1, <2>2 DEF DoingOK
  <2>4. /\ \A r \in Quotes \ {q} : marker'[r] = marker[r] /\ (r \in shown' <=> r \in shown)
        /\ q \in shown' => marker'[q] = "open"
    BY <1>1, <2>1, <2>3 DEF CreateMark, CreateMarkFail, QuoteType
  <2>5. \A d \in Users \ {c} : at[d] = "marking" => q \notin doing[d]
    BY <1>1, <2>2 DEF QuoteInv, Users
  <2>6. Spared(c)
    BY <1>1, <2>2, <2>4, <2>5, StopOK DEF Spared, QuoteType, Users
  <2>7. QuoteFine(q)'
    <3>1. quote'[q] # "issued" <=> mint'[QuoteProof[q]] = "unissued"
      BY QuoteSigned
    <3> QED
      BY <2>2, <2>3, <2>4, <3>1 DEF QuoteFine, QuoteOK
  <2>8. \A r \in Quotes : QuoteFine(r)'
    BY <2>2, <2>4, <2>7, QuoteSame
  <2> QED
    BY <1>1, <1>2, <2>2, <2>6, <2>8, StopOK, QuoteCaller
<1> QED
  BY <1>3, <1>4, <1>5, <1>6 DEF CreateStep

LEMMA PollQuotes ==
  ASSUME IInv, [Next]_vars, NEW c \in Callers, c \in Pollers, PollStep(c)
  PROVE  QuoteInv'
<1>1. /\ LockType /\ QuoteType /\ HandType /\ QuoteInv /\ DoingOK(c)
      /\ c \in Users /\ doing[c] \subseteq Quotes
  BY TypesHold DEF IInv, QuoteInv, Users, QuoteType
<1>2. Apart(c)
  BY Own DEF CallerStep
<1>3. CASE \E q \in Quotes : PollRead(c, q)
  <2>1. PICK q \in Quotes : PollRead(c, q)
    BY <1>3
  <2>2. /\ UNCHANGED <<quote, marker, shown>> /\ at'[c] = "ask"
        /\ doing'[c] = {q} /\ \A d \in Users \ {c} : doing'[d] = doing[d]
    BY <1>1, <2>1 DEF PollRead, Goto, LockType, QuoteType, Users
  <2>3. DoingOK(c)' /\ Alone(c)
    BY <2>2 DEF DoingOK, Alone, Minting
  <2> QED
    BY <1>2, <2>2, <2>3, SparedSame, QuoteSame, QuoteCaller
<1>4. CASE PollStop(c) \/ PollAppendFail(c) \/ \E q \in Quotes : PollDrop(c, q)
  <2>1. UNCHANGED <<quote, marker, shown>> /\ doing' = [doing EXCEPT ![c] = {}]
    BY <1>4 DEF PollStop, PollAppendFail, PollDrop, Stop
  <2> QED
    BY <1>1, <1>2, <2>1, StopOK, SparedSame, QuoteSame, QuoteCaller
<1>5. CASE \E q \in Quotes : PollAsk(c, q)
  <2>1. UNCHANGED <<quote, marker, shown, doing>> /\ at'[c] = "issue"
    BY <1>1, <1>5 DEF PollAsk, Goto, LockType, quoteVars
  <2>2. DoingOK(c)' /\ Alone(c)
    BY <1>1, <2>1 DEF DoingOK, Alone, Minting
  <2> QED
    BY <1>2, <2>1, <2>2, SparedSame, QuoteSame, QuoteCaller
<1>6. CASE \E q \in Quotes : PollIssue(c, q) \/ PollReplay(c, q)
  <2>1. PICK q \in Quotes : PollIssue(c, q) \/ PollReplay(c, q)
    BY <1>6
  <2>2. /\ q \in doing[c] /\ quote[q] \in {"paid", "issued"} /\ quote'[q] = "issued"
        /\ UNCHANGED <<marker, shown>> /\ \A r \in Quotes \ {q} : quote'[r] = quote[r]
    BY <1>1, <2>1 DEF PollIssue, PollReplay, quoteVars, QuoteType
  <2>3. \A r \in doing[c] : r = q
    BY <1>1, <2>2 DEF DoingOK
  <2>4. \/ doing' = [doing EXCEPT ![c] = {}]
        \/ doing' = doing /\ at'[c] = "qappend" /\ mem'[c] = {QuoteProof[q]}
    BY <1>1, <2>1 DEF PollIssue, PollReplay, Stop, Goto, LockType, HandType, quoteVars
  <2>5. DoingOK(c)' /\ Alone(c) /\ \A d \in Users \ {c} : doing'[d] = doing[d]
    <3>1. CASE doing' = [doing EXCEPT ![c] = {}]
      BY <1>1, <3>1, StopOK
    <3>2. CASE doing' = doing /\ at'[c] = "qappend" /\ mem'[c] = {QuoteProof[q]}
      <4>1. DoingOK(c)'
        BY <2>2, <2>3, <3>2 DEF DoingOK, Minting
      <4> QED
        BY <3>2, <4>1 DEF Alone
    <3> QED
      BY <2>4, <3>1, <3>2
  <2>6. \A d \in Users : at[d] = "marking" => q \notin doing[d]
    BY <1>1, <2>2 DEF QuoteInv, DoingOK, Users
  <2>7. Spared(c)
    BY <1>1, <2>2, <2>5, <2>6 DEF Spared, QuoteType, Users
  <2>8. QuoteFine(q)'
    <3>1. quote'[q] # "issued" <=> mint'[QuoteProof[q]] = "unissued"
      BY QuoteSigned
    <3>2. Held(q) => Held(q)'
      BY HeldStays
    <3>3. q \in shown /\ (marker[q] = "open" \/ Held(q))
      BY <1>1, <2>2 DEF QuoteInv, QuoteOK
    <3> QED
      BY <2>2, <3>1, <3>2, <3>3 DEF QuoteFine, QuoteOK
  <2>9. \A r \in Quotes : QuoteFine(r)'
    BY <2>2, <2>8, QuoteSame
  <2> QED
    BY <1>2, <2>2, <2>5, <2>7, <2>9, QuoteCaller
<1>7. CASE PollAppendRead(c)
  <2>1. /\ UNCHANGED <<quote, marker, shown, doing, mem>>
        /\ at[c] = "qappend" /\ at'[c] = "qappending"
    BY <1>1, <1>7 DEF PollAppendRead, Read, Goto, LockType, quoteVars
  <2>2. DoingOK(c)' /\ Alone(c)
    BY <1>1, <2>1 DEF DoingOK, Alone, Minting
  <2> QED
    BY <1>2, <2>1, <2>2, SparedSame, QuoteSame, QuoteCaller
<1>8. CASE PollAppendWrite(c)
  <2>1. /\ UNCHANGED <<quote, marker, shown, doing>>
        /\ at[c] = "qappending" /\ at'[c] = "mark" /\ file' = Plus(snap[c], Fresh(c))
    BY <1>1, <1>8 DEF PollAppendWrite, Goto, LockType, quoteVars
  <2>2. \A p \in mem[c] : file'[p] > 0
    <3>1. snap[c] \in [Proofs -> Nat] /\ mem[c] \subseteq Proofs
      BY <1>1 DEF HandType
    <3> QED
      BY <2>1, <3>1, PlusType DEF Fresh
  <2>3. DoingOK(c)' /\ Alone(c)
    <3>1. \A q \in doing[c] : Held(q)'
      BY <1>1, <2>1, <2>2 DEF DoingOK, Minting, Held
    <3> QED
      BY <1>1, <2>1, <3>1 DEF DoingOK, Alone, Minting
  <2> QED
    BY <1>2, <2>1, <2>3, SparedSame, QuoteSame, QuoteCaller
<1>9. CASE \E q \in Quotes : PollMark(c, q) \/ PollMarkFail(c, q)
  <2>1. PICK q \in Quotes : PollMark(c, q) \/ PollMarkFail(c, q)
    BY <1>9
  <2>2. /\ at[c] = "mark" /\ q \in doing[c] /\ UNCHANGED <<quote, shown>>
        /\ \A r \in Quotes \ {q} : marker'[r] = marker[r]
        /\ doing' = [doing EXCEPT ![c] = {}] \/ (doing' = doing /\ at'[c] = "qdrop")
    BY <1>1, <2>1 DEF PollMark, PollMarkFail, Release, Goto, LockType, QuoteType
  <2>3. quote[q] = "issued" /\ Held(q)'
    BY <1>1, <2>2, HeldStays DEF DoingOK
  <2>4. DoingOK(c)' /\ Alone(c) /\ \A d \in Users \ {c} : doing'[d] = doing[d]
    <3>1. CASE doing' = [doing EXCEPT ![c] = {}]
      BY <1>1, <3>1, StopOK
    <3>2. CASE doing' = doing /\ at'[c] = "qdrop"
      BY <1>1, <3>2 DEF DoingOK, Alone, Minting
    <3> QED
      BY <2>2, <3>1, <3>2
  <2>5. QuoteFine(q)'
    <3>1. quote'[q] # "issued" <=> mint'[QuoteProof[q]] = "unissued"
      BY QuoteSigned
    <3>2. q \in shown
      BY <1>1, <2>3 DEF QuoteInv, QuoteOK
    <3> QED
      BY <2>2, <2>3, <3>1, <3>2 DEF QuoteFine, QuoteOK
  <2>6. \A r \in Quotes : QuoteFine(r)'
    BY <2>2, <2>5, QuoteSame
  <2> QED
    BY <1>2, <2>2, <2>4, <2>6, SparedSame, QuoteCaller
<1> QED
  BY <1>3, <1>4, <1>5, <1>6, <1>7, <1>8, <1>9 DEF PollStep

LEMMA QuoteStep ==
  ASSUME IInv, [Next]_vars
  PROVE  QuoteInv'
<1>1. QuoteInv /\ QuoteType
  BY TypesHold DEF IInv
<1>2. CASE UNCHANGED <<quote, marker, shown, doing, at, mem>>
  <2>1. \A q \in Quotes : QuoteFine(q)' /\ (Held(q) => Held(q)')
    BY <1>2, QuoteSame, HeldStays
  <2>2. ASSUME NEW c \in Users
        PROVE  DoingOK(c)'
    <3>1. DoingOK(c) /\ doing[c] \subseteq Quotes
      BY <1>1 DEF QuoteInv, QuoteType, Users
    <3> QED
      BY <1>2, <2>1, <3>1 DEF DoingOK
  <2> QED
    BY <1>1, <1>2, <2>1, <2>2 DEF QuoteInv, QuoteFine, Users
<1>3. CASE \E q \in Quotes : Pay(q)
  <2>1. PICK q \in Quotes : Pay(q)
    BY <1>3
  <2>2. /\ q \in shown /\ quote[q] = "unpaid" /\ quote'[q] = "paid"
        /\ \A r \in Quotes \ {q} : quote'[r] = quote[r]
        /\ UNCHANGED <<marker, shown, doing, at, mem>>
    BY <1>1, <2>1 DEF Pay, storeVars, QuoteType
  <2>3. QuoteFine(q)'
    <3>1. quote'[q] # "issued" <=> mint'[QuoteProof[q]] = "unissued"
      BY QuoteSigned
    <3>2. marker[q] = "open"
      BY <1>1, <2>2 DEF QuoteInv, QuoteOK
    <3> QED
      BY <2>2, <3>1, <3>2 DEF QuoteFine, QuoteOK
  <2>4. \A r \in Quotes : QuoteFine(r)' /\ (Held(r) => Held(r)')
    BY <2>2, <2>3, QuoteSame, HeldStays
  <2>5. ASSUME NEW c \in Users
        PROVE  DoingOK(c)'
    <3>1. DoingOK(c) /\ doing[c] \subseteq Quotes
      BY <1>1 DEF QuoteInv, QuoteType, Users
    <3>2. \A r \in doing[c] : r = q => at[c] \notin {"marking", "mark"} \cup Minting
      BY <2>2, <3>1 DEF DoingOK
    <3> QED
      BY <2>2, <2>4, <3>1, <3>2 DEF DoingOK, Minting
  <2> QED
    BY <1>1, <2>2, <2>4, <2>5 DEF QuoteInv, QuoteFine, Users
<1>4. CASE Crash
  <2>1. /\ UNCHANGED <<quote, shown>> /\ doing' = [c \in Users |-> {}]
        /\ \A q \in Quotes : marker'[q] = marker[q]
             \/ \E c \in Users : q \in doing[c] /\ at[c] \in {"marking", "mark"}
    BY <1>1, <1>4 DEF Crash, QuoteType, Users
  <2>2. ASSUME NEW q \in Quotes
        PROVE  QuoteFine(q)'
    <3>1. CASE marker'[q] = marker[q]
      BY <2>1, <3>1, QuoteSame
    <3>2. CASE \E c \in Users : q \in doing[c] /\ at[c] \in {"marking", "mark"}
      <4>1. (quote[q] = "unpaid" /\ q \notin shown) \/ (quote[q] = "issued" /\ Held(q)')
        BY <1>1, <3>2, HeldStays DEF QuoteInv, DoingOK, Users
      <4>2. quote'[q] # "issued" <=> mint'[QuoteProof[q]] = "unissued"
        BY QuoteSigned
      <4>3. QuoteFine(q)
        BY <1>1 DEF QuoteInv, QuoteFine
      <4> QED
        BY <2>1, <4>1, <4>2, <4>3 DEF QuoteFine, QuoteOK
    <3> QED
      BY <2>1, <3>1, <3>2
  <2> QED
    BY <2>1, <2>2 DEF QuoteInv, QuoteFine, DoingOK, Users
<1> QED
  BY <1>2, <1>3, <1>4, Steps, StoreQuotes, CreateQuotes, PollQuotes
     DEF Elsewhere, ProviderSpends, MintResolves, Unthrottle, vars, quoteVars, storeVars

(***************************************************************************)
(* Theorems.                                                               *)
(***************************************************************************)
LEMMA Start == Init => IInv
<1> SUFFICES ASSUME Init PROVE IInv
  OBVIOUS
<1>1. PICK S \in SUBSET (Proofs \ Reserved) :
        /\ mint = [p \in Proofs |-> IF p \in S THEN "unspent" ELSE "unissued"]
        /\ file = [p \in Proofs |-> IF p \in S THEN 1 ELSE 0]
  BY DEF Init, StoreInit
<1>2. /\ lockq = <<>> /\ Len(lockq) = 0 /\ at = [c \in Callers |-> "idle"]
      /\ snap = [c \in Callers |-> Empty] /\ use = [c \in Callers |-> {}]
      /\ mem = [c \in Callers |-> {}] /\ out = {} /\ lost = {} /\ faults = 0
      /\ quote = [q \in Quotes |-> "none"] /\ marker = [q \in Quotes |-> "none"] /\ shown = {}
      /\ doing = [c \in Users |-> {}]
  BY DEF Init, StoreInit, Users
<1>3. ProofType /\ HandType /\ QuoteType /\ SetType
  <2>1. ProofType
    BY <1>1, <1>2 DEF ProofType
  <2>2. HandType
    BY <1>2, EmptyType DEF HandType
  <2>3. QuoteType /\ SetType
    BY <1>2 DEF Init, QuoteType, SetType, Users
  <2> QED
    BY <2>1, <2>2, <2>3
<1>4. LockType /\ LockInv
  <2>1. "idle" \in QuoteAts /\ "idle" \notin Waits \cup Inside
    BY DEF QuoteAts, StoreAts, Waits, Inside
  <2> QED
    BY <1>2, <2>1 DEF LockType, LockInv
<1>5. SnapInv
  BY <1>2 DEF SnapInv, SnapOK
<1>6. HandInv
  BY <1>2 DEF HandInv, HandOK, InHand, Spending, Minting
<1>7. ProofInv
  BY <1>1, <1>2 DEF ProofInv, ProofOK, Accounted
<1>8. QuoteInv
  <2>1. \A q \in Quotes : QuoteProof[q] \in Proofs /\ QuoteProof[q] \notin S
    BY QuoteProofs, ProofsFinite
  <2>2. \A q \in Quotes : mint[QuoteProof[q]] = "unissued"
    BY <1>1, <2>1
  <2> QED
    BY <1>2, <2>2 DEF QuoteInv, QuoteOK, DoingOK, Users, Minting
<1> QED
  BY <1>3, <1>4, <1>5, <1>6, <1>7, <1>8, Types DEF IInv

LEMMA Inductive == Spec => []IInv
<1>1. IInv /\ [Next]_vars => IInv'
  BY TypeStep, LockStays, SnapStep, HandStep, ProofStep, QuoteStep DEF IInv
<1> QED
  BY <1>1, Start, PTL DEF Spec

\* Every proof is accounted for once: one the mint honours is in the file, in hand, with a
\* provider or lost by a fault, one with a provider is not in the file, and the file has
\* none twice (receive, send, rollback, markSpent and checkMintQuote under one lock).
THEOREM AllAccounted == Spec => []ProofsAccounted
<1>1. IInv => ProofsAccounted
  BY DEF IInv, ProofInv, ProofOK, Accounted, ProofsAccounted
<1> QED
  BY <1>1, Inductive, PTL

\* A paid top-up can be resumed until its proofs are stored (checkMintQuote).
THEOREM PaidResumes == Spec => []PaidIsResumable
<1>1. IInv => PaidIsResumable
  BY DEF IInv, QuoteInv, QuoteOK, Held, PaidIsResumable
<1> QED
  BY <1>1, Inductive, PTL

\* What Purse says of every write, in terms of the file: it drops no proof that the mint
\* has not seen spent (withMutationLock).
NothingDropped ==
  [][\A p \in Proofs : file[p] > 0 /\ file'[p] = 0 => mint[p] = "spent"]_storeVars

\* No write of the proof file drops a proof that is not spent (withMutationLock).
THEOREM NoneDropped == Spec => NothingDropped
<1>1. IInv /\ [Next]_vars
      => [\A p \in Proofs : file[p] > 0 /\ file'[p] = 0 => mint[p] = "spent"]_storeVars
  BY Dropped
<1> QED
  BY <1>1, Inductive, PTL DEF Spec, NothingDropped

(***************************************************************************)
(* Every step is one of Purse, or a stutter.                               *)
(***************************************************************************)
Mine(c) == IF at[c] \in Spending THEN {} ELSE mem[c]

LEMMA HandsAre == Hands = [c \in Callers |-> Mine(c)] /\ Hands' = [c \in Callers |-> Mine(c)']
BY DEF Hands, Mine, Spending

\* A caller's step changes what it has in hand, and nobody else's.
LEMMA HandsOne ==
  ASSUME IInv, NEW c \in Callers, CallerStep(c)
  PROVE  Hands' = [Hands EXCEPT ![c] = Mine(c)']
<1>1. \A d \in Callers \ {c} : Mine(d)' = Mine(d)
  BY Own DEF Apart, Mine
<1> QED
  BY <1>1, HandsAre

LEMMA HandsSame ==
  ASSUME IInv, NEW c \in Callers, CallerStep(c), Mine(c)' = Mine(c)
  PROVE  Hands' = Hands
BY HandsOne, HandsAre

LEMMA HandsDropped ==
  ASSUME IInv, NEW c \in Callers, CallerStep(c), Mine(c)' = {}
  PROVE  Wallet!Drops({c})
BY HandsOne, HandsAre DEF Wallet!Drops

LEMMA HandsGet ==
  ASSUME IInv, NEW c \in Callers, CallerStep(c), NEW p, Mine(c) = {}, Mine(c)' = {p}
  PROVE  Wallet!Gets(c, p)
BY HandsOne, HandsAre DEF Wallet!Gets

\* What the invariant says of a caller's hands at each place.
LEMMA HandsHold ==
  ASSUME IInv, NEW c \in Callers
  PROVE  /\ mem[c] \subseteq Proofs
         /\ at[c] \notin InHand \cup Minting => Mine(c) = {}
         /\ at[c] \in InHand \cup Minting => Mine(c) = mem[c]
         /\ at[c] \in InHand => mem[c] \cap (InFile \cup Reserved \cup out) = {}
         /\ at[c] \in Minting => mem[c] \subseteq Reserved /\ mem[c] \cap out = {}
<1>1. HandOK(c) /\ mem[c] \subseteq Proofs /\ ProofType /\ ProofInv
  BY TypesHold DEF IInv, HandInv, HandType
<1>2. \A p \in out : p \in Proofs /\ p \notin Reserved
  BY <1>1 DEF ProofInv, ProofOK, ProofType
<1>3. at[c] \in InHand => mem[c] \cap (InFile \cup Reserved \cup out) = {}
  BY <1>1 DEF HandOK, InFile
<1> QED
  BY <1>1, <1>2, <1>3 DEF HandOK, Mine, InHand, Spending, Minting

Idles(c) ==
  \/ AppendRead(c) \/ SendRead(c) \/ DropRead(c) \/ SendRefuse(c) \/ SendCheck(c)
  \/ SendCall(c) \/ Rollback(c) \/ PaidDone(c) \/ MarkSpent(c)
  \/ CreateCheck(c) \/ CreateFail(c) \/ PollStop(c) \/ PollAppendRead(c)
  \/ \E q \in Quotes :
       \/ CreateQuote(c, q) \/ CreateMark(c, q) \/ PollRead(c, q) \/ PollAsk(c, q)
       \/ PollMark(c, q) \/ PollDrop(c, q)

Breaks(c) ==
  \/ AppendFail(c) \/ SendCleanFail(c) \/ SendPersistFail(c) \/ PollAppendFail(c)
  \/ \E q \in Quotes : CreateMarkFail(c, q) \/ PollMarkFail(c, q)

\* Reading, queueing, asking and marking are nothing to the purse.
LEMMA IdleStutters ==
  ASSUME IInv, NEW c \in Callers, CallerStep(c), Idles(c)
  PROVE  UNCHANGED Wallet!vars
<1>1. HandType /\ LockType
  BY TypesHold
<1> USE DEF Goto, InHand, Spending, Minting
<1>2. CASE \/ SendRead(c) \/ SendRefuse(c) \/ SendCheck(c) \/ SendCall(c)
  <2>1. UNCHANGED <<mint, file, mem, out, faults>> /\ at[c] \in {"send", "check", "swap", "idle"}
        /\ at'[c] \in {"send", "check", "clean", "swap", "idle"}
    BY <1>1, <1>2 DEF SendRead, Read, SendRefuse, SendCheck, SendCall, Release, LockType
  <2>2. Mine(c)' = Mine(c)
    BY <2>1 DEF Mine
  <2> QED
    BY <2>1, <2>2, HandsSame DEF Wallet!vars, InFile
<1>3. CASE AppendRead(c) \/ Rollback(c) \/ PollAppendRead(c)
  <2>1. UNCHANGED <<mint, file, mem, out, faults>> /\ at[c] \notin Spending /\ at'[c] \notin Spending
    BY <1>1, <1>3 DEF AppendRead, Rollback, PollAppendRead, Read, LockType
  <2>2. Mine(c)' = Mine(c)
    BY <2>1 DEF Mine
  <2> QED
    BY <2>1, <2>2, HandsSame DEF Wallet!vars, InFile
<1>4. CASE DropRead(c) \/ MarkSpent(c) \/ PaidDone(c)
  <2>1. UNCHANGED <<mint, file, out, faults>> /\ at[c] \in Spending
        /\ (at'[c] \in Spending \/ mem'[c] = {})
    BY <1>1, <1>4 DEF DropRead, MarkSpent, PaidDone, Keep, Read, LockType, HandType
  <2>2. Mine(c)' = Mine(c)
    BY <2>1 DEF Mine
  <2> QED
    BY <2>1, <2>2, HandsSame DEF Wallet!vars, InFile
<1>5. CASE CreateCheck(c) \/ CreateFail(c) \/ PollStop(c)
           \/ \E q \in Quotes :
                \/ CreateQuote(c, q) \/ CreateMark(c, q) \/ PollRead(c, q) \/ PollAsk(c, q)
                \/ PollMark(c, q) \/ PollDrop(c, q)
  <2>1. UNCHANGED <<mint, file, mem, out, faults>> /\ at[c] \notin Spending /\ at'[c] \notin Spending
    BY <1>1, <1>5
       DEF CreateCheck, CreateFail, PollStop, CreateQuote, CreateMark, PollRead, PollAsk, PollMark,
           PollDrop, OnlyAt, Stop, Release, LockType
  <2>2. Mine(c)' = Mine(c)
    BY <2>1 DEF Mine
  <2> QED
    BY <2>1, <2>2, HandsSame DEF Wallet!vars, InFile
<1> QED
  BY <1>2, <1>3, <1>4, <1>5 DEF Idles

\* A failed write leaves the file as it was, and its caller with nothing.
LEMMA BreakLoses ==
  ASSUME IInv, NEW c \in Callers, CallerStep(c), Breaks(c)
  PROVE  Wallet!Next
<1>1. HandType /\ LockType
  BY TypesHold
<1> USE DEF Goto
<1>2. UNCHANGED <<mint, file, out>> /\ faults' = faults + 1
  BY <1>1
     DEF Breaks, AppendFail, SendCleanFail, SendPersistFail, PollAppendFail, CreateMarkFail,
         PollMarkFail, Fault
<1>3. mem'[c] = {}
  <2>1. CASE AppendFail(c) \/ SendPersistFail(c) \/ PollAppendFail(c)
    BY <1>1, <2>1 DEF AppendFail, SendPersistFail, PollAppendFail, Lose, Keep, HandType
  <2>2. CASE SendCleanFail(c) \/ \E q \in Quotes : CreateMarkFail(c, q) \/ PollMarkFail(c, q)
    <3>1. mem' = mem /\ at[c] \in {"clean", "marking", "mark"}
      BY <2>2 DEF SendCleanFail, CreateMarkFail, PollMarkFail
    <3> QED
      BY <3>1 DEF IInv, HandInv, HandOK, InHand, Spending, Minting
  <2> QED
    BY <2>1, <2>2 DEF Breaks
<1>4. Wallet!Drops({c})
  BY <1>3, HandsDropped DEF Mine
<1>5. Wallet!Lose({c})
  BY <1>2, <1>4 DEF Wallet!Lose, Wallet!Fault, InFile
<1> QED
  BY <1>5 DEF Wallet!Next

\* The mint signs, or signs again.
LEMMA SignsProof ==
  ASSUME IInv, NEW c \in Callers, CallerStep(c),
         ReceiveSwap(c) \/ ReceiveLost(c) \/ \E q \in Quotes : PollIssue(c, q) \/ PollReplay(c, q)
  PROVE  Wallet!Next
<1>1. HandType /\ LockType /\ ProofType /\ QuoteType
  BY TypesHold
<1> USE DEF Goto, InHand, Spending, Minting
<1>2. CASE ReceiveSwap(c)
  <2>1. PICK p \in Proofs \ Reserved :
          /\ mint[p] = "unissued" /\ mint' = [mint EXCEPT ![p] = "unspent"]
          /\ mem' = [mem EXCEPT ![c] = {p}]
    BY <1>2 DEF ReceiveSwap
  <2>2. at[c] = "idle" /\ at'[c] = "append" /\ mem'[c] = {p} /\ UNCHANGED <<file, out, faults>>
    BY <1>1, <1>2, <2>1 DEF ReceiveSwap, LockType, HandType
  <2>3. Wallet!Gets(c, p)
    BY <2>2, HandsGet, HandsHold DEF Mine
  <2>4. Wallet!Sign(c, p)
    BY <2>1, <2>2, <2>3 DEF Wallet!Sign, Wallet!Becomes, InFile
  <2> QED
    BY <2>1, <2>4 DEF Wallet!Next
<1>3. CASE ReceiveLost(c)
  <2>1. PICK p \in Proofs \ Reserved :
          mint[p] = "unissued" /\ mint' = [mint EXCEPT ![p] = "unspent"]
    BY <1>3 DEF ReceiveLost
  <2>2. UNCHANGED <<at, mem, file, out>> /\ faults' = faults + 1
    BY <1>3 DEF ReceiveLost, Fault
  <2>3. Hands' = Hands
    BY <2>2 DEF Hands
  <2>4. Wallet!Sign(c, p)
    BY <2>1, <2>2, <2>3 DEF Wallet!Sign, Wallet!Becomes, Wallet!Fault, InFile
  <2> QED
    BY <2>1, <2>4 DEF Wallet!Next
<1>4. ASSUME NEW q \in Quotes, PollIssue(c, q)
      PROVE  Wallet!Next
  <2>1. mint[QuoteProof[q]] = "unissued" /\ QuoteProof[q] \in Reserved /\ QuoteProof[q] \in Proofs
    BY <1>4, QuoteProofs, ProofsFinite DEF PollIssue, IInv, QuoteInv, QuoteOK
  <2>2. /\ at[c] = "issue" /\ mint' = [mint EXCEPT ![QuoteProof[q]] = "unspent"]
        /\ UNCHANGED <<file, out>>
    BY <1>4 DEF PollIssue
  <2>3. Mine(c) = {}
    BY <2>2, HandsHold
  <2>4. CASE mem' = [mem EXCEPT ![c] = {QuoteProof[q]}] /\ Goto(c, "qappend") /\ UNCHANGED faults
    <3>1. mem'[c] = {QuoteProof[q]} /\ at'[c] = "qappend"
      BY <1>1, <2>4 DEF LockType, HandType
    <3>2. Wallet!Gets(c, QuoteProof[q])
      BY <2>3, <3>1, HandsGet DEF Mine
    <3>3. Wallet!Sign(c, QuoteProof[q])
      BY <2>1, <2>2, <2>4, <3>2 DEF Wallet!Sign, Wallet!Becomes, InFile
    <3> QED
      BY <2>1, <3>3 DEF Wallet!Next
  <2>5. CASE Fault /\ Stop(c) /\ UNCHANGED mem
    <3>1. at'[c] = "idle" /\ mem'[c] = mem[c]
      BY <1>1, <2>5 DEF Stop, LockType
    <3>2. Hands' = Hands
      BY <2>2, <3>1, HandsSame DEF Mine
    <3>3. Wallet!Sign(c, QuoteProof[q])
      BY <2>1, <2>2, <2>5, <3>2 DEF Wallet!Sign, Wallet!Becomes, Wallet!Fault, Fault, InFile
    <3> QED
      BY <2>1, <3>3 DEF Wallet!Next
  <2> QED
    BY <1>4, <2>4, <2>5 DEF PollIssue
<1>5. ASSUME NEW q \in Quotes, PollReplay(c, q)
      PROVE  Wallet!Next
  <2>1. mint[QuoteProof[q]] # "unissued" /\ QuoteProof[q] \in Reserved /\ QuoteProof[q] \in Proofs
    BY <1>5, QuoteProofs, ProofsFinite DEF PollReplay, IInv, QuoteInv, QuoteOK
  <2>2. /\ at[c] = "issue" /\ at'[c] = "qappend" /\ mem'[c] = {QuoteProof[q]}
        /\ UNCHANGED <<mint, file, out, faults>>
    BY <1>1, <1>5 DEF PollReplay, LockType, HandType
  <2>3. Wallet!Gets(c, QuoteProof[q])
    BY <2>2, HandsGet, HandsHold DEF Mine
  <2>4. Wallet!Replay(c, QuoteProof[q])
    BY <2>1, <2>2, <2>3 DEF Wallet!Replay, InFile
  <2> QED
    BY <2>1, <2>4 DEF Wallet!Next
<1> QED
  BY <1>2, <1>3, <1>4, <1>5

\* What is in hand is stored: a lock around both makes what was read the file itself.
LEMMA WritePuts ==
  ASSUME IInv, NEW c \in Callers, CallerStep(c), AppendWrite(c) \/ PollAppendWrite(c)
  PROVE  Wallet!Next
<1>1. HandType /\ LockType /\ ProofType
  BY TypesHold
<1> USE DEF Goto, InHand, Spending, Minting
<1>2. /\ at[c] \in {"appending", "qappending"} /\ snap[c] = file /\ mem'[c] = {}
      /\ UNCHANGED <<mint, out, faults>>
  BY <1>1 DEF AppendWrite, PollAppendWrite, Keep, HandType, IInv, SnapInv, SnapOK
<1>3. file' = Plus(file, mem[c]) \/ file' = Plus(file, Fresh(c))
  BY <1>2 DEF AppendWrite, PollAppendWrite
<1>4. \A p \in Proofs : file'[p] > 0 <=> file[p] > 0 \/ p \in mem[c]
  BY <1>1, <1>2, <1>3 DEF Plus, Fresh, ProofType
<1>5. mem[c] \subseteq Proofs /\ Mine(c) = mem[c] /\ mem[c] \cap out = {}
      /\ mem[c] \cap InFile \subseteq Reserved
  BY <1>2, HandsHold
<1>6. InFile' = InFile \cup Hands[c]
  BY <1>4, <1>5, HandsAre DEF InFile
<1>7. Wallet!Drops({c})
  BY <1>2, HandsDropped DEF Mine
<1>8. Wallet!Put(c)
  BY <1>2, <1>5, <1>6, <1>7, HandsAre DEF Wallet!Put
<1> QED
  BY <1>8 DEF Wallet!Next

\* What a payment may spend is in the file, more than the floor.
LEMMA PaysFromFile ==
  ASSUME IInv, NEW c \in Callers, at[c] = "swap", Cardinality(use[c]) >= 1 + Floor, NEW p \in use[c]
  PROVE  p \in Proofs /\ Wallet!MayPay(p)
<1>1. snap[c] = file /\ \A r \in use[c] : snap[c][r] > 0
  BY DEF IInv, SnapInv, SnapOK
<1>2. use[c] \subseteq Proofs
  BY TypesHold DEF HandType
<1>3. use[c] \subseteq InFile /\ InFile \subseteq Proofs
  BY <1>1, <1>2 DEF InFile
<1>4. IsFiniteSet(InFile) /\ IsFiniteSet(use[c])
  BY <1>2, <1>3, ProofsFinite, FS_Subset
<1>5. /\ Cardinality(use[c]) \in Nat /\ Cardinality(InFile) \in Nat
      /\ Cardinality(use[c]) <= Cardinality(InFile)
  BY <1>3, <1>4, FS_Subset, FS_CardinalityType
<1>6. Cardinality(InFile) >= 1 + Floor
  BY <1>5, FloorNat
<1> QED
  BY <1>2, <1>3, <1>6 DEF Wallet!MayPay, Wallet!Cardinality, Cardinality

LEMMA SwapPays ==
  ASSUME IInv, NEW c \in Callers, CallerStep(c), SendSwap(c) \/ SendSwapLost(c)
  PROVE  Wallet!Next
<1>1. HandType /\ LockType
  BY TypesHold
<1> USE DEF Goto, InHand, Spending, Minting
<1>2. at[c] = "swap" /\ Mine(c) = {}
  BY HandsHold DEF SendSwap, SendSwapLost
<1>3. CASE SendSwap(c)
  <2>1. PICK p \in use[c], q \in Proofs \ Reserved :
          /\ mint[p] = "unspent" /\ mint[q] = "unissued"
          /\ mint' = [mint EXCEPT ![p] = "spent", ![q] = "unspent"]
          /\ mem' = [mem EXCEPT ![c] = {q}]
    BY <1>3 DEF SendSwap
  <2>2. at'[c] = "persist" /\ mem'[c] = {q} /\ UNCHANGED <<file, out, faults>>
    BY <1>1, <1>3, <2>1 DEF SendSwap, LockType, HandType
  <2>3. p \in Proofs /\ Wallet!MayPay(p)
    BY <1>2, <1>3, PaysFromFile DEF SendSwap
  <2>4. Wallet!Gets(c, q)
    BY <1>2, <2>2, HandsGet DEF Mine
  <2>5. Wallet!Pay(c, p, q)
    BY <2>1, <2>2, <2>3, <2>4 DEF Wallet!Pay, InFile
  <2> QED
    BY <2>1, <2>3, <2>5 DEF Wallet!Next
<1>4. CASE SendSwapLost(c)
  <2>1. PICK p \in use[c] : mint[p] = "unspent" /\ mint' = [mint EXCEPT ![p] = "pending"]
    BY <1>4 DEF SendSwapLost
  <2>2. at'[c] = "idle" /\ UNCHANGED <<mem, file, out>> /\ faults' = faults + 1
    BY <1>1, <1>4 DEF SendSwapLost, Release, Fault, LockType
  <2>3. p \in Proofs /\ Wallet!MayPay(p)
    BY <1>2, <1>4, PaysFromFile DEF SendSwapLost
  <2>4. Hands' = Hands
    BY <1>2, <2>2, HandsSame DEF Mine
  <2>5. Wallet!PayLost(p)
    BY <2>1, <2>2, <2>3, <2>4 DEF Wallet!PayLost, Wallet!Becomes, Wallet!Fault, InFile
  <2> QED
    BY <2>3, <2>5 DEF Wallet!Next
<1> QED
  BY <1>3, <1>4

\* Only spent proofs leave the file, and none comes in.
LEMMA CleanRemoves ==
  ASSUME IInv, NEW c \in Callers, CallerStep(c), SendClean(c) \/ SendPersist(c)
  PROVE  Wallet!Next
<1>1. HandType /\ LockType /\ ProofType
  BY TypesHold
<1> USE DEF Goto, Spending
<1>2. /\ at[c] \in {"clean", "persist"} /\ at'[c] \in {"swap", "token"} /\ file' = snap[c]
      /\ UNCHANGED <<mint, mem, out, faults>>
  BY <1>1 DEF SendClean, SendPersist, Release, LockType
<1>3. \A p \in Proofs : file'[p] = file[p] \/ (file'[p] = 0 /\ mint[p] = "spent")
  BY <1>2, ReadFile DEF Inside
<1>4. Hands' = Hands
  BY <1>2, HandsSame DEF Mine
<1>5. InFile' \subseteq InFile /\ \A p \in InFile \ InFile' : mint[p] = "spent"
  BY <1>1, <1>3 DEF InFile, ProofType
<1>6. Wallet!Remove(InFile \ InFile')
  BY <1>2, <1>4, <1>5 DEF Wallet!Remove
<1> QED
  BY <1>6 DEF Wallet!Next

\* Dropping a payment that was posted changes nothing: the file never had it.
LEMMA DropStutters ==
  ASSUME IInv, NEW c \in Callers, CallerStep(c), DropWrite(c)
  PROVE  UNCHANGED Wallet!vars \/ Wallet!Next
<1>1. HandType /\ LockType /\ ProofType
  BY TypesHold
<1> USE DEF Goto, Spending
<1>2. /\ at[c] = "dropping" /\ at'[c] = "idle" /\ mem'[c] = {} /\ snap[c] = file
      /\ UNCHANGED <<mint, out>>
  BY <1>1 DEF DropWrite, Keep, Release, LockType, HandType, IInv, SnapInv, SnapOK
<1>3. \A p \in mem[c] : p \in Proofs => file[p] = 0
  BY <1>2 DEF IInv, HandInv, HandOK, ProofInv, ProofOK
<1>4. InFile' = InFile
  <2>1. CASE file' = Only(file, Proofs \ mem[c])
    BY <1>1, <1>3, <2>1 DEF Only, InFile, ProofType
  <2>2. CASE file' = file
    BY <2>2 DEF InFile
  <2> QED
    BY <1>2, <2>1, <2>2 DEF DropWrite
<1>5. CASE UNCHANGED faults
  <2>1. Hands' = Hands
    BY <1>2, HandsSame DEF Mine
  <2> QED
    BY <1>2, <1>4, <1>5, <2>1 DEF Wallet!vars
<1>6. CASE Fault
  <2>1. Wallet!Drops({c})
    BY <1>2, HandsDropped DEF Mine
  <2>2. Wallet!Lose({c})
    BY <1>2, <1>4, <1>6, <2>1 DEF Wallet!Lose, Wallet!Fault, Fault
  <2> QED
    BY <2>2 DEF Wallet!Next
<1> QED
  BY <1>5, <1>6 DEF DropWrite

LEMMA DispatchGives ==
  ASSUME IInv, NEW c \in Callers, CallerStep(c), Dispatch(c)
  PROVE  Wallet!Next
<1>1. HandType /\ LockType
  BY TypesHold
<1>2. /\ at[c] = "token" /\ at'[c] = "paid" /\ out' = out \cup mem[c]
      /\ UNCHANGED <<mint, file, faults>>
  BY <1>1 DEF Dispatch, Goto, LockType
<1>3. Hands[c] = mem[c] /\ mem[c] \cap (InFile \cup Reserved) = {}
  BY <1>2, HandsHold, HandsAre DEF InHand
<1>4. Wallet!Drops({c})
  BY <1>2, HandsDropped DEF Mine, Spending
<1>5. Wallet!Give(c)
  BY <1>2, <1>3, <1>4 DEF Wallet!Give, InFile
<1> QED
  BY <1>5 DEF Wallet!Next

LEMMA CallerRefines ==
  ASSUME IInv, NEW c \in Callers, CallerStep(c)
  PROVE  UNCHANGED Wallet!vars \/ Wallet!Next
<1>1. \/ Idles(c) \/ Breaks(c) \/ AppendWrite(c) \/ PollAppendWrite(c)
      \/ ReceiveSwap(c) \/ ReceiveLost(c) \/ (\E q \in Quotes : PollIssue(c, q) \/ PollReplay(c, q))
      \/ SendSwap(c) \/ SendSwapLost(c) \/ SendClean(c) \/ SendPersist(c) \/ DropWrite(c)
      \/ Dispatch(c)
  BY DEF CallerStep, LockStep, FreeStep, CreateStep, PollStep, Idles, Breaks
<1> QED
  BY <1>1, IdleStutters, BreakLoses, SignsProof, WritePuts, SwapPays, CleanRemoves, DropStutters,
     DispatchGives

\* The provider redeems, the mint makes up its mind, the owner pays.
LEMMA OthersRefine ==
  ASSUME IInv, Elsewhere
  PROVE  UNCHANGED Wallet!vars \/ Wallet!Next
<1>1. ASSUME NEW p \in Proofs, ProviderSpends(p)
      PROVE  Wallet!Next
  <2>1. Wallet!Spend(p)
    BY <1>1 DEF ProviderSpends, Wallet!Spend, Wallet!Becomes, InFile, Hands
  <2> QED
    BY <2>1 DEF Wallet!Next
<1>2. ASSUME NEW p \in Proofs, MintResolves(p)
      PROVE  Wallet!Next
  <2>1. Wallet!Resolve(p)
    BY <1>2 DEF MintResolves, Wallet!Resolve, Wallet!Becomes, InFile, Hands
  <2> QED
    BY <2>1 DEF Wallet!Next
<1>3. CASE UNCHANGED storeVars
  BY <1>3 DEF storeVars, Wallet!vars, InFile, Hands
<1> QED
  BY <1>1, <1>2, <1>3 DEF Elsewhere, Unthrottle, Pay, vars

LEMMA CrashLoses ==
  ASSUME Crash
  PROVE  Wallet!Next
<1>1. UNCHANGED <<mint, file, out>> /\ faults' = faults + 1 /\ mem' = [c \in Callers |-> {}]
  BY DEF Crash, StoreCrash, Fault
<1>2. Hands' = [c \in Callers |-> {}]
  BY <1>1 DEF Hands
<1>3. Wallet!Drops(Callers)
  BY <1>2 DEF Wallet!Drops
<1>4. Wallet!Lose(Callers)
  BY <1>1, <1>3 DEF Wallet!Lose, Wallet!Fault, InFile
<1> QED
  BY <1>4 DEF Wallet!Next

LEMMA InitRefines == Init => Wallet!Init
<1> SUFFICES ASSUME Init PROVE Wallet!Init
  OBVIOUS
<1>1. PICK S \in SUBSET (Proofs \ Reserved) :
        /\ mint = [p \in Proofs |-> IF p \in S THEN "unspent" ELSE "unissued"]
        /\ file = [p \in Proofs |-> IF p \in S THEN 1 ELSE 0]
  BY DEF Init, StoreInit
<1>2. InFile = S
  BY <1>1 DEF InFile
<1>3. Hands = [c \in Callers |-> {}] /\ out = {} /\ faults = 0
  BY DEF Init, StoreInit, Hands
<1> QED
  BY <1>1, <1>2, <1>3 DEF Wallet!Init

\* Every behaviour of the wallet is one of Purse, in which operations read and write the
\* file at once: no write undoes another's, drops what is not spent or brings back what is,
\* and a payment leaves the floor (withMutationLock, sendLocked, sweepSpent).
THEOREM AsIfAtOnce == Spec => ImplementsPurse
<1>1. IInv /\ [Next]_vars => [Wallet!Next]_(Wallet!vars)
  BY Steps, CallerRefines, OthersRefine, CrashLoses DEF CallerStep
<1> QED
  BY <1>1, InitRefines, Inductive, PTL DEF Spec, ImplementsPurse, Wallet!Spec
=============================================================================
