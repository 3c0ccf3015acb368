----------------------------- MODULE ProofStore -----------------------------
(***************************************************************************)
(* agent/core/wallet.mjs: the ecash proofs of the daemon in one mint's     *)
(* proof file, and the operations that read it, await the mint, and write  *)
(* it: receive(), send() with its rollback() and markSpent().  All of them *)
(* take the wallet's one mutation lock around their reads and writes.      *)
(*                                                                         *)
(* A proof is worth one satoshi, a payment is one proof, and the amount    *)
(* arithmetic is left out except the floor.  Only one mint is modelled; a  *)
(* second would add a second file under the same lock.                     *)
(***************************************************************************)
EXTENDS Naturals, Sequences, FiniteSets

CONSTANTS
  Proofs,     \* bound: every proof a mint ever signs for this wallet
  Reserved,   \* those it signs for paid top-ups, not in swaps
  Callers,    \* all concurrent callers of the wallet
  Senders,    \* those that pay (chat turns)
  Receivers,  \* those that import tokens (top-ups, refunds)
  Floor,      \* cashu.hard_floor_sats
  MaxFaults   \* bound: crashes, failed writes, lost replies

ASSUME CallersSplit == Senders \subseteq Callers /\ Receivers \subseteq Callers
ASSUME ProofsFinite == IsFiniteSet(Proofs) /\ Reserved \subseteq Proofs
ASSUME FloorNat == Floor \in Nat /\ MaxFaults \in Nat

VARIABLES
  mint,    \* what the mint knows of each proof
  file,    \* copies of each proof in the proof file
  lockq,   \* callers of withMutationLock, in order; the first one holds it
  at,      \* where each caller is
  snap,    \* what a caller has read of the file, and will write back
  use,     \* the proofs a send() may spend
  mem,     \* proofs a caller holds in memory only
  out,     \* payment proofs handed to a provider
  lost,    \* proofs a fault has dropped from memory
  faults

storeVars == <<mint, file, lockq, at, snap, use, mem, out, lost, faults>>

Empty == [p \in Proofs |-> 0]
StoreAts == {"idle", "append", "appending", "send", "check", "clean", "swap",
             "persist", "token", "paid", "drop", "dropping"}

StoreType(Ats) ==
  /\ mint \in [Proofs -> {"unissued", "unspent", "pending", "spent"}]
  /\ file \in [Proofs -> Nat] /\ lockq \in Seq(Callers)
  /\ at \in [Callers -> Ats] /\ snap \in [Callers -> [Proofs -> Nat]]
  /\ use \in [Callers -> SUBSET Proofs] /\ mem \in [Callers -> SUBSET Proofs]
  /\ out \subseteq Proofs /\ lost \subseteq Proofs /\ faults \in Nat

StoreInit ==
  /\ \E S \in SUBSET (Proofs \ Reserved) :
       /\ mint = [p \in Proofs |-> IF p \in S THEN "unspent" ELSE "unissued"]
       /\ file = [p \in Proofs |-> IF p \in S THEN 1 ELSE 0]
  /\ lockq = <<>> /\ at = [c \in Callers |-> "idle"]
  /\ snap = [c \in Callers |-> Empty] /\ use = [c \in Callers |-> {}]
  /\ mem = [c \in Callers |-> {}] /\ out = {} /\ lost = {} /\ faults = 0

Fault == faults < MaxFaults /\ faults' = faults + 1
Goto(c, l) == at' = [at EXCEPT ![c] = l]

\* Mutant: the lock is no lock.
MutHolds(c) == \E i \in 1..Len(lockq) : lockq[i] = c

\* withMutationLock: each call waits for the promise of the call before it.
Holds(c) == lockq # <<>> /\ lockq[1] = c
Queue(c) == lockq' = Append(lockq, c)

\* The lock is released and what the caller knew is gone.
Release(c, l) ==
  /\ lockq' = Tail(lockq) /\ Goto(c, l)
  /\ snap' = [snap EXCEPT ![c] = Empty] /\ use' = [use EXCEPT ![c] = {}]

Keep(c) == mem' = [mem EXCEPT ![c] = {}]
Lose(c) == Keep(c) /\ lost' = lost \cup mem[c]

\* readProofs at the start of a critical section.
Read(c, l) ==
  /\ Holds(c) /\ snap' = [snap EXCEPT ![c] = file] /\ Goto(c, l)
  /\ UNCHANGED <<mint, file, lockq, use, mem, out, lost, faults>>

Plus(f, S) == [p \in Proofs |-> f[p] + (IF p \in S THEN 1 ELSE 0)]
Only(f, S) == [p \in Proofs |-> IF p \in S THEN f[p] ELSE 0]

(***************************************************************************)
(* receive()                                                               *)
(***************************************************************************)
\* The mint swaps the token for fresh proofs; the call queues for the lock.
ReceiveSwap(c) ==
  /\ c \in Receivers /\ at[c] = "idle"
  /\ \E p \in Proofs \ Reserved :
       /\ mint[p] = "unissued" /\ mint' = [mint EXCEPT ![p] = "unspent"]
       /\ mem' = [mem EXCEPT ![c] = {p}]
  /\ Queue(c) /\ Goto(c, "append")
  /\ UNCHANGED <<file, snap, use, out, lost, faults>>

\* The reply of the mint is lost: receive() returns "mint refused token".
ReceiveLost(c) ==
  /\ c \in Receivers /\ at[c] = "idle" /\ Fault
  /\ \E p \in Proofs \ Reserved :
       /\ mint[p] = "unissued" /\ mint' = [mint EXCEPT ![p] = "unspent"]
       /\ lost' = lost \cup {p}
  /\ UNCHANGED <<file, lockq, at, snap, use, mem, out>>

AppendRead(c) == at[c] = "append" /\ Read(c, "appending")

\* writeProofs(existing + the proofs in hand): receive() and rollback().
AppendWrite(c) ==
  /\ at[c] = "appending" /\ Holds(c)
  /\ file' = Plus(snap[c], mem[c]) /\ Keep(c) /\ Release(c, "idle")
  /\ UNCHANGED <<mint, out, lost, faults>>

\* The temporary file or the rename failed: the proof file is as it was.
AppendFail(c) ==
  /\ at[c] = "appending" /\ Holds(c) /\ Fault
  /\ Lose(c) /\ Release(c, "idle")
  /\ UNCHANGED <<mint, file, out>>

(***************************************************************************)
(* send()                                                                  *)
(***************************************************************************)
SendCall(c) ==
  /\ c \in Senders /\ at[c] = "idle" /\ Queue(c) /\ Goto(c, "send")
  /\ UNCHANGED <<mint, file, snap, use, mem, out, lost, faults>>

SendRead(c) == at[c] = "send" /\ Read(c, "check")

\* No proofs, mint unreachable, below sats + floor, swap refused: ok: false.
SendRefuse(c) ==
  /\ at[c] \in {"check", "swap"} /\ Holds(c) /\ Release(c, "idle")
  /\ UNCHANGED <<mint, file, mem, out, lost, faults>>

Stored(c) == {p \in Proofs : snap[c][p] > 0}
In(c, state) == {p \in Stored(c) : mint[p] = state}

\* sweepSpent: NUT-07 states; spent proofs are dropped, pending ones set aside.
\* A failed check is a no-op: everything stored counts as spendable.
SendCheck(c) ==
  /\ at[c] = "check" /\ Holds(c) /\ Stored(c) # {}
  /\ \/ /\ use' = [use EXCEPT ![c] = In(c, "unspent")]
        /\ snap' = [snap EXCEPT ![c] = Only(snap[c], Stored(c) \ In(c, "spent"))]
        /\ Goto(c, IF In(c, "spent") # {} THEN "clean" ELSE "swap")
     \/ /\ use' = [use EXCEPT ![c] = Stored(c)]
        /\ Goto(c, "swap") /\ UNCHANGED snap
  /\ UNCHANGED <<mint, file, lockq, mem, out, lost, faults>>

SendClean(c) ==
  /\ at[c] = "clean" /\ Holds(c)
  /\ file' = snap[c] /\ Goto(c, "swap")
  /\ UNCHANGED <<mint, lockq, snap, use, mem, out, lost, faults>>

SendCleanFail(c) ==
  /\ at[c] = "clean" /\ Holds(c) /\ Fault /\ Release(c, "idle")
  /\ UNCHANGED <<mint, file, mem, out, lost>>

\* Mutant: the change and the payment are stored together.
MutSendSwap(c) ==
  /\ at[c] = "swap" /\ Holds(c) /\ Cardinality(use[c]) >= 1 + Floor
  /\ \E p \in use[c], q \in Proofs \ Reserved :
       /\ mint[p] = "unspent" /\ mint[q] = "unissued"
       /\ mint' = [mint EXCEPT ![p] = "spent", ![q] = "unspent"]
       /\ snap' = [snap EXCEPT ![c] = Plus(Only(snap[c], Proofs \ {p}), {q})]
       /\ mem' = [mem EXCEPT ![c] = {q}]
  /\ Goto(c, "persist")
  /\ UNCHANGED <<file, lockq, use, out, lost, faults>>

\* The mint swaps: an input is spent, a fresh payment proof is in memory.
SendSwap(c) ==
  /\ at[c] = "swap" /\ Holds(c) /\ Cardinality(use[c]) >= 1 + Floor
  /\ \E p \in use[c], q \in Proofs \ Reserved :
       /\ mint[p] = "unspent" /\ mint[q] = "unissued"
       /\ mint' = [mint EXCEPT ![p] = "spent", ![q] = "unspent"]
       /\ snap' = [snap EXCEPT ![c] = Only(snap[c], Proofs \ {p})]
       /\ mem' = [mem EXCEPT ![c] = {q}]
  /\ Goto(c, "persist")
  /\ UNCHANGED <<file, lockq, use, out, lost, faults>>

\* The reply to the swap is lost: the input is pending at the mint.
SendSwapLost(c) ==
  /\ at[c] = "swap" /\ Holds(c) /\ Cardinality(use[c]) >= 1 + Floor /\ Fault
  /\ \E p \in use[c] :
       mint[p] = "unspent" /\ mint' = [mint EXCEPT ![p] = "pending"]
  /\ Release(c, "idle")
  /\ UNCHANGED <<file, mem, out, lost>>

\* The change is the new file before the token is handed out.
SendPersist(c) ==
  /\ at[c] = "persist" /\ Holds(c)
  /\ file' = snap[c] /\ Release(c, "token")
  /\ UNCHANGED <<mint, mem, out, lost, faults>>

SendPersistFail(c) ==
  /\ at[c] = "persist" /\ Holds(c) /\ Fault
  /\ Lose(c) /\ Release(c, "idle")
  /\ UNCHANGED <<mint, file, out>>

\* The caller posts the token to a provider; from here it is never put back ...
Dispatch(c) ==
  /\ at[c] = "token"
  /\ out' = out \cup mem[c] /\ Goto(c, "paid")
  /\ UNCHANGED <<mint, file, lockq, snap, use, mem, lost, faults>>

\* ... or undoes the payment before anything was posted.
Rollback(c) ==
  /\ at[c] = "token" /\ Queue(c) /\ Goto(c, "append")
  /\ UNCHANGED <<mint, file, snap, use, mem, out, lost, faults>>

\* The provider's answer ends the payment, or is token_already_spent.
PaidDone(c) ==
  /\ at[c] = "paid" /\ Keep(c) /\ Goto(c, "idle")
  /\ UNCHANGED <<mint, file, lockq, snap, use, out, lost, faults>>

MarkSpent(c) ==
  /\ at[c] = "paid" /\ (\A p \in mem[c] : mint[p] = "spent")
  /\ Queue(c) /\ Goto(c, "drop")
  /\ UNCHANGED <<mint, file, snap, use, mem, out, lost, faults>>

DropRead(c) == at[c] = "drop" /\ Read(c, "dropping")

\* Written only if the filter removed something; a failed write throws.
DropWrite(c) ==
  /\ at[c] = "dropping" /\ Holds(c)
  /\ \/ file' = Only(snap[c], Proofs \ mem[c]) /\ UNCHANGED faults
     \/ Fault /\ UNCHANGED file
  /\ Keep(c) /\ Release(c, "idle")
  /\ UNCHANGED <<mint, out, lost>>

(***************************************************************************)
(* The mint and the provider                                               *)
(***************************************************************************)
ProviderSpends(p) ==
  /\ p \in out /\ mint[p] = "unspent" /\ mint' = [mint EXCEPT ![p] = "spent"]
  /\ UNCHANGED <<file, lockq, at, snap, use, mem, out, lost, faults>>

MintResolves(p) ==
  /\ mint[p] = "pending"
  /\ \E s \in {"spent", "unspent"} : mint' = [mint EXCEPT ![p] = s]
  /\ UNCHANGED <<file, lockq, at, snap, use, mem, out, lost, faults>>

\* The process dies and starts again: memory is gone, the file is not.
StoreCrash ==
  /\ Fault
  /\ lost' = lost \cup UNION {mem[c] : c \in Callers}
  /\ lockq' = <<>> /\ at' = [c \in Callers |-> "idle"]
  /\ snap' = [c \in Callers |-> Empty] /\ use' = [c \in Callers |-> {}]
  /\ mem' = [c \in Callers |-> {}]
  /\ UNCHANGED <<mint, file, out>>

LockStep(c) ==
  \/ AppendRead(c) \/ AppendWrite(c) \/ AppendFail(c)
  \/ SendRead(c) \/ SendRefuse(c) \/ SendCheck(c) \/ SendClean(c) \/ SendCleanFail(c)
  \/ SendSwap(c) \/ SendSwapLost(c) \/ SendPersist(c) \/ SendPersistFail(c)
  \/ DropRead(c) \/ DropWrite(c)

FreeStep(c) ==
  \/ ReceiveSwap(c) \/ ReceiveLost(c) \/ SendCall(c)
  \/ Dispatch(c) \/ Rollback(c) \/ PaidDone(c) \/ MarkSpent(c)

StoreNext ==
  \/ \E c \in Callers : LockStep(c) \/ FreeStep(c)
  \/ \E p \in Proofs : ProviderSpends(p) \/ MintResolves(p)

(***************************************************************************)
(* What must hold                                                          *)
(***************************************************************************)
\* Every proof is accounted for once.  One the mint honours is in the file, in the
\* hands of an operation, in a token handed to a provider, or a fault took it; one
\* handed to a provider is never in the spendable file (send() stores the change
\* only, rollback() is for tokens never dispatched); and the file never holds one
\* twice: balance() counts real satoshis.
ProofsAccounted ==
  \A p \in Proofs :
    /\ mint[p] = "unspent" =>
         file[p] > 0 \/ p \in out \/ p \in lost \/ \E c \in Callers : p \in mem[c]
    /\ p \in out => file[p] = 0
    /\ file[p] <= 1
=============================================================================
