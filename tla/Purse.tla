------------------------------- MODULE Purse -------------------------------
(***************************************************************************)
(* What agent/core/wallet.mjs promises about ecash, without its lock, its  *)
(* queue, what an operation has read, and the markers: every operation is  *)
(* as if it read and wrote the proof file at once.  A proof comes into the *)
(* file from the hands of the caller that has it, and leaves it only when  *)
(* the mint has seen it spent; one in hand is stored, given away or lost,  *)
(* and only a fault loses it.                                              *)
(***************************************************************************)
EXTENDS Naturals, FiniteSets

CONSTANTS Proofs, Reserved, Callers, Floor

VARIABLES
  mint,    \* what the mint knows of each proof
  stored,  \* the proofs in the file
  hand,    \* what each caller has in hand
  given,   \* what providers were given
  faults   \* crashes, failed writes and lost replies so far

vars == <<mint, stored, hand, given, faults>>

Init ==
  /\ stored \in SUBSET (Proofs \ Reserved)
  /\ mint = [p \in Proofs |-> IF p \in stored THEN "unspent" ELSE "unissued"]
  /\ hand = [c \in Callers |-> {}] /\ given = {} /\ faults = 0

Fault == faults' = faults + 1
Becomes(p, from, to) == mint[p] = from /\ mint' = [mint EXCEPT ![p] = to]
Gets(c, p) == hand[c] = {} /\ hand' = [hand EXCEPT ![c] = {p}]
Drops(C) == hand' = [c \in Callers |-> IF c \in C THEN {} ELSE hand[c]]

\* The mint signs a proof; its reply may be lost.
Sign(c, p) ==
  /\ Becomes(p, "unissued", "unspent")
  /\ \/ Gets(c, p) /\ UNCHANGED faults
     \/ Fault /\ UNCHANGED hand
  /\ UNCHANGED <<stored, given>>

\* It signs the proof of a paid top-up again, whatever became of it since.
Replay(c, p) ==
  /\ p \in Reserved /\ mint[p] # "unissued" /\ Gets(c, p)
  /\ UNCHANGED <<mint, stored, given, faults>>

\* What is in hand is added to the file: nothing is stored twice but a replay.
Put(c) ==
  /\ hand[c] \cap given = {} /\ hand[c] \cap stored \subseteq Reserved
  /\ stored' = stored \cup hand[c] /\ Drops({c})
  /\ UNCHANGED <<mint, given, faults>>

\* A stored proof is swapped for a payment, and the floor stays; ...
MayPay(p) == p \in stored /\ Cardinality(stored) >= 1 + Floor

Pay(c, p, q) ==
  /\ MayPay(p) /\ mint[p] = "unspent" /\ q \notin Reserved /\ mint[q] = "unissued"
  /\ mint' = [mint EXCEPT ![p] = "spent", ![q] = "unspent"]
  /\ Gets(c, q) /\ UNCHANGED <<stored, given, faults>>

\* ... if the reply is lost, the mint decides later.
PayLost(p) ==
  /\ MayPay(p) /\ Becomes(p, "unspent", "pending") /\ Fault
  /\ UNCHANGED <<stored, hand, given>>

Resolve(p) ==
  /\ Becomes(p, "pending", "spent") \/ Becomes(p, "pending", "unspent")
  /\ UNCHANGED <<stored, hand, given, faults>>

\* Proofs leave the file once they are spent.
Remove(S) ==
  /\ S \subseteq stored /\ (\A p \in S : mint[p] = "spent")
  /\ stored' = stored \ S
  /\ UNCHANGED <<mint, hand, given, faults>>

\* A payment goes out: it is not in the file, and never gets there.
Give(c) ==
  /\ hand[c] \cap (stored \cup Reserved) = {}
  /\ given' = given \cup hand[c] /\ Drops({c})
  /\ UNCHANGED <<mint, stored, faults>>

\* The provider redeems what it was given.
Spend(p) ==
  /\ p \in given /\ Becomes(p, "unspent", "spent")
  /\ UNCHANGED <<stored, hand, given, faults>>

Lose(C) == Fault /\ Drops(C) /\ UNCHANGED <<mint, stored, given>>

Next ==
  \/ \E c \in Callers : Put(c) \/ Give(c)
  \/ \E c \in Callers, p \in Proofs : Sign(c, p) \/ Replay(c, p)
  \/ \E c \in Callers, p, q \in Proofs : Pay(c, p, q)
  \/ \E p \in Proofs : PayLost(p) \/ Resolve(p) \/ Spend(p)
  \/ \E S \in SUBSET stored : Remove(S)
  \/ \E C \in SUBSET Callers : Lose(C)

Spec == Init /\ [][Next]_vars
=============================================================================
