--------------------------- MODULE MemoryConsent ---------------------------
(***************************************************************************)
(* agent/lib/consent.mjs, memstore.mjs, portability.mjs and mutex.mjs: how *)
(* a sealed memory becomes durable.  The owner approves or rejects a       *)
(* proposal, approves or discards an imported item in quarantine, stores   *)
(* or deletes an item; memstore keeps one ciphertext file per item and one *)
(* index of records that pin each file's digest.                           *)
(*                                                                         *)
(* One owner, bot and project (one index) are modelled.  A memory text is  *)
(* a model value that stands for its ciphertext and digest.  A caller is   *)
(* an HTTP request in progress; an action is the code between two awaits.  *)
(***************************************************************************)
EXTENDS Naturals, Sequences, FiniteSets

CONSTANTS
  Callers,    \* bound: requests in progress at once
  Proposals,  \* texts that were proposed
  Imports,    \* texts of an imported bundle
  Stores,     \* texts the browser stores directly
  Ids,        \* item ids, one per class and d_tag
  IdOf,       \* [texts -> Ids]
  Nothing,    \* no file, no record
  MaxItems,   \* quotas.perScopeItems (500)
  Expiring,   \* ids of a class with a retention window that has passed
  MaxFaults   \* bound: failed writes and crashes

Texts == Proposals \cup Imports \cup Stores

ASSUME IdType == IdOf \in [Texts -> Ids] /\ Nothing \notin Texts \cup Ids /\ Ids \cap Texts = {}
ASSUME Distinct == Proposals \cap (Imports \cup Stores) = {} /\ Imports \cap Stores = {}
ASSUME Bounds == MaxItems \in Nat /\ MaxFaults \in Nat /\ IsFiniteSet(Ids)

VARIABLES
  prop,      \* the proposal files
  quar,      \* the quarantine files
  enc,       \* the ciphertext file of each item
  index,     \* index.json: the digest each record pins
  tomb,      \* ids with a tombstone
  rejected,  \* texts whose rejection was answered with ok: true
  at, on,    \* where each request is, and the text or id it is about
  snap,      \* the index a request has read
  queue,     \* keyed mutex: requests per proposal, the first one holds it
  booting,   \* before listen(): the retention sweep has still to write
  faults

files == <<prop, quar, enc, index, tomb>>
vars == <<files, rejected, at, on, snap, queue, booting, faults>>

NoIndex == [d \in Ids |-> Nothing]
Ats == {"idle", "approve", "put", "file", "index", "status", "unquarantine",
        "reject", "unlink", "delete", "deleting", "tombstone"}

TypeOK ==
  /\ prop \in [Proposals -> {"none", "pending", "approved", "gone"}]
  /\ quar \in [Imports -> {"none", "held", "gone"}]
  /\ enc \in [Ids -> Texts \cup {Nothing}] /\ index \in [Ids -> Texts \cup {Nothing}]
  /\ tomb \subseteq Ids /\ rejected \subseteq Texts
  /\ at \in [Callers -> Ats] /\ on \in [Callers -> Texts \cup Ids \cup {Nothing}]
  /\ snap \in [Callers -> [Ids -> Texts \cup {Nothing}]]
  /\ queue \in [Proposals -> Seq(Callers)]
  /\ booting \in BOOLEAN /\ faults \in Nat

Init ==
  /\ prop = [i \in Proposals |-> "none"] /\ quar = [m \in Imports |-> "none"]
  /\ enc = NoIndex /\ index = NoIndex /\ tomb = {} /\ rejected = {}
  /\ at = [c \in Callers |-> "idle"] /\ on = [c \in Callers |-> Nothing]
  /\ snap = [c \in Callers |-> NoIndex] /\ queue = [i \in Proposals |-> <<>>]
  /\ booting = FALSE /\ faults = 0

Fault == faults < MaxFaults /\ faults' = faults + 1
Goto(c, l) == at' = [at EXCEPT ![c] = l]

\* mutex.run: requests on one proposal run one at a time, in order of arrival.
Enter(c, i) == queue' = [queue EXCEPT ![i] = Append(@, c)]
Holds(c, i) == queue[i] # <<>> /\ queue[i][1] = c

\* Mutant: no mutex.
MutMayRun(c, i) == \E k \in 1..Len(queue[i]) : queue[i][k] = c
MayRun(c, i) == Holds(c, i)

\* The request is answered, or throws; either way its mutex passes to the next.
Return(c) ==
  /\ Goto(c, "idle") /\ on' = [on EXCEPT ![c] = Nothing]
  /\ snap' = [snap EXCEPT ![c] = NoIndex]
  /\ queue' = IF on[c] \in Proposals
                THEN [queue EXCEPT ![on[c]] = Tail(@)]
                ELSE queue

Serving == ~booting

(***************************************************************************)
(* Proposals and imports arrive                                            *)
(***************************************************************************)
Propose(i) ==
  /\ Serving /\ prop[i] = "none" /\ prop' = [prop EXCEPT ![i] = "pending"]
  /\ UNCHANGED <<quar, enc, index, tomb, rejected, at, on, snap, queue, booting, faults>>

\* A text that is already live is a duplicate.
Import(m) ==
  /\ Serving /\ quar[m] = "none" /\ (\A d \in Ids : index[d] # m)
  /\ quar' = [quar EXCEPT ![m] = "held"]
  /\ UNCHANGED <<prop, enc, index, tomb, rejected, at, on, snap, queue, booting, faults>>

(***************************************************************************)
(* memstore.put(), for approve, approveQuarantine and /api/memory/store    *)
(***************************************************************************)
\* The index is read.  A new id beyond the item quota is refused, and by the quotas of
\* bytes, whose sizes are not modelled, any text may be.
PutRead(c) ==
  /\ at[c] = "put"
  /\ LET d == IdOf[on[c]] IN
     \/ Return(c)
     \/ /\ index[d] # Nothing \/ Cardinality({e \in Ids : index[e] # Nothing}) < MaxItems
        /\ snap' = [snap EXCEPT ![c] = index] /\ Goto(c, "file")
        /\ UNCHANGED <<on, queue>>
  /\ UNCHANGED <<files, rejected, booting, faults>>

\* Temporary file, then rename over the ciphertext of the id.
PutFile(c) ==
  /\ at[c] = "file"
  /\ enc' = [enc EXCEPT ![IdOf[on[c]]] = on[c]] /\ Goto(c, "index")
  /\ UNCHANGED <<prop, quar, index, tomb, rejected, on, snap, queue, booting, faults>>

\* The index that was read, with the new record, replaces the index on disk.
PutIndex(c) ==
  /\ at[c] = "index"
  /\ index' = [snap[c] EXCEPT ![IdOf[on[c]]] = on[c]]
  /\ CASE on[c] \in Proposals -> Goto(c, "status") /\ UNCHANGED <<on, snap, queue>>
       [] on[c] \in Imports   -> Goto(c, "unquarantine") /\ UNCHANGED <<on, snap, queue>>
       [] OTHER               -> Return(c)
  /\ UNCHANGED <<prop, quar, enc, tomb, rejected, booting, faults>>

Store(c, s) ==
  /\ Serving /\ at[c] = "idle" /\ s \in Stores
  /\ on' = [on EXCEPT ![c] = s] /\ Goto(c, "put")
  /\ UNCHANGED <<files, rejected, snap, queue, booting, faults>>

(***************************************************************************)
(* consent.approve(), consent.reject()                                     *)
(***************************************************************************)
ApproveCall(c, i) ==
  /\ Serving /\ at[c] = "idle" /\ prop[i] # "none"
  /\ on' = [on EXCEPT ![c] = i] /\ Goto(c, "approve") /\ Enter(c, i)
  /\ UNCHANGED <<files, rejected, snap, booting, faults>>

\* Approved before: the same answer again; unlinked: not found.
Approve(c) ==
  /\ at[c] = "approve" /\ MayRun(c, on[c])
  /\ IF prop[on[c]] = "pending"
       THEN Goto(c, "put") /\ UNCHANGED <<on, snap, queue>>
       ELSE Return(c)
  /\ UNCHANGED <<files, rejected, booting, faults>>

\* The nonce is consumed and the pending ciphertext dropped in one rename.
ApproveStatus(c) ==
  /\ at[c] = "status"
  /\ prop' = [prop EXCEPT ![on[c]] = "approved"] /\ Return(c)
  /\ UNCHANGED <<quar, enc, index, tomb, rejected, booting, faults>>

RejectCall(c, i) ==
  /\ Serving /\ at[c] = "idle" /\ prop[i] # "none"
  /\ on' = [on EXCEPT ![c] = i] /\ Goto(c, "reject") /\ Enter(c, i)
  /\ UNCHANGED <<files, rejected, snap, booting, faults>>

Reject(c) ==
  /\ at[c] = "reject" /\ MayRun(c, on[c])
  /\ IF prop[on[c]] = "pending"
       THEN Goto(c, "unlink") /\ UNCHANGED <<on, snap, queue>>
       ELSE Return(c)
  /\ UNCHANGED <<files, rejected, booting, faults>>

RejectUnlink(c) ==
  /\ at[c] = "unlink"
  /\ prop' = [prop EXCEPT ![on[c]] = "gone"] /\ rejected' = rejected \cup {on[c]}
  /\ Return(c)
  /\ UNCHANGED <<quar, enc, index, tomb, booting, faults>>

(***************************************************************************)
(* portability.approveQuarantine(), rejectQuarantine(): no mutex           *)
(***************************************************************************)
ApproveQuarantine(c, m) ==
  /\ Serving /\ at[c] = "idle" /\ quar[m] = "held"
  /\ on' = [on EXCEPT ![c] = m] /\ Goto(c, "put")
  /\ UNCHANGED <<files, rejected, snap, queue, booting, faults>>

\* A failing unlink is swallowed.
Unquarantine(c) ==
  /\ at[c] = "unquarantine"
  /\ \/ quar' = [quar EXCEPT ![on[c]] = "gone"] /\ UNCHANGED faults
     \/ UNCHANGED quar /\ Fault
  /\ Return(c)
  /\ UNCHANGED <<prop, enc, index, tomb, rejected, booting>>

\* An item that is not there any more is rejected with ok: true as well.
RejectQuarantine(m) ==
  /\ Serving /\ quar[m] # "none"
  /\ quar' = [quar EXCEPT ![m] = "gone"] /\ rejected' = rejected \cup {m}
  /\ UNCHANGED <<prop, enc, index, tomb, at, on, snap, queue, booting, faults>>

(***************************************************************************)
(* memstore.remove(), sweepRetention()                                     *)
(***************************************************************************)
DeleteCall(c, d) ==
  /\ Serving /\ at[c] = "idle" /\ index[d] # Nothing
  /\ on' = [on EXCEPT ![c] = d] /\ snap' = [snap EXCEPT ![c] = index]
  /\ Goto(c, "delete")
  /\ UNCHANGED <<files, rejected, queue, booting, faults>>

DeleteFile(c) ==
  /\ at[c] = "delete"
  /\ enc' = [enc EXCEPT ![on[c]] = Nothing] /\ Goto(c, "deleting")
  /\ UNCHANGED <<prop, quar, index, tomb, rejected, on, snap, queue, booting, faults>>

DeleteIndex(c) ==
  /\ at[c] = "deleting"
  /\ index' = [snap[c] EXCEPT ![on[c]] = Nothing] /\ Goto(c, "tombstone")
  /\ UNCHANGED <<prop, quar, enc, tomb, rejected, on, snap, queue, booting, faults>>

DeleteTombstone(c) ==
  /\ at[c] = "tombstone" /\ tomb' = tomb \cup {on[c]} /\ Return(c)
  /\ UNCHANGED <<prop, quar, enc, index, rejected, booting, faults>>

Expired == {d \in Expiring : index[d] # Nothing}

\* At boot, before any request: expired files are unlinked, ...
SweepFiles ==
  /\ booting /\ (\E d \in Expired : enc[d] # Nothing)
  /\ enc' = [d \in Ids |-> IF d \in Expired THEN Nothing ELSE enc[d]]
  /\ UNCHANGED <<prop, quar, index, tomb, rejected, at, on, snap, queue, booting, faults>>

\* ... then the index loses their records, and the server listens.
SweepIndex ==
  /\ booting /\ (\A d \in Expired : enc[d] = Nothing)
  /\ index' = [d \in Ids |-> IF d \in Expired THEN Nothing ELSE index[d]]
  /\ booting' = FALSE
  /\ UNCHANGED <<prop, quar, enc, tomb, rejected, at, on, snap, queue, faults>>

(***************************************************************************)
(* Failures                                                                *)
(***************************************************************************)
Writing == {"file", "index", "status", "unlink", "delete", "deleting", "tombstone"}

\* Mutant: the mutex is not released by an exception.
MutWriteFails(c) ==
  /\ at[c] \in Writing /\ Fault
  /\ Goto(c, "idle") /\ on' = [on EXCEPT ![c] = Nothing]
  /\ UNCHANGED <<files, rejected, snap, queue, booting>>

\* A write or an unlink throws; what it was to replace is as before.
WriteFails(c) ==
  /\ at[c] \in Writing
  /\ Fault /\ Return(c)
  /\ UNCHANGED <<files, rejected, booting>>

Crash ==
  /\ Fault /\ booting' = TRUE
  /\ at' = [c \in Callers |-> "idle"] /\ on' = [c \in Callers |-> Nothing]
  /\ snap' = [c \in Callers |-> NoIndex] /\ queue' = [i \in Proposals |-> <<>>]
  /\ UNCHANGED <<files, rejected>>

Step(c) ==
  \/ PutRead(c) \/ PutFile(c) \/ PutIndex(c)
  \/ Approve(c) \/ ApproveStatus(c) \/ Reject(c) \/ RejectUnlink(c)
  \/ Unquarantine(c)
  \/ DeleteFile(c) \/ DeleteIndex(c) \/ DeleteTombstone(c)
  \/ WriteFails(c)

Request(c) ==
  \/ \E i \in Proposals : ApproveCall(c, i) \/ RejectCall(c, i)
  \/ \E m \in Imports : ApproveQuarantine(c, m)
  \/ \E s \in Stores : Store(c, s)
  \/ \E d \in Ids : DeleteCall(c, d)

Next ==
  \/ \E c \in Callers : Step(c) \/ Request(c)
  \/ \E i \in Proposals : Propose(i)
  \/ \E m \in Imports : Import(m) \/ RejectQuarantine(m)
  \/ SweepFiles \/ SweepIndex \/ Crash

Spec == Init /\ [][Next]_vars

(***************************************************************************)
(* What must hold                                                          *)
(***************************************************************************)
\* A verdict is final.  Once a rejection was answered no approval under way may still
\* store the text, and an approved proposal is not stored a second time, which would
\* put an old text over a newer one with the same id (the keyed mutex of consent.mjs
\* around the whole of approve and reject, and the nonce).
VerdictsHold ==
  /\ []TypeOK
  /\ [][\A i \in Proposals, d \in Ids :
          (i \in rejected \/ prop[i] = "approved") /\ enc'[d] = i => enc[d] = i]_vars

(***************************************************************************)
(* Liveness                                                                *)
(***************************************************************************)
\* Every await of a request settles, and the boot sweep runs.
Fairness == (\A c \in Callers : WF_vars(Step(c))) /\ WF_vars(SweepFiles \/ SweepIndex)
FairSpec == Spec /\ Fairness

\* Every verdict is answered: no failing write leaves the mutex of a proposal locked.
VerdictReturns ==
  \A c \in Callers : at[c] \in {"approve", "reject"} ~> at[c] = "idle"
=============================================================================
