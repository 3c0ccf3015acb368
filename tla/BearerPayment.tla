--------------------------- MODULE BearerPayment ---------------------------
(***************************************************************************)
(* agent/core/routstr-payment.mjs: one prepaid provider balance per chat   *)
(* turn.  begin() cuts an ecash token from the wallet, journals it as an   *)
(* encrypted claim (a secretstore entry), posts it to the provider and     *)
(* hands the turn a bearer key; finish() withdraws what is left and        *)
(* imports it; recover() does the same for the claims an earlier failure   *)
(* or an earlier process left behind.                                      *)
(*                                                                         *)
(* The daemon is one Node process: an action is the code between two       *)
(* awaits.  Volatile: active, settling (task), gate, the callers' program  *)
(* counters.  Durable: the claims, the dust archive.  External: the mint   *)
(* (token, rtok), the provider (acct, busy) and the network (net).         *)
(***************************************************************************)
EXTENDS Naturals, Sequences, FiniteSets

CONSTANTS
  Handles,     \* chat turns; a turn is named by the claim name it would draw
  Bases,       \* provider base URLs
  Base,        \* [Handles -> Bases]: the provider each turn asks to pay
  MaxPending,  \* MAX_PENDING: claim records before begin() refuses (8)
  MaxFaults    \* bound: crashes, failed writes and lost replies in a behaviour

ASSUME HandlesFinite == IsFiniteSet(Handles)
ASSUME BaseType == Base \in [Handles -> Bases]
ASSUME BoundsNat == MaxPending \in Nat \ {0} /\ MaxFaults \in Nat

VARIABLES
  up,        \* is the process running
  held,      \* bases the owner's config quarantines, fixed for a process life
  claims,    \* durable rrefund_* records
  archived,  \* durable rdust_* records
  token,     \* the payment token of each turn
  net,       \* the POST /v1/balance/create of each turn
  acct,      \* the provider balance opened with it
  busy,      \* accounts with an inference the provider is still serving
  rtok,      \* the refund token the provider issued (and replays)
  active,    \* handles between begin() and the end of finish()
  gate,      \* begin() callers, in order; the first one is inside
  todo,      \* claim names the caller inside begin() has still to read
  count,     \* how many its listing returned
  open,      \* whether one of those it has read is unresolved
  pc,        \* where each turn is
  task,      \* the settle() in flight for each claim, if any
  recOn,     \* a recovery pass is running
  recTodo,   \* claims it has still to visit
  recCur,    \* the claim whose settlement it awaits, if any
  faults     \* how many faults have happened

scan     == <<todo, count, open>>
rec      == <<recOn, recTodo, recCur>>
store    == <<claims, archived>>
remote   == <<token, net, acct, busy, rtok>>
volatile == <<active, gate, scan, pc, task, rec>>
vars     == <<up, held, store, remote, volatile, faults>>

InBegin  == {"scan", "send", "persist", "post", "rollback", "unwind", "settle"}
OnActive == {"persist", "post", "rollback", "unwind", "settle", "stream", "finish"}
Ended    == {"done", "dead"}
PCs      == {"new", "gate", "stream", "finish"} \cup InBegin \cup Ended
Tasks    == {"idle", "get", "refund", "info", "archive", "receive", "credit", "remove"}
ClearScan == todo' = {} /\ count' = 0 /\ open' = FALSE
ClearRec  == recOn' = FALSE /\ recTodo' = {} /\ recCur' = {}

DurableType ==
  /\ up \in BOOLEAN /\ held \subseteq Bases /\ faults \in Nat
  /\ claims \subseteq Handles /\ archived \subseteq Handles

RemoteType ==
  /\ token \in [Handles -> {"none", "cut", "deposited", "stored", "lost"}]
  /\ net \in [Handles -> {"unsent", "inflight", "gone"}]
  /\ acct \in [Handles -> {"none", "funded", "zero", "dust", "refunded"}]
  /\ busy \subseteq Handles
  /\ rtok \in [Handles -> {"none", "issued", "swapped", "stored"}]

VolatileType ==
  /\ active \subseteq Handles /\ gate \in Seq(Handles)
  /\ todo \subseteq Handles /\ count \in Nat /\ open \in BOOLEAN
  /\ pc \in [Handles -> PCs] /\ task \in [Handles -> Tasks]
  /\ recOn \in BOOLEAN /\ recTodo \subseteq Handles /\ recCur \subseteq Handles

TypeOK == DurableType /\ RemoteType /\ VolatileType

Init ==
  /\ up = TRUE /\ held \in SUBSET Bases
  /\ claims = {} /\ archived = {}
  /\ token = [h \in Handles |-> "none"] /\ net = [h \in Handles |-> "unsent"]
  /\ acct = [h \in Handles |-> "none"] /\ busy = {}
  /\ rtok = [h \in Handles |-> "none"]
  /\ active = {} /\ gate = <<>> /\ todo = {} /\ count = 0 /\ open = FALSE
  /\ pc = [h \in Handles |-> "new"] /\ task = [h \in Handles |-> "idle"]
  /\ recOn = FALSE /\ recTodo = {} /\ recCur = {} /\ faults = 0

Fault == faults < MaxFaults /\ faults' = faults + 1

Goto(t, l) == pc' = [pc EXCEPT ![t] = l]

(***************************************************************************)
(* begin(): the gate, the look at the journal, the wallet, the deposit     *)
(***************************************************************************)
\* The call queues behind the gate promise of the call before it.
Enter(t) ==
  /\ up /\ pc[t] = "new"
  /\ Goto(t, "gate") /\ gate' = Append(gate, t)
  /\ UNCHANGED <<up, held, store, remote, active, scan, task, rec, faults>>

\* Every return of begin() passes `finally { unlock(); }`.
Leave(t) == Goto(t, "done") /\ gate' = Tail(gate) /\ ClearScan

\* Mutants: the limit tested with > ; unresolved records not looked at.
MutLimit(t, left, n, pending) ==
  IF left = {} /\ (n > MaxPending \/ pending)
    THEN Leave(t)
    ELSE /\ Goto(t, IF left = {} THEN "send" ELSE "scan")
         /\ todo' = left /\ count' = n /\ open' = pending
         /\ UNCHANGED gate
MutUnresolved(t, left, n, pending) ==
  IF left = {} /\ n >= MaxPending
    THEN Leave(t)
    ELSE /\ Goto(t, IF left = {} THEN "send" ELSE "scan")
         /\ todo' = left /\ count' = n /\ open' = pending
         /\ UNCHANGED gate

\* The verdict follows the last record without an await.
Scanned(t, left, n, pending) ==
  IF left = {} /\ (n >= MaxPending \/ pending)
    THEN Leave(t)
    ELSE /\ Goto(t, IF left = {} THEN "send" ELSE "scan")
         /\ todo' = left /\ count' = n /\ open' = pending
         /\ UNCHANGED gate

\* store.list(); a quarantined base is refused before any record is read.
ListClaims(t) ==
  /\ up /\ pc[t] = "gate" /\ gate # <<>> /\ gate[1] = t
  /\ IF Base[t] \in held
       THEN Leave(t)
       ELSE Scanned(t, claims, Cardinality(claims), FALSE)
  /\ UNCHANGED <<up, held, store, remote, active, task, rec, faults>>

\* One record of the list.  An active one is skipped; one a settlement removed
\* since the list makes validate() throw; one on a quarantined base is ignored.
ScanClaim(t, n) ==
  /\ up /\ pc[t] = "scan" /\ n \in todo
  /\ IF n \notin active /\ n \notin claims
       THEN Leave(t)
       ELSE Scanned(t, todo \ {n}, count,
                    open \/ (n \notin active /\ Base[n] \notin held))
  /\ UNCHANGED <<up, held, store, remote, active, task, rec, faults>>

\* wallet.send() declined (funds, floor, mint unreachable): nothing was cut.
SendRefused(t) ==
  /\ up /\ pc[t] = "send" /\ Leave(t)
  /\ UNCHANGED <<up, held, store, remote, active, task, rec, faults>>

\* wallet.send() cut a token; the claim is named and made active at once.
SendOk(t) ==
  /\ up /\ pc[t] = "send"
  /\ token' = [token EXCEPT ![t] = "cut"]
  /\ active' = active \cup {t} /\ Goto(t, "persist")
  /\ UNCHANGED <<up, held, store, net, acct, busy, rtok, gate, scan, task, rec, faults>>

\* Mutant: the gate is not released when send() throws.
MutSendLost(t) ==
  /\ up /\ pc[t] = "send" /\ Fault
  /\ token' = [token EXCEPT ![t] = "lost"] /\ Goto(t, "done")
  /\ UNCHANGED <<up, held, store, net, acct, busy, rtok, active, gate, scan, task, rec>>

\* The mint made the swap and writing the change failed: send() throws, and the
\* token it had cut is nowhere.
SendLost(t) ==
  /\ up /\ pc[t] = "send" /\ Fault
  /\ token' = [token EXCEPT ![t] = "lost"] /\ Leave(t)
  /\ UNCHANGED <<up, held, store, net, acct, busy, rtok, active, task, rec>>

\* The record is on disk and flushed; only now is the deposit posted.
PersistOk(t) ==
  /\ up /\ pc[t] = "persist"
  /\ claims' = claims \cup {t} /\ net' = [net EXCEPT ![t] = "inflight"]
  /\ Goto(t, "post")
  /\ UNCHANGED <<up, held, archived, token, acct, busy, rtok, active, gate, scan,
                 task, rec, faults>>

\* Mutant: the error is swallowed and the deposit posted.
MutPersistFail(t) ==
  /\ up /\ pc[t] = "persist" /\ Fault
  /\ claims' \in {claims, claims \cup {t}} /\ Goto(t, "post")
  /\ net' = [net EXCEPT ![t] = "inflight"]
  /\ UNCHANGED <<up, held, archived, token, acct, busy, rtok, active, gate, scan, task, rec>>

\* persist() threw, before or after the rename put the record in place.
PersistFail(t) ==
  /\ up /\ pc[t] = "persist" /\ Fault
  /\ claims' \in {claims, claims \cup {t}} /\ Goto(t, "rollback")
  /\ UNCHANGED <<up, held, archived, remote, active, gate, scan, task, rec>>

\* Nothing was dispatched: the fresh proofs go back into the wallet file ...
Rollback(t) ==
  /\ up /\ pc[t] = "rollback"
  /\ token' = [token EXCEPT ![t] = "stored"] /\ Goto(t, "unwind")
  /\ UNCHANGED <<up, held, store, net, acct, busy, rtok, active, gate, scan, task,
                 rec, faults>>

\* ... or cannot, and an existing record is retained.
RollbackFail(t) ==
  /\ up /\ pc[t] = "rollback" /\ Fault
  /\ active' = active \ {t} /\ Leave(t)
  /\ UNCHANGED <<up, held, store, remote, task, rec>>

\* After the rollback the record, if any, is removed; a failure is swallowed.
Unwind(t) ==
  /\ up /\ pc[t] = "unwind"
  /\ \/ claims' = claims \ {t} /\ UNCHANGED faults
     \/ UNCHANGED claims /\ Fault
  /\ active' = active \ {t} /\ Leave(t)
  /\ UNCHANGED <<up, held, archived, remote, task, rec>>

\* The provider answered with the deterministic key: the turn may stream.
CreateReply(t) ==
  /\ up /\ pc[t] = "post" /\ acct[t] # "none"
  /\ Goto(t, "stream") /\ busy' = busy \cup {t}
  /\ gate' = Tail(gate) /\ ClearScan
  /\ UNCHANGED <<up, held, store, token, net, acct, rtok, active, task, rec, faults>>

\* settle(h): a settlement already in flight is joined, not repeated.
CallSettle(h) == task' = IF task[h] = "idle" THEN [task EXCEPT ![h] = "get"] ELSE task

\* Mutant: a failed deposit is rolled back.
MutCreateFail(t) ==
  /\ up /\ pc[t] = "post"
  /\ IF net[t] = "gone" /\ acct[t] = "none" THEN UNCHANGED faults ELSE Fault
  /\ Goto(t, "rollback")
  /\ UNCHANGED <<up, held, store, remote, active, gate, scan, task, rec>>

\* The provider rejected the deposit, or its answer was lost or late: the request
\* may still be in flight.  Whatever happened, the claim is settled, not rolled back.
CreateFail(t) ==
  /\ up /\ pc[t] = "post"
  /\ IF net[t] = "gone" /\ acct[t] = "none" THEN UNCHANGED faults ELSE Fault
  /\ Goto(t, "settle") /\ CallSettle(t)
  /\ UNCHANGED <<up, held, store, remote, active, gate, scan, rec>>

\* The stream ended, failed or ran out of its deadline: finish() always follows.
Finish(t) ==
  /\ up /\ pc[t] = "stream"
  /\ Goto(t, "finish") /\ CallSettle(t)
  /\ UNCHANGED <<up, held, store, remote, active, gate, scan, rec, faults>>

(***************************************************************************)
(* settle(): one task per claim, awaited by begin(), finish() or recover() *)
(***************************************************************************)
\* Mutant: a claim that stays pending stays active.
MutEndSettle(h) ==
  /\ task' = [task EXCEPT ![h] = "idle"]
  /\ IF pc[h] \in {"settle", "finish"} THEN Goto(h, "done") ELSE UNCHANGED pc
  /\ UNCHANGED active
  /\ IF pc[h] = "settle" THEN gate' = Tail(gate) /\ ClearScan
                         ELSE UNCHANGED <<gate, scan>>
  /\ recCur' = recCur \ {h} /\ UNCHANGED <<recOn, recTodo>>

\* The task ends: its callers resume, and drop h from active.
EndSettle(h) ==
  /\ task' = [task EXCEPT ![h] = "idle"]
  /\ IF pc[h] \in {"settle", "finish"}
       THEN Goto(h, "done") /\ active' = active \ {h}
       ELSE UNCHANGED <<pc, active>>
  /\ IF pc[h] = "settle" THEN gate' = Tail(gate) /\ ClearScan
                         ELSE UNCHANGED <<gate, scan>>
  /\ recCur' = recCur \ {h} /\ UNCHANGED <<recOn, recTodo>>

Advance(h, l) ==
  /\ task' = [task EXCEPT ![h] = l]
  /\ UNCHANGED <<active, gate, scan, pc, rec>>

\* Mutant: the quarantine is not consulted.
MutSettleGet(h) ==
  /\ up /\ task[h] = "get"
  /\ IF h \notin claims THEN EndSettle(h) ELSE Advance(h, "refund")
  /\ UNCHANGED <<up, held, store, remote, faults>>

\* store.get(): no record, nothing pending; a quarantined base is left alone.
SettleGet(h) ==
  /\ up /\ task[h] = "get"
  /\ IF h \notin claims \/ Base[h] \in held THEN EndSettle(h) ELSE Advance(h, "refund")
  /\ UNCHANGED <<up, held, store, remote, faults>>

\* POST /v1/balance/refund: a token (the same one again on a replay), no balance,
\* too little balance, or an error (unknown key, request still being served).
SettleRefund(h) ==
  /\ up /\ task[h] = "refund"
  /\ LET pays == acct[h] \in {"funded", "refunded"} /\ h \notin busy IN
     /\ acct' = IF pays THEN [acct EXCEPT ![h] = "refunded"] ELSE acct
     /\ rtok' = IF pays /\ rtok[h] = "none" THEN [rtok EXCEPT ![h] = "issued"] ELSE rtok
     /\ \/ Fault /\ EndSettle(h)   \* the reply was lost
        \/ UNCHANGED faults /\
           IF pays THEN Advance(h, "receive")
           ELSE IF acct[h] = "zero" /\ h \notin busy THEN Advance(h, "remove")
           ELSE IF acct[h] = "dust" /\ h \notin busy THEN Advance(h, "info")
           ELSE EndSettle(h)
  /\ UNCHANGED <<up, held, store, token, net, busy>>

\* GET /v1/balance/info confirms the exact dust, or anything else fails.
SettleInfo(h) ==
  /\ up /\ task[h] = "info"
  /\ \/ acct[h] = "dust" /\ h \notin busy /\ Advance(h, "archive") /\ UNCHANGED faults
     \/ Fault /\ EndSettle(h)
  /\ UNCHANGED <<up, held, store, remote>>

SettleArchive(h) ==
  /\ up /\ task[h] = "archive"
  /\ \/ archived' = archived \cup {h} /\ Advance(h, "remove") /\ UNCHANGED faults
     \/ archived' \in {archived, archived \cup {h}} /\ Fault /\ EndSettle(h)
  /\ UNCHANGED <<up, held, claims, remote>>

\* wallet.receive(), first half: the mint swaps the refund token, once.
SettleReceive(h) ==
  /\ up /\ task[h] = "receive"
  /\ \/ /\ rtok[h] = "issued" /\ rtok' = [rtok EXCEPT ![h] = "swapped"]
        /\ Advance(h, "credit") /\ UNCHANGED faults
     \/ /\ rtok[h] # "issued" /\ EndSettle(h) /\ UNCHANGED <<rtok, faults>>
     \/ Fault /\ EndSettle(h) /\ UNCHANGED rtok
  /\ UNCHANGED <<up, held, store, token, net, acct, busy>>

\* wallet.receive(), second half: the new proofs reach the wallet file, or the
\* write fails and receive() throws.
SettleCredit(h) ==
  /\ up /\ task[h] = "credit"
  /\ \/ /\ rtok' = [rtok EXCEPT ![h] = "stored"]
        /\ Advance(h, "remove") /\ UNCHANGED faults
     \/ Fault /\ EndSettle(h) /\ UNCHANGED rtok
  /\ UNCHANGED <<up, held, store, token, net, acct, busy>>

SettleRemove(h) ==
  /\ up /\ task[h] = "remove"
  /\ \/ claims' = claims \ {h} /\ UNCHANGED faults
     \/ UNCHANGED claims /\ Fault
  /\ EndSettle(h)
  /\ UNCHANGED <<up, held, archived, remote>>

(***************************************************************************)
(* recover(): single flight, at boot and then on a timer                   *)
(***************************************************************************)
RecoverStart ==
  /\ up /\ ~recOn
  /\ \E names \in SUBSET claims :
       /\ Cardinality(names) <= MaxPending
       /\ names = claims \/ Cardinality(names) = MaxPending
       /\ recOn' = TRUE /\ recTodo' = names /\ recCur' = {}
  /\ UNCHANGED <<up, held, store, remote, active, gate, scan, pc, task, faults>>

\* Mutant: active turns are not skipped.
MutRecoverOne(n) ==
  /\ up /\ recOn /\ recCur = {} /\ n \in recTodo
  /\ recTodo' = recTodo \ {n} /\ recCur' = {n} /\ CallSettle(n)
  /\ UNCHANGED <<up, held, store, remote, active, gate, scan, pc, recOn, faults>>

RecoverOne(n) ==
  /\ up /\ recOn /\ recCur = {} /\ n \in recTodo
  /\ recTodo' = recTodo \ {n}
  /\ IF n \in active
       THEN UNCHANGED <<recCur, task>>
       ELSE recCur' = {n} /\ CallSettle(n)
  /\ UNCHANGED <<up, held, store, remote, active, gate, scan, pc, recOn, faults>>

RecoverEnd ==
  /\ up /\ recOn /\ recCur = {} /\ recTodo = {}
  /\ ClearRec
  /\ UNCHANGED <<up, held, store, remote, active, gate, scan, pc, task, faults>>

(***************************************************************************)
(* The provider and the network                                            *)
(***************************************************************************)
\* The provider redeems the posted token at the mint, possibly after begin()
\* stopped waiting, possibly after a crash.
AcceptCreate(h) ==
  /\ net[h] = "inflight" /\ token[h] \in {"cut", "stored"}
  /\ net' = [net EXCEPT ![h] = "gone"]
  /\ token' = [token EXCEPT ![h] = "deposited"]
  /\ acct' = [acct EXCEPT ![h] = "funded"]
  /\ UNCHANGED <<up, held, store, busy, rtok, volatile, faults>>

\* The request is lost, or the provider or its mint turns it down.
DropCreate(h) ==
  /\ net[h] = "inflight" /\ net' = [net EXCEPT ![h] = "gone"]
  /\ UNCHANGED <<up, held, store, token, acct, busy, rtok, volatile, faults>>

\* The provider finishes serving a request and charges the balance for it.
Charge(h) ==
  /\ h \in busy /\ busy' = busy \ {h}
  /\ IF acct[h] = "funded"
       THEN \E rest \in {"funded", "dust", "zero"} : acct' = [acct EXCEPT ![h] = rest]
       ELSE UNCHANGED acct
  /\ UNCHANGED <<up, held, store, token, net, rtok, volatile, faults>>

(***************************************************************************)
(* Crash and restart                                                       *)
(***************************************************************************)
Crash ==
  /\ up /\ Fault /\ up' = FALSE
  /\ active' = {} /\ gate' = <<>> /\ ClearScan /\ ClearRec
  /\ pc' = [h \in Handles |-> IF pc[h] \in {"new", "done"} THEN pc[h] ELSE "dead"]
  /\ task' = [h \in Handles |-> "idle"]
  /\ UNCHANGED <<held, store, remote>>

\* The owner may have edited the quarantine list while the process was down.
Restart ==
  /\ ~up /\ up' = TRUE /\ held' \in SUBSET Bases
  /\ UNCHANGED <<store, remote, volatile, faults>>

BeginStep(t) ==
  \/ ListClaims(t) \/ (\E n \in Handles : ScanClaim(t, n))
  \/ SendRefused(t) \/ SendOk(t) \/ SendLost(t)
  \/ PersistOk(t) \/ PersistFail(t) \/ Rollback(t) \/ RollbackFail(t) \/ Unwind(t)
  \/ CreateReply(t) \/ CreateFail(t)

SettleStep(h) ==
  \/ SettleGet(h) \/ SettleRefund(h) \/ SettleInfo(h) \/ SettleArchive(h)
  \/ SettleReceive(h) \/ SettleCredit(h) \/ SettleRemove(h)

RecoverStep == RecoverStart \/ (\E n \in Handles : RecoverOne(n)) \/ RecoverEnd

ProviderStep(h) == AcceptCreate(h) \/ DropCreate(h) \/ Charge(h)

Next ==
  \/ \E t \in Handles : Enter(t) \/ BeginStep(t) \/ Finish(t)
  \/ \E h \in Handles : SettleStep(h) \/ ProviderStep(h)
  \/ RecoverStep
  \/ Crash \/ Restart

Spec == Init /\ [][Next]_vars

(***************************************************************************)
(* What must hold                                                          *)
(***************************************************************************)
\* Money the provider or the mint would still give back.
Recoverable(h) ==
  \/ acct[h] = "funded"
  \/ acct[h] = "dust" /\ h \notin archived
  \/ rtok[h] = "issued"
  \/ net[h] = "inflight" /\ token[h] = "cut"

\* As long as the provider holds, will hold or has refunded money of a turn that
\* the wallet does not have, the claim that can withdraw it is on disk, whatever
\* write failed, reply was lost or process died (the journal of begin(), and
\* settle(), which removes a claim only after the money is accounted for).
MoneyHasClaim == TypeOK /\ \A h \in Handles : Recoverable(h) => h \in claims

\* MAX_PENDING bounds provider custody although begin() counts the records long
\* before it writes its own: the gate lets no other begin() in between.
ClaimBound == Cardinality(claims) <= MaxPending

\* No refund is requested for a balance a turn is being set up on or streams
\* from, by the recovery pass or anyone else (the active set).
NoRefundInUse ==
  \A h \in Handles : task[h] # "idle" => pc[h] \in {"settle", "finish"} \cup Ended

\* An owner's quarantine holds a claim as it is: while the base is quarantined
\* no step withdraws from it, imports from it or removes its record.
HeldClaimsKept ==
  [][\A h \in claims : Base[h] \in held /\ Base[h] \in held' =>
        h \in claims' /\ rtok'[h] = rtok[h]]_vars

\* A claim an earlier process left stops every new payment until it is settled
\* or its provider is quarantined.
OldClaimsBlock ==
  [][\A t \in Handles : token[t] = "none" /\ token'[t] = "cut" =>
        \A h \in claims : pc[h] = "dead" => Base[h] \in held]_vars

\* The abstract custody specification this module implements.
Place(h) ==
  CASE token[h] = "none"      -> "wallet"
    [] token[h] = "cut"       -> "token"
    [] token[h] = "stored"    -> "home"
    [] token[h] = "lost"      -> "lost"
    [] token[h] = "deposited" ->
       CASE acct[h] = "dust"     -> "dust"
         [] acct[h] = "zero"     -> "spent"
         [] acct[h] = "refunded" ->
            CASE rtok[h] = "swapped" -> "memory"
              [] rtok[h] = "stored"  -> "home"
              [] OTHER               -> "refund"
         [] OTHER                -> "provider"

Custody == INSTANCE PaymentCustody WITH
  place <- [h \in Handles |-> Place(h)],
  posted <- {h \in Handles : net[h] # "unsent"}

\* Every step of the payment adapter is a step of the custody specification.
ImplementsCustody == Custody!Spec

(***************************************************************************)
(* Liveness                                                                *)
(***************************************************************************)
\* Timers bound every provider call (5 s) and the stream (the turn's deadline),
\* the recovery timer re-arms itself, systemd restarts a dead daemon; a fault
\* happens at most MaxFaults times.
Fairness ==
  /\ \A t \in Handles : WF_vars(BeginStep(t)) /\ WF_vars(Finish(t))
  /\ \A h \in Handles : WF_vars(SettleStep(h)) /\ WF_vars(ProviderStep(h))
  /\ WF_vars(RecoverStep) /\ WF_vars(Restart)

FairSpec == Spec /\ Fairness

\* A turn that called begin() gets an answer: no failure leaves the gate locked.
BeginReturns == \A t \in Handles : pc[t] = "gate" ~> pc[t] \in {"stream", "finish"} \cup Ended

\* Once faults stop, money at a provider that is not quarantined comes home, or is
\* found spent or archived as dust; only a refund swapped by a process that died
\* or could not write it is left to the operator.
ClaimsSettle ==
  \A h \in Handles :
    h \in claims /\ acct[h] # "none" ~>
      h \notin claims \/ rtok[h] \in {"swapped", "stored"} \/ Base[h] \in held
=============================================================================
