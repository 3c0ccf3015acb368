----------------------------- MODULE Onboarding -----------------------------
(***************************************************************************)
(* The owner's wallet connection and provider key: agent/core/onboarding.mjs *)
(* with the records it keeps (agent/lib/secretstore.mjs), the mutex of the *)
(* claim (agent/lib/mutex.mjs), and the wallet and provider behind nwc.mjs *)
(* and routstr-provider.mjs.                                               *)
(*                                                                         *)
(* The provider quotes an invoice for a new key, the wallet pays it, the   *)
(* provider mints the key, and the agent must store the key before it      *)
(* forgets the quote.  A payment may outlive the request that sent it.     *)
(* Records are overwritten in place: cut short, a write leaves a record    *)
(* that cannot be read, and so does one that overlaps another.             *)
(***************************************************************************)
EXTENDS Naturals, Sequences

CONSTANTS
  Requests,   \* requests to the agent that may be under way at a time
  Quotes,     \* invoices the provider may issue, and the keys it mints for them
  Own,        \* a key the owner has from elsewhere
  None, Torn

ASSUME Names == Own \notin Quotes /\ None # Torn
                /\ {None, Torn} \cap (Quotes \cup {Own, "pays", "receives"}) = {}

Records == {"nwc", "routstr_key", "routstr_pending"}

\* What a record may hold; of a connected wallet, whether it can pay.
Values == [nwc |-> {"pays", "receives"}, routstr_key |-> Quotes \cup {Own}, routstr_pending |-> Quotes]

VARIABLES
  disk,       \* what each record holds
  invoice,    \* where an invoice is at the provider and the wallet
  tasks,      \* what each request is at
  line,       \* requests at mutex 'routstr-pay': the first has it
  claimed     \* keys of paid invoices that were stored at some time (history)

vars == <<disk, invoice, tasks, line, claimed>>

Idle == [op |-> "idle", file |-> None, value |-> None, step |-> "done"]

Put(f, v) == [op |-> "put", file |-> f, value |-> v, step |-> "remote"]

Tasks == [op : {"idle", "put", "disconnect", "pay", "recover"}, file : Records \cup {None},
          value : (UNION {Values[f] : f \in Records}) \cup {None},
          step : {"done", "remote", "queued", "read", "sent", "paid", "write", "remove"}]

Begin(r, t) == tasks[r] = Idle /\ tasks' = [tasks EXCEPT ![r] = t]

At(r, op, step) == tasks[r].op = op /\ tasks[r].step = step

Go(r, step) == tasks' = [tasks EXCEPT ![r].step = step]

\* The request is answered, and gives the mutex up if it has it (finally, in run).
Leave(r) ==
  /\ tasks' = [tasks EXCEPT ![r] = Idle]
  /\ line' = IF line # <<>> /\ Head(line) = r THEN Tail(line) ELSE line

\* Mutant: an error on the way skips the release.
MutLeaveFailed(r) == tasks' = [tasks EXCEPT ![r] = Idle] /\ UNCHANGED line

LeaveFailed(r) == Leave(r)

(***************************************************************************)
(* The wallet.                                                             *)
(***************************************************************************)
\* get_info has answered; a refresh reads the connection before it.
WalletConnect(r) ==
  /\ \E v \in Values["nwc"] : Begin(r, Put("nwc", v))
  /\ UNCHANGED <<disk, invoice, line, claimed>>

WalletTest(r) == disk["nwc"] \in Values["nwc"] /\ WalletConnect(r)

WalletDisconnect ==
  /\ disk' = [disk EXCEPT !["nwc"] = None]
  /\ UNCHANGED <<invoice, tasks, line, claimed>>

(***************************************************************************)
(* The provider's key, and the quote of a new one.  None of these takes    *)
(* the mutex.                                                              *)
(***************************************************************************)
RoutstrKey(r) ==
  /\ Begin(r, Put("routstr_key", Own))
  /\ UNCHANGED <<disk, invoice, line, claimed>>

\* The reveal is counted in the record it was read from.
RoutstrExportKey(r) ==
  /\ disk["routstr_key"] \in Values["routstr_key"]
  /\ Begin(r, Put("routstr_key", disk["routstr_key"]))
  /\ UNCHANGED <<disk, invoice, line, claimed>>

\* The provider's answer may be lost.
RoutstrQuote(r) ==
  /\ \E q \in Quotes :
       /\ invoice[q] = "none"
       /\ invoice' = [invoice EXCEPT ![q] = "open"]
       /\ Begin(r, Put("routstr_pending", q)) \/ (tasks[r] = Idle /\ UNCHANGED tasks)
  /\ UNCHANGED <<disk, line, claimed>>

RoutstrDisconnect(r) ==
  /\ Begin(r, [Idle EXCEPT !.op = "disconnect", !.step = "remove"])
  /\ disk' = [disk EXCEPT !["routstr_key"] = None]
  /\ UNCHANGED <<invoice, line, claimed>>

DisconnectPending(r) ==
  /\ At(r, "disconnect", "remove")
  /\ disk' = [disk EXCEPT !["routstr_pending"] = None]
  /\ Leave(r)
  /\ UNCHANGED <<invoice, claimed>>

(***************************************************************************)
(* put: the file is emptied, then written.                                 *)
(***************************************************************************)
WriteStarts(r) ==
  /\ tasks[r].file \in Records /\ tasks[r].step = "remote"
  /\ disk' = [disk EXCEPT ![tasks[r].file] = Torn]
  /\ Go(r, "write")
  /\ UNCHANGED <<invoice, line, claimed>>

Written(r) == {tasks[r].value} \cup
  (IF \E u \in Requests \ {r} : tasks[u].step = "write" /\ tasks[u].file = tasks[r].file
   THEN {Torn} ELSE {})

WriteEnds(r) ==
  /\ tasks[r].step = "write"
  /\ \E v \in Written(r) : disk' = [disk EXCEPT ![tasks[r].file] = v]
  /\ IF tasks[r].op = "put" THEN Leave(r) /\ UNCHANGED claimed
     ELSE /\ Go(r, "remove") /\ claimed' = claimed \cup {tasks[r].value}
          /\ UNCHANGED line
  /\ UNCHANGED invoice

WriteFails(r) ==
  /\ tasks[r].step = "write"
  /\ LeaveFailed(r)
  /\ UNCHANGED <<disk, invoice, claimed>>

(***************************************************************************)
(* Pay and recover.                                                        *)
(***************************************************************************)
Enqueue(r, op) ==
  /\ Begin(r, [Idle EXCEPT !.op = op, !.step = "queued"])
  /\ line' = Append(line, r)
  /\ UNCHANGED <<disk, invoice, claimed>>

\* Mutant: the quote is read before the mutex is taken.
MutMyTurn(r) == TRUE

MyTurn(r) == Head(line) = r

Enter(r) ==
  /\ tasks[r].step = "queued" /\ MyTurn(r)
  /\ disk["routstr_pending"] \in Quotes
  /\ tasks' = [tasks EXCEPT ![r] =
       [op |-> @.op, file |-> "routstr_key", value |-> disk["routstr_pending"], step |-> "read"]]
  /\ UNCHANGED <<disk, invoice, line, claimed>>

\* No quote on record, one that cannot be read, or another than the browser named.
Refused(r) ==
  /\ tasks[r].step = "queued" /\ MyTurn(r)
  /\ Leave(r)
  /\ UNCHANGED <<disk, invoice, claimed>>

\* payInvoice: the wallet takes an invoice once.
Send(r) ==
  /\ At(r, "pay", "read") /\ disk["nwc"] = "pays"
  /\ Go(r, "sent")
  /\ invoice' = [invoice EXCEPT ![tasks[r].value] = IF @ = "open" THEN "sent" ELSE @]
  /\ UNCHANGED <<disk, line, claimed>>

\* No wallet that can pay, or none that can be reached.
NotSent(r) ==
  /\ At(r, "pay", "read")
  /\ LeaveFailed(r)
  /\ UNCHANGED <<disk, invoice, claimed>>

Paid(r) ==
  /\ At(r, "pay", "sent") /\ invoice[tasks[r].value] = "paid"
  /\ Go(r, "paid")
  /\ UNCHANGED <<disk, invoice, line, claimed>>

\* The wallet refused, or nothing came in time: the payment may still be under way.
NotPaid(r) ==
  /\ At(r, "pay", "sent")
  /\ LeaveFailed(r)
  /\ UNCHANGED <<disk, invoice, claimed>>

\* pollInvoice after a payment, recoverInvoice otherwise; then verifyKey.
Asks(r) == At(r, "pay", "paid") \/ At(r, "recover", "read")

Claim(r) ==
  /\ Asks(r) /\ invoice[tasks[r].value] = "paid"
  /\ Go(r, "remote")
  /\ UNCHANGED <<disk, invoice, line, claimed>>

\* Mutant: the quote is forgotten although the key could not be verified.
MutNotClaimed(r) ==
  /\ Asks(r)
  /\ Go(r, "remove")
  /\ UNCHANGED <<disk, invoice, line, claimed>>

\* Not minted yet, expired, not reachable, or the key does not verify.
NotClaimed(r) ==
  /\ Asks(r)
  /\ Leave(r)
  /\ UNCHANGED <<disk, invoice, claimed>>

RemovePending(r) ==
  /\ tasks[r].op \in {"pay", "recover"} /\ tasks[r].step = "remove"
  /\ disk' = [disk EXCEPT !["routstr_pending"] = None] \/ UNCHANGED disk
  /\ Leave(r)
  /\ UNCHANGED <<invoice, claimed>>

(***************************************************************************)
(* The wallet and the provider; the process.                               *)
(***************************************************************************)
Moves == {<<"sent", "paid">>, <<"sent", "open">>, <<"open", "expired">>}

Lightning(q) ==
  /\ \E m \in Moves : invoice[q] = m[1] /\ invoice' = [invoice EXCEPT ![q] = m[2]]
  /\ UNCHANGED <<disk, tasks, line, claimed>>

Crash ==
  /\ \E r \in Requests : tasks[r] # Idle
  /\ tasks' = [r \in Requests |-> Idle] /\ line' = <<>>
  /\ UNCHANGED <<disk, invoice, claimed>>

Init ==
  /\ disk = [f \in Records |-> None] /\ invoice = [q \in Quotes |-> "none"]
  /\ tasks = [r \in Requests |-> Idle] /\ line = <<>> /\ claimed = {}

Ask(r) ==
  \/ WalletConnect(r) \/ WalletTest(r) \/ RoutstrKey(r) \/ RoutstrExportKey(r)
  \/ RoutstrQuote(r) \/ RoutstrDisconnect(r) \/ \E op \in {"pay", "recover"} : Enqueue(r, op)

Continue(r) ==
  \/ WriteStarts(r) \/ WriteEnds(r) \/ WriteFails(r) \/ DisconnectPending(r)
  \/ Enter(r) \/ Refused(r) \/ Send(r) \/ NotSent(r) \/ Paid(r) \/ NotPaid(r)
  \/ Claim(r) \/ NotClaimed(r) \/ RemovePending(r)

Next ==
  \/ \E r \in Requests : Ask(r) \/ Continue(r)
  \/ WalletDisconnect \/ Crash
  \/ \E q \in Quotes : Lightning(q)

\* Every await of a request returns: calls to the wallet and the provider have a
\* time limit.  Nothing is assumed of the owner, nor of what the others answer.
Spec == Init /\ [][Next]_vars /\ \A r \in Requests : WF_vars(Continue(r))

(***************************************************************************)
(* Properties.                                                             *)
(***************************************************************************)
TypeOK ==
  /\ DOMAIN disk = Records /\ \A f \in Records : disk[f] \in Values[f] \cup {None, Torn}
  /\ invoice \in [Quotes -> {"none", "open", "sent", "paid", "expired"}]
  /\ tasks \in [Requests -> Tasks] /\ line \in Seq(Requests)
  /\ claimed \subseteq Quotes

\* One request at a time is between the read of the pending quote and the end of
\* its claim, whatever fails on the way (A18).
OneClaim ==
  /\ TypeOK
  /\ \A r, u \in Requests :
       /\ {tasks[r].op, tasks[u].op} \subseteq {"pay", "recover"}
       /\ "queued" \notin {tasks[r].step, tasks[u].step}
       => r = u

\* A quote whose payment is under way or done leaves the record only when its key
\* was stored, or because the owner asks for another quote or disconnects (A18: the
\* envelope is dropped only after the key is verified and durably stored).
PaidStaysClaimable ==
  [][\A q \in Quotes :
       /\ disk["routstr_pending"] = q /\ disk'["routstr_pending"] # q
       /\ invoice[q] \in {"sent", "paid"}
       => \/ q \in claimed
          \/ \E r \in Requests : DisconnectPending(r)
          \/ \E r \in Requests : tasks[r].op = "put" /\ (WriteStarts(r) \/ WriteEnds(r))]_vars

\* Every request is answered: the mutex is given up on every way out of pay and
\* recover, and nobody waits for it forever.
RequestsReturn == \A r \in Requests : tasks[r] # Idle ~> tasks[r] = Idle
=============================================================================
