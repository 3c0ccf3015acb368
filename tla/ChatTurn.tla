------------------------------ MODULE ChatTurn ------------------------------
(***************************************************************************)
(* One chat turn in the agent: the router (agent/core/model-router.mjs)    *)
(* between the paid provider (agent/core/routstr.mjs) and the local model  *)
(* (agent/core/ollama.mjs), the budget they share (lib/timeout-budget.mjs), *)
(* the codes that decide what is tried next (lib/provider-errors.mjs), and *)
(* the sats that leave the wallet on the way.                              *)
(*                                                                         *)
(* A failed attempt may have been charged, and whoever reads the answer    *)
(* learns of money only what the answer says.  Payment is either a token   *)
(* sent with the request (x_cashu) or a deposit that is settled after it   *)
(* (bearer: BearerPayment has its journal).                                *)
(***************************************************************************)
EXTENDS Naturals, Sequences, FiniteSets

CONSTANTS
  Prices,      \* what a catalogue may ask for a request
  Ceiling,     \* most sats of one request (max_sats_per_request)
  MaxOffers,   \* bound: providers that serve the model
  Total,       \* budget of the turn
  MinSlice,    \* least time worth an attempt
  Slice,       \* configured time of a paid request
  LocalSlice,  \* configured time of the local model
  Wait         \* bound: most a wallet, a settlement or a discovery takes

ASSUME ChatAssumption ==
  /\ {Ceiling, MaxOffers, Total, MinSlice, Slice, LocalSlice, Wait} \subseteq Nat \ {0}
  /\ Prices \subseteq Nat \ {0}
  /\ MinSlice <= Total

VARIABLES
  cfg,       \* how the operator has set the agent up
  clock,     \* time since the turn began
  at,        \* what the turn is at
  since,     \* when that began
  offers,    \* what the candidates not tried yet ask for, in their order
  allowance, \* sats the turn may set aside: a ceiling for each candidate
  reserved,  \* sats set aside by the attempts so far
  attempt,   \* the attempt under way, or the last
  primary,   \* code of the paid provider's failure, for the fallback
  sent,      \* payments that left the agent in this turn
  out,       \* sats that providers were given in this turn and that are not back
  answer     \* what the turn answers

chatVars == <<cfg, clock, at, since, offers, allowance, reserved, attempt, primary, sent, out, answer>>

Strategies == {"routstr_only", "routstr_first", "ollama_only", "ollama_first"}

\* Errors of the upstream, its connection and its replies are one: they route alike.
Retryable == {"unavailable", "upstream_timeout", "insufficient_funds", "token_already_spent"}

Final == {"upstream_4xx", "payment_recovery_required", "budget_exhausted", "provider_disabled"}

Codes == Retryable \cup Final \cup {"ok", "none"}

Bearer == cfg.mode = "bearer"

Least(a, b) == IF a < b THEN a ELSE b

(***************************************************************************)
(* The budget.                                                             *)
(***************************************************************************)
Left == IF clock < Total THEN Total - clock ELSE 0

WorthAttempting == Left >= MinSlice

SliceFor(configured) == Least(configured, Left)

\* Prices are the provider's word: none is believed above the ceiling.
SatsFor(price) == Least(price, Ceiling)

(***************************************************************************)
(* The turn goes on, or it is answered.                                    *)
(***************************************************************************)
Go(step) == at' = step /\ since' = clock

Answer(code, sats) ==
  /\ Go("done")
  /\ answer' = [code |-> code, sats |-> sats]
  /\ UNCHANGED <<cfg, clock, offers, allowance, reserved, attempt, primary, sent, out>>

\* The local model is called: its answer is free.
CallLocal ==
  /\ Go("local")
  /\ attempt' = [attempt EXCEPT !.deadline = clock + SliceFor(LocalSlice)]
  /\ UNCHANGED <<cfg, clock, offers, allowance, reserved, sent, out, answer>>

CallRoutstr ==
  /\ Go("discover")
  /\ UNCHANGED <<cfg, clock, offers, allowance, reserved, attempt, primary, sent, out, answer>>

(***************************************************************************)
(* The router.                                                             *)
(***************************************************************************)
Route ==
  /\ at = "route"
  /\ \/ cfg.strategy \in {"routstr_only", "routstr_first"} /\ CallRoutstr
     \/ cfg.strategy = "ollama_first" /\ ~cfg.local /\ CallRoutstr
     \/ cfg.strategy \in {"ollama_only", "ollama_first"} /\ cfg.local /\ CallLocal /\ UNCHANGED primary
     \/ cfg.strategy = "ollama_only" /\ ~cfg.local /\ Answer("provider_disabled", 0)

\* A failed paid attempt is worth another provider only for some codes.
\* Mutant: a payment that is in doubt is one of them.
MutWorthAnother(code) == code \in Retryable \cup {"payment_recovery_required"}

WorthAnother(code) == code \in Retryable

\* The paid provider is done with the turn; the local model may have another go.
RoutstrEnds ==
  LET code == attempt.code
      fallback == cfg.strategy = "routstr_first" /\ cfg.local /\ WorthAnother(code)
  IN /\ at = "next"
     /\ code = "ok" \/ offers = <<>> \/ ~WorthAnother(code)
     /\ \/ code = "ok" /\ Answer("ok", attempt.sats - attempt.refund)
        \/ code # "ok" /\ ~fallback /\ Answer(code, 0)
        \/ fallback /\ ~WorthAttempting /\ Answer("budget_exhausted", 0)
        \/ fallback /\ WorthAttempting /\ CallLocal /\ primary' = code

\* The timer stays armed while the reply is read: an error before it, or its own.
\* Mutant: it is cleared when the reply begins.
MutEndsWith(code) == code # "upstream_timeout" /\ clock < attempt.deadline

EndsWith(code) == (code = "upstream_timeout") = (clock >= attempt.deadline)

LocalReplies ==
  /\ at = "local" /\ clock < attempt.deadline
  /\ Answer("ok", 0)

\* After the paid provider its code is the one to report; before it, it is its turn.
LocalFails ==
  /\ at = "local"
  /\ \E code \in {"unavailable", "upstream_4xx", "upstream_timeout"} :
       /\ EndsWith(code)
       /\ \/ cfg.strategy = "ollama_only" /\ Answer(code, 0)
          \/ cfg.strategy = "routstr_first" /\ Answer(primary, 0)
          \/ cfg.strategy = "ollama_first" /\ ~WorthAttempting /\ Answer("budget_exhausted", 0)
          \/ cfg.strategy = "ollama_first" /\ WorthAttempting /\ CallRoutstr

(***************************************************************************)
(* The paid provider.  An owner's choice nobody serves ends the turn; any  *)
(* other model degrades to the cheapest, and with no provider at all the   *)
(* endpoint of the configuration, if there is one, is the only candidate.  *)
(***************************************************************************)
\* What the attempts are estimated at, in the order of the catalogue's own maxima.
Candidates == UNION {[1..n -> Prices] : n \in 1..MaxOffers}

Discovered ==
  /\ at = "discover"
  /\ offers' \in Candidates
  /\ allowance' = Ceiling * Len(offers')
  /\ Go("pick")
  /\ UNCHANGED <<cfg, clock, reserved, attempt, primary, sent, out, answer>>

\* Also an endpoint that no longer has the time of one attempt.
NothingFound ==
  /\ at = "discover"
  /\ \E code \in {"provider_disabled"} \cup (IF WorthAttempting THEN {} ELSE {"budget_exhausted"}) :
       attempt' = [attempt EXCEPT !.code = code]
  /\ Go("next")
  /\ UNCHANGED <<cfg, clock, offers, allowance, reserved, primary, sent, out, answer>>

\* The next candidate: time and sats of the attempt are fixed before it is paid.
Pick ==
  LET sats == SatsFor(Head(offers))
      affordable == WorthAttempting /\ reserved + sats <= allowance
  IN /\ at = "pick"
     /\ \/ /\ affordable
           /\ attempt' = [attempt EXCEPT !.sats = sats, !.slice = SliceFor(Slice), !.retried = FALSE,
                                         !.worth = 0, !.refund = 0, !.code = "none", !.deadline = 0]
           /\ reserved' = reserved + sats
           /\ Go("pay")
        \/ /\ ~affordable
           /\ attempt' = [attempt EXCEPT !.code = "budget_exhausted"]
           /\ Go("next")
           /\ UNCHANGED reserved
     /\ offers' = Tail(offers)
     /\ UNCHANGED <<cfg, clock, allowance, primary, sent, out, answer>>

Another ==
  /\ at = "next" /\ offers # <<>> /\ WorthAnother(attempt.code)
  /\ Go("pick")
  /\ UNCHANGED <<cfg, clock, offers, allowance, reserved, attempt, primary, sent, out, answer>>

\* The timer of a bearer request counts from before the deposit.
Deadline == (IF Bearer THEN since ELSE clock) + attempt.slice

\* The payment left the agent.  A token is worth less than it says when some of its
\* proofs were spent before the turn: the wallet looks for those, but may be late.
Paid ==
  /\ at = "pay"
  /\ \E worth \in (IF Bearer THEN {attempt.sats} ELSE 0..attempt.sats) :
       /\ attempt' = [attempt EXCEPT !.worth = worth, !.deadline = Deadline]
       /\ out' = out + worth
  /\ sent' = sent + 1
  /\ Go("call")
  /\ UNCHANGED <<cfg, clock, offers, allowance, reserved, primary, answer>>

Attempted(code) == attempt' = [attempt EXCEPT !.code = code] /\ Go("next")

\* The wallet is dry, or nothing may be paid: an isolated endpoint, an old claim.
NotPaid ==
  /\ at = "pay"
  /\ \E code \in {"insufficient_funds", "payment_recovery_required"} : Attempted(code)
  /\ UNCHANGED <<cfg, clock, offers, allowance, reserved, primary, sent, out, answer>>

\* The deposit fails after it was sent: what is left of it is settled at once.
DepositFails ==
  /\ Bearer /\ at = "pay"
  /\ \E refund \in 0..attempt.sats : out' = out + attempt.sats - refund
  /\ sent' = sent + 1
  /\ Attempted("payment_recovery_required")
  /\ UNCHANGED <<cfg, clock, offers, allowance, reserved, primary, answer>>

(***************************************************************************)
(* The request.  A reply or an error comes before the deadline, or none.   *)
(***************************************************************************)
Replies ==
  /\ at = "call" /\ clock < attempt.deadline
  /\ attempt' = [attempt EXCEPT !.code = "ok"]
  /\ Go("settle")
  /\ UNCHANGED <<cfg, clock, offers, allowance, reserved, primary, sent, out, answer>>

\* Never another paid request after a deposit: what it paid for is in doubt.
Failure(code) == IF Bearer THEN "payment_recovery_required" ELSE code

\* A refused request (4xx, or 402) gives no token back; of the others it is asked for.
RequestFails ==
  /\ at = "call"
  /\ \E code \in {"unavailable", "upstream_timeout", "upstream_4xx", "insufficient_funds"} :
       /\ EndsWith(code)
       /\ attempt' = [attempt EXCEPT !.code = Failure(code)]
       /\ IF ~Bearer /\ code \in {"upstream_4xx", "insufficient_funds"} THEN Go("next") ELSE Go("settle")
  /\ UNCHANGED <<cfg, clock, offers, allowance, reserved, primary, sent, out, answer>>

\* Mutant: every such refusal is followed by another payment.
MutMayRetry == TRUE

MayRetry == ~attempt.retried

\* A token refused as already spent, whoever spent it: the provider may have redeemed it
\* for this request and lost the mint's answer.  It is not asked back, and the same
\* attempt is paid again, once and in full, with nothing more set aside for it.
AlreadySpent ==
  /\ at = "call" /\ ~Bearer /\ clock < attempt.deadline
  /\ \/ MayRetry /\ attempt' = [attempt EXCEPT !.retried = TRUE] /\ Go("pay")
     \/ ~MayRetry /\ Attempted("token_already_spent")
  /\ UNCHANGED <<cfg, clock, offers, allowance, reserved, primary, sent, out, answer>>

\* The change of the reply, the token asked back, or the end of the deposit, of which
\* nothing is told when its record cannot be removed once the money is back.
Settled ==
  /\ at = "settle"
  /\ \E back \in 0..attempt.worth : \E told \in {back} \cup (IF Bearer THEN {0} ELSE {}) :
       /\ out' = out - back
       /\ attempt' = [attempt EXCEPT !.refund = told]
  /\ Go("next")
  /\ UNCHANGED <<cfg, clock, offers, allowance, reserved, primary, sent, answer>>

\* Time passes where the turn waits for somebody; an armed timer is not overrun.
Tick ==
  /\ \/ at \in {"call", "local"} /\ clock < attempt.deadline
     \/ at \in {"discover", "pay", "settle"} /\ clock < since + Wait
  /\ clock' = clock + 1
  /\ UNCHANGED <<cfg, at, since, offers, allowance, reserved, attempt, primary, sent, out, answer>>

ChatInit ==
  /\ cfg \in [mode : {"x_cashu", "bearer"}, strategy : Strategies, local : BOOLEAN]
  /\ clock = 0 /\ since = 0
  /\ at = "route"
  /\ offers = <<>>
  /\ attempt = [sats |-> 0, slice |-> 0, deadline |-> 0, worth |-> 0, retried |-> FALSE,
                refund |-> 0, code |-> "none"]
  /\ primary = "none"
  /\ allowance = 0 /\ reserved = 0 /\ sent = 0 /\ out = 0
  /\ answer = [code |-> "none", sats |-> 0]

Steps ==
  \/ Route \/ RoutstrEnds \/ LocalReplies \/ LocalFails
  \/ Discovered \/ NothingFound \/ Pick \/ Another
  \/ Paid \/ NotPaid \/ DepositFails
  \/ Replies \/ RequestFails \/ AlreadySpent \/ Settled

ChatNext == Steps \/ Tick

ChatSpec == ChatInit /\ [][ChatNext]_chatVars /\ WF_chatVars(ChatNext)

-----------------------------------------------------------------------------
ChatTypeOK ==
  /\ at \in {"route", "discover", "pick", "pay", "call", "settle", "next", "local", "done"}
  /\ {attempt.code, primary, answer.code} \subseteq Codes
  /\ attempt.sats \in 0..Ceiling /\ {attempt.worth, attempt.refund} \subseteq 0..attempt.sats
  /\ since <= clock

\* What the code bounds.  With deposits the cost of a turn, failed attempts included,
\* is within the sats its attempts set aside; with tokens within twice that, since an
\* attempt is paid at most once more after its token was refused as already spent.
\* No more is set aside than the turn's allowance.  With deposits no call of a model
\* outlives the budget of the turn, the time its payment took included; a call of the
\* local model never does.
WithinBudget ==
  /\ ChatTypeOK
  /\ out \in 0..(IF Bearer THEN reserved ELSE 2 * reserved) /\ reserved <= allowance
  /\ (at = "local" \/ (at = "call" /\ Bearer)) => attempt.deadline <= Total

\* With deposits a turn pays at most once, whatever fails, and its answer says
\* what that cost: a paid reply no less than it did and no more than was set aside, and
\* a failure the agent reports as free (out of time, out of budget) or a reply of the
\* local model nothing.
PaidOnceAndTold ==
  Bearer =>
    /\ sent <= 1
    /\ answer.code = "ok" => answer.sats \in out..reserved
    /\ answer.code \in Retryable \cup {"budget_exhausted"} => out = 0

\* Every turn is answered, also if no provider ever answers a request.
TurnAnswered == <>(at = "done")

\* What agent/core/routstr.mjs says of the allowance of a turn, one ceiling for each
\* candidate: that by it "total spend is bounded".
TotalSpendBounded == out <= allowance
=============================================================================
