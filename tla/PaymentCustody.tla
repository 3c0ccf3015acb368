--------------------------- MODULE PaymentCustody ---------------------------
(***************************************************************************)
(* What agent/core/routstr-payment.mjs promises about the money of a chat  *)
(* turn, without its processes, promises and files: the money is in one    *)
(* place at a time and moves along fixed edges, and a durable claim covers *)
(* it from before it may leave until it is home, spent, or archived dust.  *)
(* docs/adr-routstr-streaming-payment.md states the same boundary.         *)
(***************************************************************************)
CONSTANTS Handles

VARIABLES
  place,    \* where the money of each turn is
  posted,   \* turns whose deposit request was handed to the network
  claims,   \* turns with a durable claim
  archived  \* turns whose sub-satoshi rest is archived

vars == <<place, posted, claims, archived>>

Places == {"wallet", "token", "provider", "dust", "spent", "refund", "memory",
           "home", "lost"}

Init ==
  /\ place = [h \in Handles |-> "wallet"]
  /\ posted = {} /\ claims = {} /\ archived = {}

Move(h, from, to) == place[h] = from /\ place' = [place EXCEPT ![h] = to]

\* The wallet cuts a payment token; a failed write loses it.
Cut(h) ==
  /\ Move(h, "wallet", "token") \/ Move(h, "wallet", "lost")
  /\ UNCHANGED <<posted, claims, archived>>

\* The claim is recorded; the deposit may be posted with it, never before it.
Journal(h) ==
  /\ place[h] = "token" /\ h \notin posted
  /\ claims' = claims \cup {h} /\ posted' \in {posted, posted \cup {h}}
  /\ UNCHANGED <<place, archived>>

\* The token is put back: only while it was never posted.
Undo(h) ==
  /\ h \notin posted /\ Move(h, "token", "home")
  /\ UNCHANGED <<posted, claims, archived>>

\* The provider redeems the token: only a posted token with a claim.
Deposit(h) ==
  /\ h \in posted /\ h \in claims /\ Move(h, "token", "provider")
  /\ UNCHANGED <<posted, claims, archived>>

Charge(h) ==
  /\ Move(h, "provider", "dust") \/ Move(h, "provider", "spent")
  /\ UNCHANGED <<posted, claims, archived>>

\* What is left comes back through a refund token the claim covers.
Refund(h) ==
  /\ h \in claims /\ Move(h, "provider", "refund")
  /\ UNCHANGED <<posted, claims, archived>>

Import(h) ==
  /\ h \in claims /\ Move(h, "refund", "memory")
  /\ UNCHANGED <<posted, claims, archived>>

Credit(h) ==
  /\ h \in claims /\ Move(h, "memory", "home")
  /\ UNCHANGED <<posted, claims, archived>>

Archive(h) ==
  /\ h \in claims /\ place[h] = "dust" /\ archived' = archived \cup {h}
  /\ UNCHANGED <<place, posted, claims>>

\* A claim is given up only when it covers nothing any more.
Forget(h) ==
  /\ \/ place[h] \in {"home", "spent"}
     \/ place[h] = "dust" /\ h \in archived
  /\ claims' = claims \ {h}
  /\ UNCHANGED <<place, posted, archived>>

Next ==
  \E h \in Handles :
    \/ Cut(h) \/ Journal(h) \/ Undo(h) \/ Deposit(h) \/ Charge(h)
    \/ Refund(h) \/ Import(h) \/ Credit(h) \/ Archive(h) \/ Forget(h)

Spec == Init /\ [][Next]_vars

=============================================================================
