----------------------------- MODULE MintQuotes -----------------------------
(***************************************************************************)
(* agent/core/wallet.mjs: Lightning top-ups.  createMintQuote() asks the   *)
(* mint for an invoice and writes a marker file; the browser polls         *)
(* checkMintQuote() (or the owner resumes it later), which mints the paid  *)
(* quote's proofs, appends them to the proof file and then marks the quote *)
(* minted.  The proof file and its lock are those of ProofStore.           *)
(* One session is modelled.                                                *)
(***************************************************************************)
EXTENDS ProofStore

CONSTANTS
  Quotes,      \* bound: the quotes the mint hands out
  Creators,    \* concurrent createMintQuote() calls
  Pollers,     \* concurrent checkMintQuote() / resumeQuote() calls
  QuoteProof,  \* [Quotes -> Reserved]: the proof the mint signs for each
  NoSet,       \* openQuotesBySession has no entry
  MaxOpen,     \* the limit on open quotes (5)
  MintReplays  \* minting an issued quote again returns the same proofs

ASSUME QuoteCallers == Creators \cup Pollers \subseteq Callers
ASSUME QuoteProofs ==
  /\ QuoteProof \in [Quotes -> Reserved]
  /\ \A q, r \in Quotes : QuoteProof[q] = QuoteProof[r] => q = r
ASSUME NoSetIsNoCreator == NoSet \notin Creators

VARIABLES
  quote,    \* what the mint knows of each quote
  marker,   \* the quote's marker file
  shown,    \* quotes whose invoice was returned to the browser
  doing,    \* the quote a creator or poller works on
  recent,   \* quotes checked less than 1.5 s ago
  mapped,   \* the Set openQuotesBySession holds, named by who allocated it
  ref,      \* the Set a creator holds
  members   \* the elements of each Set

quoteVars == <<quote, marker, shown, doing, recent, mapped, ref, members>>
vars == <<storeVars, quoteVars>>

QuoteAts == StoreAts \cup {"quoting", "marking", "ask", "issue", "qappend",
                           "qappending", "mark", "qdrop"}

TypeOK ==
  /\ StoreType(QuoteAts)
  /\ quote \in [Quotes -> {"none", "unpaid", "paid", "issued"}]
  /\ marker \in [Quotes -> {"none", "open", "torn", "minted"}]
  /\ shown \subseteq Quotes /\ recent \subseteq Quotes
  /\ doing \in [Creators \cup Pollers -> SUBSET Quotes]
  /\ mapped \in Creators \cup {NoSet}
  /\ ref \in [Creators -> Creators \cup {NoSet}]
  /\ members \in [Creators -> SUBSET Quotes]

Init ==
  /\ StoreInit
  /\ quote = [q \in Quotes |-> "none"]
  /\ marker = [q \in Quotes |-> "none"] /\ shown = {} /\ recent = {}
  /\ doing = [c \in Creators \cup Pollers |-> {}]
  /\ mapped = NoSet /\ ref = [c \in Creators |-> NoSet]
  /\ members = [c \in Creators |-> {}]

OnlyAt == UNCHANGED <<mint, file, lockq, snap, use, mem, out, lost, faults>>
Stop(c) == Goto(c, "idle") /\ doing' = [doing EXCEPT ![c] = {}]

(***************************************************************************)
(* createMintQuote()                                                       *)
(***************************************************************************)
\* The limit is tested on the session's Set, or on a new one if it has none.
CreateCheck(c) ==
  /\ c \in Creators /\ at[c] = "idle"
  /\ LET s == IF mapped = NoSet THEN c ELSE mapped IN
       /\ mapped = NoSet \/ Cardinality(members[s]) < MaxOpen
       /\ ref' = [ref EXCEPT ![c] = s]
       /\ members' = IF mapped = NoSet THEN [members EXCEPT ![c] = {}] ELSE members
  /\ Goto(c, "quoting") /\ OnlyAt
  /\ UNCHANGED <<quote, marker, shown, doing, recent, mapped>>

\* No healthy mint, or the mint refuses; ...
CreateFail(c) ==
  /\ c \in Creators /\ at[c] = "quoting" /\ Stop(c) /\ OnlyAt
  /\ UNCHANGED <<quote, marker, shown, recent, mapped, ref, members>>

\* ... or it answers with a quote.
CreateQuote(c, q) ==
  /\ c \in Creators /\ at[c] = "quoting" /\ quote[q] = "none"
  /\ quote' = [quote EXCEPT ![q] = "unpaid"]
  /\ doing' = [doing EXCEPT ![c] = {q}] /\ Goto(c, "marking") /\ OnlyAt
  /\ UNCHANGED <<marker, shown, recent, mapped, ref, members>>

\* The marker is written, the quote joins the Set the call has held since its
\* check, the map gets that Set, and the invoice is returned.
CreateMark(c, q) ==
  /\ c \in Creators /\ at[c] = "marking" /\ q \in doing[c]
  /\ marker' = [marker EXCEPT ![q] = "open"] /\ shown' = shown \cup {q}
  /\ members' = [members EXCEPT ![ref[c]] = @ \cup {q}] /\ mapped' = ref[c]
  /\ Stop(c) /\ OnlyAt
  /\ UNCHANGED <<quote, recent, ref>>

\* writeFile is not atomic: a failure can leave a torn marker.
CreateMarkFail(c, q) ==
  /\ c \in Creators /\ at[c] = "marking" /\ q \in doing[c] /\ Fault
  /\ \E left \in {"none", "torn"} : marker' = [marker EXCEPT ![q] = left]
  /\ Stop(c)
  /\ UNCHANGED <<mint, file, lockq, snap, use, mem, out, lost, quote,
                 shown, recent, mapped, ref, members>>

(***************************************************************************)
(* checkMintQuote(); resumeQuote() reads the marker and calls it           *)
(***************************************************************************)
\* A marker that is absent, torn or minted ends the call; so does the throttle.
PollRead(c, q) ==
  /\ c \in Pollers /\ at[c] = "idle" /\ marker[q] = "open" /\ q \notin recent
  /\ recent' = recent \cup {q} /\ doing' = [doing EXCEPT ![c] = {q}]
  /\ Goto(c, "ask") /\ OnlyAt
  /\ UNCHANGED <<quote, marker, shown, mapped, ref, members>>

Unthrottle(q) ==
  /\ q \in recent /\ recent' = recent \ {q}
  /\ UNCHANGED <<storeVars, quote, marker, shown, doing, mapped, ref, members>>

\* The mint is unreachable, says unpaid, or refuses to mint.
PollStop(c) ==
  /\ c \in Pollers /\ at[c] \in {"ask", "issue"} /\ Stop(c) /\ OnlyAt
  /\ UNCHANGED <<quote, marker, shown, recent, mapped, ref, members>>

\* Mutant: an issued quote counts as settled.
MutPollAsk(c, q) ==
  /\ c \in Pollers /\ at[c] = "ask" /\ q \in doing[c] /\ quote[q] = "paid"
  /\ Goto(c, "issue") /\ OnlyAt /\ UNCHANGED quoteVars

PollAsk(c, q) ==
  /\ c \in Pollers /\ at[c] = "ask" /\ q \in doing[c] /\ quote[q] \in {"paid", "issued"}
  /\ Goto(c, "issue") /\ OnlyAt /\ UNCHANGED quoteVars

\* mintProofsBolt11: the mint signs fresh proofs for a paid quote, once ...
PollIssue(c, q) ==
  /\ c \in Pollers /\ at[c] = "issue" /\ q \in doing[c] /\ quote[q] = "paid"
  /\ mint' = [mint EXCEPT ![QuoteProof[q]] = "unspent"]
  /\ \/ /\ mem' = [mem EXCEPT ![c] = {QuoteProof[q]}]
        /\ Queue(c) /\ Goto(c, "qappend")
        /\ UNCHANGED <<lost, faults, doing>>
     \/ /\ Fault /\ lost' = lost \cup {QuoteProof[q]}   \* the reply is lost
        /\ Stop(c) /\ UNCHANGED <<mem, lockq>>
  /\ quote' = [quote EXCEPT ![q] = "issued"]
  /\ UNCHANGED <<file, snap, use, out, marker, shown, recent, mapped, ref, members>>

\* ... and returns the same ones when asked again.
PollReplay(c, q) ==
  /\ c \in Pollers /\ at[c] = "issue" /\ q \in doing[c] /\ quote[q] = "issued"
  /\ MintReplays
  /\ mem' = [mem EXCEPT ![c] = {QuoteProof[q]}]
  /\ Queue(c) /\ Goto(c, "qappend")
  /\ UNCHANGED <<mint, file, snap, use, out, lost, faults, quoteVars>>

\* Mutant: the marker is rewritten before the proofs are stored.
MutPollAppendRead(c) ==
  /\ at[c] = "qappend" /\ Read(c, "qappending")
  /\ marker' = [q \in Quotes |-> IF q \in doing[c] THEN "minted" ELSE marker[q]]
  /\ UNCHANGED <<quote, shown, doing, recent, mapped, ref, members>>

PollAppendRead(c) ==
  /\ at[c] = "qappend" /\ Read(c, "qappending") /\ UNCHANGED quoteVars

\* Proofs already in the file are not appended again.
Fresh(c) == {p \in mem[c] : snap[c][p] = 0}

PollAppendWrite(c) ==
  /\ at[c] = "qappending" /\ Holds(c)
  /\ file' = Plus(snap[c], Fresh(c)) /\ Keep(c) /\ Goto(c, "mark")
  /\ UNCHANGED <<mint, lockq, snap, use, out, lost, faults, quoteVars>>

PollAppendFail(c) ==
  /\ at[c] = "qappending" /\ Holds(c) /\ Fault
  /\ Lose(c) /\ Release(c, "idle") /\ doing' = [doing EXCEPT ![c] = {}]
  /\ UNCHANGED <<mint, file, out, quote, marker, shown, recent, mapped, ref,
                 members>>

\* Still under the lock, and only now: minted.
PollMark(c, q) ==
  /\ at[c] = "mark" /\ Holds(c) /\ q \in doing[c]
  /\ marker' = [marker EXCEPT ![q] = "minted"] /\ Release(c, "qdrop")
  /\ UNCHANGED <<mint, file, mem, out, lost, faults, quote, shown, doing,
                 recent, mapped, ref, members>>

PollMarkFail(c, q) ==
  /\ at[c] = "mark" /\ Holds(c) /\ q \in doing[c] /\ Fault
  /\ \E left \in {marker[q], "torn"} : marker' = [marker EXCEPT ![q] = left]
  /\ Release(c, "idle") /\ doing' = [doing EXCEPT ![c] = {}]
  /\ UNCHANGED <<mint, file, mem, out, lost, quote, shown, recent, mapped,
                 ref, members>>

\* dropOpenQuote, after the balance was read.
PollDrop(c, q) ==
  /\ at[c] = "qdrop" /\ q \in doing[c]
  /\ members' = IF mapped = NoSet THEN members
                ELSE [members EXCEPT ![mapped] = @ \ {q}]
  /\ Stop(c) /\ OnlyAt
  /\ UNCHANGED <<quote, marker, shown, recent, mapped, ref>>

\* The operator pays the invoice on the screen.
Pay(q) ==
  /\ q \in shown /\ quote[q] = "unpaid" /\ quote' = [quote EXCEPT ![q] = "paid"]
  /\ UNCHANGED <<storeVars, marker, shown, doing, recent, mapped, ref, members>>

\* A crash can tear the marker that is being written.
Crash ==
  /\ StoreCrash
  /\ \E T \in SUBSET {q \in Quotes : \E c \in Creators \cup Pollers :
                         q \in doing[c] /\ at[c] \in {"marking", "mark"}} :
       marker' = [q \in Quotes |-> IF q \in T THEN "torn" ELSE marker[q]]
  /\ doing' = [c \in Creators \cup Pollers |-> {}] /\ recent' = {}
  /\ mapped' = NoSet /\ ref' = [c \in Creators |-> NoSet]
  /\ members' = [c \in Creators |-> {}]
  /\ UNCHANGED <<quote, shown>>

CreateStep(c) ==
  \/ CreateCheck(c) \/ CreateFail(c)
  \/ \E q \in Quotes : CreateQuote(c, q) \/ CreateMark(c, q) \/ CreateMarkFail(c, q)

PollStep(c) ==
  \/ PollStop(c) \/ PollAppendRead(c) \/ PollAppendWrite(c) \/ PollAppendFail(c)
  \/ \E q \in Quotes :
       \/ PollRead(c, q) \/ PollAsk(c, q) \/ PollIssue(c, q) \/ PollReplay(c, q)
       \/ PollMark(c, q) \/ PollMarkFail(c, q) \/ PollDrop(c, q)

Next ==
  \/ StoreNext /\ UNCHANGED quoteVars
  \/ \E c \in Creators : CreateStep(c)
  \/ \E c \in Pollers : PollStep(c)
  \/ \E q \in Quotes : Unthrottle(q) \/ Pay(q)
  \/ Crash

Spec == Init /\ [][Next]_vars

(***************************************************************************)
(* What must hold                                                          *)
(***************************************************************************)
\* A paid top-up can always be resumed until its proofs are stored: its marker is
\* on disk, readable and not minted, whatever crash or failed write came between
\* (checkMintQuote stores the proofs before it rewrites the marker).
PaidIsResumable ==
  TypeOK /\ \A q \in Quotes : quote[q] \in {"paid", "issued"} =>
    \/ marker[q] = "open"
    \/ file[QuoteProof[q]] > 0 \/ mint[QuoteProof[q]] \in {"pending", "spent"}

(***************************************************************************)
(* Implements Purse                                                        *)
(***************************************************************************)
InFile == {p \in Proofs : file[p] > 0}
\* A token that was posted is in memory only to say what became of it.
Hands ==
  [c \in Callers |-> IF at[c] \in {"paid", "drop", "dropping"} THEN {} ELSE mem[c]]

Wallet == INSTANCE Purse WITH stored <- InFile, hand <- Hands, given <- out

\* However operations interleave, crash and fail between their reads and their writes,
\* the file is as if each had done both at once (withMutationLock): no write undoes
\* another's, none brings a spent proof back or drops one that is not, and a payment
\* leaves the floor (wallet.mjs, cashu.hard_floor_sats).
ImplementsPurse == Wallet!Spec

(***************************************************************************)
(* Liveness                                                                *)
(***************************************************************************)
\* The promises of the lock are served in order, timers fire, the mint answers, and
\* the page (or the owner, who resumes) polls a paid quote again and again.
Fairness ==
  /\ \A c \in Callers : WF_vars(LockStep(c) /\ UNCHANGED quoteVars)
  /\ \A c \in Pollers :
       /\ WF_vars(PollAppendRead(c) \/ PollAppendWrite(c)
                  \/ \E q \in Quotes : PollMark(c, q) \/ PollDrop(c, q))
       /\ \A q \in Quotes :
            /\ SF_vars(PollRead(c, q)) /\ SF_vars(PollAsk(c, q))
            /\ SF_vars(PollIssue(c, q) \/ PollReplay(c, q))
  /\ \A q \in Quotes : WF_vars(Unthrottle(q))

FairSpec == Spec /\ Fairness

\* Once faults stop, a paid quote whose mint replays ends up minted into the wallet;
\* only a failed last write can leave its marker torn instead.
PaidIsMinted ==
  \A q \in Quotes : quote[q] \in {"paid", "issued"} ~> marker[q] \in {"minted", "torn"}
=============================================================================
