----------------------------- MODULE TeamAccess -----------------------------
(***************************************************************************)
(* agent/lib/team-invites.mjs and roster.mjs with the routes of index.mjs: *)
(* how people come to be on a project.  The owner signs member lists and   *)
(* makes links: named ones for a member, open ones whose requests the      *)
(* owner approves, and straight-in ones backed by a signed grant, each use *)
(* of which admits one person beside the signed list.                      *)
(*                                                                         *)
(* One project is modelled.  Each of the two files has its own queue of    *)
(* writers; a writer reads the file, decides, and then writes it.  Readers *)
(* do not queue.  Signatures, secrets, roles and agents are left out: who  *)
(* claims a link has it.                                                   *)
(***************************************************************************)
EXTENDS Naturals, Sequences, FiniteSets

CONSTANTS
  Callers,    \* bound: requests in progress at once
  People,     \* everybody but the owner
  Links,      \* bound: link ids
  Uses,       \* how many people a link may let in
  Nobody,
  MaxHumans,  \* MAX_HUMANS, the owner included (12)
  Skew,       \* GRANT_SKEW_SEC and MAX_FUTURE_SEC, in units of time
  Ttl,        \* TTL_MIN_SEC
  MaxTime,    \* bound of the clock
  MaxFaults   \* bound: failed writes and crashes

ASSUME PeopleType == IsFiniteSet(People) /\ Nobody \notin People \cup Links
ASSUME CallersFinite == IsFiniteSet(Callers)
ASSUME Numbers ==
  /\ Uses \in Nat \ {0} /\ MaxHumans \in Nat \ {0} /\ MaxFaults \in Nat
  /\ Skew \in Nat /\ Ttl \in Nat /\ MaxTime \in Nat \ {0}

\* A link outlives the time in which the grant that made it may be used.
ASSUME GrantsExpireFirst == Ttl > 2 * Skew + 1

VARIABLES
  now,
  link,                      \* invites.json
  signedAt, listed, joined,  \* the roster file: the signed list, who was admitted when
  at, op, who, on,           \* where each request is, what it does, to whom, by which link
  found,                     \* the link a claim has found
  list,                      \* the date and members of a list that is being put
  began,                     \* when each request came in
  iq, rq,                    \* the writers of each file, in order
  draft,                     \* what a writer is going to write
  grantAt,                   \* when a grant for each id was signed, by the owner's clock
  made, letIn,               \* how often each link was made, and has let someone in
  faults

invites == <<link, iq>>
roster == <<signedAt, listed, joined>>
requests == <<at, op, who, on, found, list, began, draft>>
vars == <<now, invites, roster, rq, requests, grantAt, made, letIn, faults>>

NoLink == [kind |-> "none", person |-> Nobody, uses |-> 0, ends |-> 0,
           revoked |-> FALSE, waiting |-> {}]
Link == [kind : {"none", "named", "open", "auto"}, person : People \cup {Nobody},
         uses : 0..Uses, ends : 0..(MaxTime + Ttl), revoked : BOOLEAN,
         waiting : SUBSET People]
NoList == [date |-> 0, members |-> {}]
NoDraft == [link |-> [i \in Links |-> NoLink], date |-> 0, members |-> {},
            joined |-> [p \in People |-> 0]]

TypeOK ==
  /\ now \in 1..MaxTime /\ link \in [Links -> Link]
  /\ signedAt \in Nat /\ listed \subseteq People /\ joined \in [People -> 0..MaxTime]
  /\ at \in [Callers -> {"idle", "find", "member", "seat", "invites", "isave",
                         "roster", "rsave", "check"}]
  /\ op \in [Callers -> {"none", "claim", "create", "revoke", "approve", "decline", "put"}]
  /\ who \in [Callers -> People \cup {Nobody}] /\ on \in [Callers -> Links \cup {Nobody}]
  /\ found \in [Callers -> Link]
  /\ iq \in Seq(Callers) /\ rq \in Seq(Callers)
  /\ made \in [Links -> Nat] /\ letIn \in [Links -> Nat] /\ faults \in 0..MaxFaults

Init ==
  /\ now = 1 /\ link = [i \in Links |-> NoLink]
  /\ signedAt = 0 /\ listed = {} /\ joined = [p \in People |-> 0]
  /\ at = [c \in Callers |-> "idle"] /\ op = [c \in Callers |-> "none"]
  /\ who = [c \in Callers |-> Nobody] /\ on = [c \in Callers |-> Nobody]
  /\ found = [c \in Callers |-> NoLink] /\ list = [c \in Callers |-> NoList]
  /\ began = [c \in Callers |-> 0] /\ draft = [c \in Callers |-> NoDraft]
  /\ iq = <<>> /\ rq = <<>>
  /\ grantAt = [i \in Links |-> 0] /\ made = [i \in Links |-> 0]
  /\ letIn = [i \in Links |-> 0] /\ faults = 0

Fault == faults < MaxFaults /\ faults' = faults + 1
Goto(c, l) == at' = [at EXCEPT ![c] = l]

On(p) == p \in listed \/ joined[p] > 0
Humans == 1 + Cardinality({p \in People : On(p)})
Usable(r) == r.kind # "none" /\ ~r.revoked /\ r.ends > now /\ r.uses > 0

\* Mutant: no queue.
MutHolds(q, c) == \E k \in 1..Len(q) : q[k] = c

\* serial: the writers of a file run one at a time.
Holds(q, c) == q # <<>> /\ q[1] = c

Rest(q, c) == IF Holds(q, c) THEN Tail(q) ELSE q

\* A request comes in ...
Start(c, o, p, i) ==
  /\ at[c] = "idle" /\ op' = [op EXCEPT ![c] = o] /\ who' = [who EXCEPT ![c] = p]
  /\ on' = [on EXCEPT ![c] = i] /\ began' = [began EXCEPT ![c] = now]

\* ... and is answered, or throws.
Return(c) ==
  /\ Goto(c, "idle") /\ op' = [op EXCEPT ![c] = "none"]
  /\ who' = [who EXCEPT ![c] = Nobody] /\ on' = [on EXCEPT ![c] = Nobody]
  /\ found' = [found EXCEPT ![c] = NoLink] /\ list' = [list EXCEPT ![c] = NoList]
  /\ began' = [began EXCEPT ![c] = 0] /\ draft' = [draft EXCEPT ![c] = NoDraft]
  /\ iq' = Rest(iq, c) /\ rq' = Rest(rq, c)

Stay == UNCHANGED <<op, who, on, list, began, draft>>
Files == UNCHANGED <<now, link, roster, grantAt, made, letIn>>

QueueInvites(c) == iq' = Append(iq, c) /\ Goto(c, "invites") /\ UNCHANGED rq
QueueRoster(c) == rq' = Append(rq, c) /\ Goto(c, "roster") /\ iq' = Rest(iq, c)

(***************************************************************************)
(* POST /api/team/invite/claim                                             *)
(***************************************************************************)
\* A signed challenge and a link.
Claim(c, p, i) ==
  /\ Start(c, "claim", p, i) /\ Goto(c, "find")
  /\ Files /\ UNCHANGED <<found, list, draft, iq, rq, faults>>

Find(c) ==
  /\ at[c] = "find"
  /\ IF Usable(link[on[c]])
       THEN /\ found' = [found EXCEPT ![c] = link[on[c]]] /\ Goto(c, "member")
            /\ Stay /\ UNCHANGED <<iq, rq>>
       ELSE Return(c)
  /\ Files /\ UNCHANGED faults

\* A member is signed in; a named link is spent; others need a seat.
Member(c) ==
  /\ at[c] = "member"
  /\ IF found[c].kind = "named"
       THEN IF found[c].person = who[c] /\ On(who[c])
              THEN QueueInvites(c) /\ Stay /\ UNCHANGED found
              ELSE Return(c)
       ELSE IF On(who[c]) THEN Return(c)
            ELSE Goto(c, "seat") /\ Stay /\ UNCHANGED <<found, iq, rq>>
  /\ Files /\ UNCHANGED faults

Seat(c) ==
  /\ at[c] = "seat"
  /\ IF Humans < MaxHumans THEN QueueInvites(c) /\ Stay /\ UNCHANGED found ELSE Return(c)
  /\ Files /\ UNCHANGED faults

(***************************************************************************)
(* The owner's routes                                                      *)
(***************************************************************************)
\* Ids are random: one is used for a grant or for another link.
Fresh(i) == grantAt[i] = 0 /\ made[i] = 0 /\ \A c \in Callers : on[c] # i

SignGrant(i, t) ==
  /\ Fresh(i) /\ t \in 1..MaxTime /\ t <= now + Skew /\ now <= t + Skew
  /\ grantAt' = [grantAt EXCEPT ![i] = t]
  /\ UNCHANGED <<now, invites, roster, rq, requests, made, letIn, faults>>

\* For a member, for whoever asks while there are seats ...
CreateNamed(c, p, i) ==
  /\ Fresh(i) /\ On(p)
  /\ Start(c, "create", p, i)
  /\ found' = [found EXCEPT ![c] = [NoLink EXCEPT !.kind = "named", !.person = p, !.uses = 1]]
  /\ QueueInvites(c) /\ Files /\ UNCHANGED <<list, draft, faults>>

CreateOpen(c, i) ==
  /\ Fresh(i) /\ Humans < MaxHumans
  /\ Start(c, "create", Nobody, i)
  /\ found' = [found EXCEPT ![c] = [NoLink EXCEPT !.kind = "open", !.uses = Uses]]
  /\ QueueInvites(c) /\ Files /\ UNCHANGED <<list, draft, faults>>

\* Mutant: a grant stays good.
MutCreateAuto(c, i) ==
  /\ grantAt[i] > 0 /\ Humans < MaxHumans
  /\ Start(c, "create", Nobody, i)
  /\ found' = [found EXCEPT ![c] = [NoLink EXCEPT !.kind = "auto", !.uses = Uses]]
  /\ QueueInvites(c) /\ Files /\ UNCHANGED <<list, draft, faults>>

\* ... or by a grant, whose date is checked before the call waits for its turn.
CreateAuto(c, i) ==
  /\ grantAt[i] > 0 /\ Humans < MaxHumans
  /\ grantAt[i] <= now + Skew /\ now <= grantAt[i] + Skew
  /\ Start(c, "create", Nobody, i)
  /\ found' = [found EXCEPT ![c] = [NoLink EXCEPT !.kind = "auto", !.uses = Uses]]
  /\ QueueInvites(c) /\ Files /\ UNCHANGED <<list, draft, faults>>

Revoke(c, i) ==
  /\ Start(c, "revoke", Nobody, i) /\ QueueInvites(c)
  /\ Files /\ UNCHANGED <<found, list, draft, faults>>

\* The owner decides on a request that was shown; decide() looks for it again.
Decline(c, p, i) ==
  /\ p \in link[i].waiting
  /\ Start(c, "decline", p, i) /\ QueueInvites(c)
  /\ Files /\ UNCHANGED <<found, list, draft, faults>>

Approve(c, p, i) ==
  /\ p \in link[i].waiting
  /\ Start(c, "approve", p, i) /\ Goto(c, "check")
  /\ Files /\ UNCHANGED <<found, list, draft, iq, rq, faults>>

\* Approval follows the signed list.
ApproveCheck(c) ==
  /\ at[c] = "check"
  /\ IF On(who[c]) THEN QueueInvites(c) /\ Stay /\ UNCHANGED found ELSE Return(c)
  /\ Files /\ UNCHANGED faults

\* A list the owner has signed arrives, perhaps long after it was signed.
Put(c, t, S) ==
  /\ Start(c, "put", Nobody, Nobody) /\ list' = [list EXCEPT ![c] = [date |-> t, members |-> S]]
  /\ QueueRoster(c)
  /\ Files /\ UNCHANGED <<found, draft, faults>>

(***************************************************************************)
(* team-invites.mjs: what each operation does to invites.json              *)
(***************************************************************************)
\* What a claim does to its link, if it still matches.
Claimed(r, p) ==
  IF ~Usable(r) THEN {}
  ELSE CASE r.kind = "named" -> {[r EXCEPT !.uses = 0]}
         [] r.kind = "auto"  -> {[r EXCEPT !.uses = @ - 1]}
         [] r.kind = "open"  -> {[r EXCEPT !.waiting = @ \cup {p}]}

Revoked(r) == IF r.kind = "none" THEN {} ELSE {[r EXCEPT !.revoked = TRUE, !.waiting = {}]}

\* decide: approving spends a use, and the last one sends the others away.
Decided(r, p, approve) ==
  LET left == IF approve /\ r.uses > 0 THEN r.uses - 1 ELSE r.uses IN
  IF p \notin r.waiting THEN {}
  ELSE {[r EXCEPT !.uses = left,
                  !.waiting = IF approve /\ left = 0 THEN {} ELSE @ \ {p}]}

Result(c) ==
  LET r == link[on[c]] IN
  CASE op[c] = "claim"   -> Claimed(r, who[c])
    [] op[c] = "revoke"  -> Revoked(r)
    [] op[c] = "approve" -> Decided(r, who[c], TRUE)
    [] op[c] = "decline" -> Decided(r, who[c], FALSE)
    [] op[c] = "create"  -> IF r.kind = "none" THEN {[found[c] EXCEPT !.ends = now + Ttl]}
                            ELSE {}   \* one grant, one link

\* load() and the operation; nothing is written when it refuses.
InvitesLoad(c) ==
  /\ at[c] = "invites" /\ Holds(iq, c)
  /\ IF Result(c) = {} THEN Return(c)
     ELSE /\ \E r \in Result(c) :
               draft' = [draft EXCEPT ![c].link = [link EXCEPT ![on[c]] = r]]
          /\ Goto(c, "isave") /\ UNCHANGED <<op, who, on, found, list, began, iq, rq>>
  /\ Files /\ UNCHANGED faults

\* save() prunes what has expired.
InvitesSave(c) ==
  /\ at[c] = "isave" /\ Holds(iq, c)
  /\ link' = [i \in Links |-> IF draft[c].link[i].ends <= now THEN NoLink
                              ELSE draft[c].link[i]]
  /\ IF op[c] = "claim" /\ found[c].kind = "auto"
       THEN QueueRoster(c) /\ Stay /\ UNCHANGED found
       ELSE Return(c)
  /\ made' = IF op[c] = "create" THEN [made EXCEPT ![on[c]] = @ + 1] ELSE made
  /\ letIn' = IF op[c] = "approve" THEN [letIn EXCEPT ![on[c]] = @ + 1] ELSE letIn
  /\ UNCHANGED <<now, roster, grantAt, faults>>

(***************************************************************************)
(* roster.mjs: put() and admit()                                           *)
(***************************************************************************)
PutOk(l) ==
  l.date > signedAt /\ l.date <= now + Skew /\ 1 + Cardinality(l.members) <= MaxHumans

\* Mutant: only those the list names stay.
MutKept(l) == [p \in People |-> 0]

\* Admitted people the list names are in it; of the others those stay who were
\* admitted after it was signed.
Kept(l) == [p \in People |-> IF p \notin l.members /\ joined[p] > l.date THEN joined[p] ELSE 0]

RosterLoad(c) ==
  /\ at[c] = "roster" /\ Holds(rq, c)
  /\ IF IF op[c] = "put" THEN ~PutOk(list[c]) ELSE On(who[c]) \/ Humans >= MaxHumans
       THEN Return(c)
       ELSE /\ draft' = [draft EXCEPT
                 ![c].date = IF op[c] = "put" THEN list[c].date ELSE signedAt,
                 ![c].members = IF op[c] = "put" THEN list[c].members ELSE listed,
                 ![c].joined = IF op[c] = "put" THEN Kept(list[c])
                               ELSE [joined EXCEPT ![who[c]] = now]]
            /\ Goto(c, "rsave") /\ UNCHANGED <<op, who, on, found, list, began, iq, rq>>
  /\ Files /\ UNCHANGED faults

RosterSave(c) ==
  /\ at[c] = "rsave" /\ Holds(rq, c)
  /\ signedAt' = draft[c].date /\ listed' = draft[c].members /\ joined' = draft[c].joined
  /\ letIn' = IF op[c] = "claim" THEN [letIn EXCEPT ![on[c]] = @ + 1] ELSE letIn
  /\ Return(c)
  /\ UNCHANGED <<now, link, grantAt, made, faults>>

(***************************************************************************)
(* Failures and time                                                       *)
(***************************************************************************)
WriteFails(c) ==
  /\ at[c] \in {"isave", "rsave"} /\ Fault /\ Return(c) /\ Files

Crash ==
  /\ Fault /\ (\E c \in Callers : at[c] # "idle")
  /\ at' = [c \in Callers |-> "idle"] /\ op' = [c \in Callers |-> "none"]
  /\ who' = [c \in Callers |-> Nobody] /\ on' = [c \in Callers |-> Nobody]
  /\ found' = [c \in Callers |-> NoLink] /\ list' = [c \in Callers |-> NoList]
  /\ began' = [c \in Callers |-> 0] /\ draft' = [c \in Callers |-> NoDraft]
  /\ iq' = <<>> /\ rq' = <<>>
  /\ Files

\* A unit of time is ten minutes: no request lasts as long.
Tick ==
  /\ now < MaxTime /\ (\A c \in Callers : at[c] # "idle" => began[c] = now)
  /\ now' = now + 1
  /\ UNCHANGED <<invites, roster, rq, requests, grantAt, made, letIn, faults>>

Step(c) ==
  \/ Find(c) \/ Member(c) \/ Seat(c) \/ ApproveCheck(c)
  \/ InvitesLoad(c) \/ InvitesSave(c) \/ RosterLoad(c) \/ RosterSave(c) \/ WriteFails(c)

Request(c) ==
  \/ \E p \in People, i \in Links :
       \/ Claim(c, p, i) \/ Decline(c, p, i) \/ Approve(c, p, i) \/ CreateNamed(c, p, i)
  \/ \E i \in Links : Revoke(c, i) \/ CreateOpen(c, i) \/ CreateAuto(c, i)
  \/ \E t \in 1..MaxTime, S \in SUBSET People : Put(c, t, S)

Next ==
  \/ \E c \in Callers : Step(c) \/ Request(c)
  \/ \E i \in Links, t \in 1..MaxTime : SignGrant(i, t)
  \/ Crash \/ Tick

Spec == Init /\ [][Next]_vars

(***************************************************************************)
(* What must hold                                                          *)
(***************************************************************************)
\* A link lets in no more people than it was made for, however many claims and
\* approvals overlap, fail half-way or are cut off by a crash; and one grant makes
\* one link (team-invites.mjs): a grant stays fresh for twice the skew, which ends
\* before the link it made can expire and be pruned.
LinkServesAsMade == TypeOK /\ \A i \in Links : letIn[i] <= Uses /\ made[i] <= 1

\* A revoked link stays revoked, and serves nobody, until it is pruned.
RevokedForGood ==
  [][\A i \in Links : link[i].revoked =>
        link'[i] = NoLink \/ (link'[i].revoked /\ link'[i].uses = link[i].uses)]_vars

\* The signed list is never rolled back, and no admission is lost except to a list
\* signed at or after it (the queue of roster.mjs and its test of created_at).
MembershipKept ==
  [][/\ signedAt' >= signedAt /\ (listed' # listed => signedAt' > signedAt)
     /\ \A p \in People : joined[p] > 0 =>
          \/ p \in listed' \/ joined'[p] > 0
          \/ (signedAt' > signedAt /\ joined[p] <= signedAt')]_vars
=============================================================================
