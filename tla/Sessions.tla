------------------------------ MODULE Sessions ------------------------------
(***************************************************************************)
(* agent/core/auth.mjs with persistAdminNpub of config.mjs: who is let in. *)
(* A login presents a signed challenge; the first login ever claims the    *)
(* machine, which is written to config.yaml.  Sessions are tokens that the *)
(* server does not keep.  The owner's token can be renewed and exchanged   *)
(* for a member's; a member's can be renewed; somebody who waits for the   *)
(* owner's approval has a token that becomes a member's.                   *)
(*                                                                         *)
(* Signatures and MACs are left out: a token is in one of the sets below   *)
(* if the server has made it.  Whether a link lets a person in, and the    *)
(* member lists, are TeamAccess; here they are any.  The owner is never    *)
(* replaced by editing config.yaml.                                        *)
(***************************************************************************)
EXTENDS Naturals, FiniteSets

CONSTANTS
  Callers,        \* bound: requests in progress at once
  People, Nobody,
  Torn,           \* what a write that was cut off leaves
  Challenges,     \* bound: challenges ever made
  MaxChallenges,  \* rate_limit.max_challenges
  ChallengeTtl,   \* CHALLENGE_TTL_SEC
  Ttl,            \* session_ttl_sec
  MaxLife,        \* session_max_lifetime_sec
  PendingTtl,     \* how long an invite link can last
  MaxTime, MaxTokens, MaxFaults  \* bounds: the clock, tokens in use, failed writes and crashes

ASSUME PeopleType == Nobody \notin People /\ Torn \notin People \cup {Nobody}
ASSUME Numbers ==
  /\ MaxChallenges \in Nat \ {0} /\ ChallengeTtl \in Nat /\ Ttl \in Nat /\ PendingTtl \in Nat
  /\ MaxLife \in Nat /\ Ttl <= MaxLife   \* loadConfig raises it
  /\ MaxTime \in Nat /\ MaxTokens \in Nat /\ MaxFaults \in Nat

VARIABLES
  now, up,
  expires,       \* the challenges Map: when each ends, 0 if it is not there
  file,          \* admin_npub of config.yaml
  admin,         \* adminHex
  claimant,      \* claimInFlight: who is becoming the owner
  at, who, since, \* each request: where it is, whose, the original sign-in it goes back to
  began,         \* when it came in
  owners,        \* tokens <<person, sign-in, end>> of the owner
  members,       \* ... of members
  waiting,       \* tokens <<person, end>> of those who wait
  known, used,   \* the challenges made so far, and how often each let somebody in
  signed,        \* who has signed a challenge when
  served,        \* who has ever been given an owner's token
  faults

requests == <<at, who, since, began>>
tokens == <<owners, members, waiting>>
history == <<known, used, signed, served>>
vars == <<now, up, expires, file, admin, claimant, requests, tokens, history, faults>>

Live == {x \in Challenges : expires[x] > 0}

TypeOK ==
  /\ now \in Nat \ {0} /\ up \in BOOLEAN
  /\ expires \in [Challenges -> Nat]
  /\ file \in People \cup {Nobody, Torn} /\ admin \in People \cup {Nobody}
  /\ claimant \in People \cup {Nobody}
  /\ at \in [Callers -> {"idle", "claim", "claimed", "failed", "login", "member",
                         "invite", "renew", "swap"}]
  /\ who \in [Callers -> People \cup {Nobody}]
  /\ since \in [Callers -> Nat] /\ began \in [Callers -> Nat]
  /\ owners \subseteq People \X Nat \X Nat /\ members \subseteq People \X Nat \X Nat
  /\ waiting \subseteq People \X Nat
  /\ known \subseteq Challenges /\ used \in [Challenges -> Nat]
  /\ signed \subseteq People \X Nat /\ served \subseteq People
  /\ faults \in Nat

Init ==
  /\ now = 1 /\ up = TRUE
  /\ expires = [x \in Challenges |-> 0]
  /\ file = Nobody /\ admin = Nobody /\ claimant = Nobody
  /\ at = [c \in Callers |-> "idle"] /\ who = [c \in Callers |-> Nobody]
  /\ since = [c \in Callers |-> 0] /\ began = [c \in Callers |-> 0]
  /\ owners = {} /\ members = {} /\ waiting = {}
  /\ known = {} /\ used = [x \in Challenges |-> 0] /\ signed = {} /\ served = {}
  /\ faults = 0

Least(a, b) == IF a <= b THEN a ELSE b
Fault == faults < MaxFaults /\ faults' = faults + 1
Room == Cardinality(owners) + Cardinality(members) + Cardinality(waiting) < MaxTokens

Await(c, l, p, t) ==
  /\ at' = [at EXCEPT ![c] = l] /\ who' = [who EXCEPT ![c] = p]
  /\ since' = [since EXCEPT ![c] = t] /\ began' = [began EXCEPT ![c] = now]
Goto(c, l) == at' = [at EXCEPT ![c] = l] /\ UNCHANGED <<who, since, began>>
Return(c) ==
  /\ at' = [at EXCEPT ![c] = "idle"] /\ who' = [who EXCEPT ![c] = Nobody]
  /\ since' = [since EXCEPT ![c] = 0] /\ began' = [began EXCEPT ![c] = 0]

(***************************************************************************)
(* Tokens                                                                  *)
(***************************************************************************)
\* When a token of this sign-in that is made now ends.
End(t) == Least(now + Ttl, t + MaxLife)

IssueOwner(t) ==
  /\ Room /\ owners' = owners \cup {<<admin, t, End(t)>>}
  /\ served' = served \cup {admin} /\ UNCHANGED <<members, waiting>>

IssueMember(p, t) ==
  /\ Room /\ members' = members \cup {<<p, t, End(t)>>}
  /\ UNCHANGED <<owners, waiting, served>>

IssuePending(p, e) ==
  /\ Room /\ waiting' = waiting \cup {<<p, e>>}
  /\ UNCHANGED <<owners, members, served>>

NoToken == UNCHANGED <<tokens, served>>

(***************************************************************************)
(* Challenges                                                              *)
(***************************************************************************)
Current == {x \in Live : expires[x] >= now}

\* gc() and enforceCap(): what expired goes, and the oldest if there is no room.
Keeps(kept) ==
  /\ kept \subseteq Current
  /\ IF Cardinality(Current) < MaxChallenges THEN kept = Current
     ELSE /\ Cardinality(kept) = MaxChallenges - 1
          /\ \A x \in kept, y \in Current \ kept : expires[y] <= expires[x]

IssueChallenge(x) ==
  /\ up /\ x \notin known
  /\ \E kept \in SUBSET Current : Keeps(kept) /\
       expires' = [y \in Challenges |-> IF y = x THEN now + ChallengeTtl
                                        ELSE IF y \in kept THEN expires[y] ELSE 0]
  /\ known' = known \cup {x}
  /\ UNCHANGED <<now, up, file, admin, claimant, requests, tokens, used, signed,
                 served, faults>>

\* Somebody signs a challenge and presents it: a good one is used up.
Consume(p, x) ==
  /\ up /\ x \in Current
  /\ expires' = [expires EXCEPT ![x] = 0]
  /\ used' = [used EXCEPT ![x] = @ + 1] /\ signed' = signed \cup {<<p, now>>}
  /\ UNCHANGED known

Expired(x) ==
  /\ up /\ x \in Live \ Current /\ expires' = [expires EXCEPT ![x] = 0]
  /\ UNCHANGED <<now, up, file, admin, claimant, requests, tokens, history, faults>>

(***************************************************************************)
(* verifyChallenge() and claimAdmin()                                      *)
(***************************************************************************)
\* Mutant: a second claim is not refused.
MutMayClaim == TRUE

MayClaim == claimant = Nobody

Login(c, p, x) ==
  /\ at[c] = "idle" /\ admin \in {Nobody, p} /\ Consume(p, x)
  /\ IF admin = p THEN IssueOwner(now) /\ UNCHANGED <<claimant, requests>>
     ELSE IF MayClaim THEN Await(c, "claim", p, now) /\ claimant' = p /\ NoToken
     ELSE UNCHANGED <<claimant, requests>> /\ NoToken
  /\ UNCHANGED <<now, up, file, admin, faults>>

Persist(c) ==
  /\ up /\ at[c] = "claim" /\ file' = who[c] /\ Goto(c, "claimed")
  /\ UNCHANGED <<now, up, expires, admin, claimant, tokens, history, faults>>

\* The write is done in place: it can fail before, within or after it.
PersistFails(c) ==
  /\ up /\ at[c] = "claim" /\ Fault
  /\ file' \in {file, who[c], Torn} /\ Goto(c, "failed")
  /\ UNCHANGED <<now, up, expires, admin, claimant, tokens, history>>

Claimed(c) ==
  /\ up /\ at[c] = "claimed" /\ claimant' = Nobody /\ admin' = who[c] /\ Goto(c, "login")
  /\ UNCHANGED <<now, up, expires, file, tokens, history, faults>>

\* Mutant: only a success ends the claim.
MutClaimFailed(c) ==
  /\ up /\ at[c] = "failed" /\ Return(c)
  /\ UNCHANGED <<now, up, expires, file, admin, claimant, tokens, history, faults>>

ClaimFailed(c) ==
  /\ up /\ at[c] = "failed" /\ claimant' = Nobody /\ Return(c)
  /\ UNCHANGED <<now, up, expires, file, admin, tokens, history, faults>>

LoggedIn(c) ==
  /\ up /\ at[c] = "login" /\ IssueOwner(now) /\ Return(c)
  /\ UNCHANGED <<now, up, expires, file, admin, claimant, known, used, signed, faults>>

(***************************************************************************)
(* refreshSession(), handoffOwnerToken(), verifyActionSignature()          *)
(***************************************************************************)
OwnerToken(p, t, e) == up /\ <<p, t, e>> \in owners /\ e >= now /\ p = admin

\* Mutant: a renewal counts as a sign-in.
MutRefresh(p, t, e) ==
  /\ OwnerToken(p, t, e) /\ now < t + MaxLife /\ IssueOwner(now)
  /\ UNCHANGED <<now, up, expires, file, admin, claimant, requests, known, used,
                 signed, faults>>

Refresh(p, t, e) ==
  /\ OwnerToken(p, t, e) /\ now < t + MaxLife /\ IssueOwner(t)
  /\ UNCHANGED <<now, up, expires, file, admin, claimant, requests, known, used,
                 signed, faults>>

Handoff(p, t, e) ==
  /\ OwnerToken(p, t, e) /\ IssueMember(p, t)
  /\ UNCHANGED <<now, up, expires, file, admin, claimant, requests, known, used,
                 signed, faults>>

\* An approval the owner signs uses a challenge like a login.
Act(p, x) ==
  /\ admin = p /\ Consume(p, x) /\ NoToken
  /\ UNCHANGED <<now, up, file, admin, claimant, requests, faults>>

(***************************************************************************)
(* Members                                                                 *)
(***************************************************************************)
\* Mutant: the challenge is used up only when the answer is known.
MutMemberLogin(c, p, x) ==
  /\ at[c] = "idle" /\ up /\ x \in Current
  /\ used' = [used EXCEPT ![x] = @ + 1] /\ signed' = signed \cup {<<p, now>>}
  /\ Await(c, "member", p, now) /\ NoToken
  /\ UNCHANGED <<now, up, expires, file, admin, claimant, known, faults>>

MemberLogin(c, p, x) ==
  /\ at[c] = "idle" /\ Consume(p, x)
  /\ IF admin = p THEN IssueMember(p, now) /\ UNCHANGED requests
     ELSE Await(c, "member", p, now) /\ NoToken
  /\ UNCHANGED <<now, up, file, admin, claimant, faults>>

\* The member lists are read, and may name the caller or not; a login and a swap are
\* sign-ins of now.
Listed(c, l, t) ==
  /\ up /\ at[c] = l /\ Return(c)
  /\ IssueMember(who[c], t) \/ NoToken
  /\ UNCHANGED <<now, up, expires, file, admin, claimant, known, used, signed, faults>>

MemberListed(c) == Listed(c, "member", now)

\* Mutant: a renewal starts the session afresh.
MutRenewListed(c) == Listed(c, "renew", now)
RenewListed(c) == Listed(c, "renew", since[c])

SwapListed(c) == Listed(c, "swap", now)

Renew(c, p, t, e) ==
  /\ up /\ at[c] = "idle" /\ <<p, t, e>> \in members /\ e >= now /\ now < t + MaxLife
  /\ IF p = admin THEN IssueMember(p, t) /\ UNCHANGED requests
     ELSE Await(c, "renew", p, t) /\ NoToken
  /\ UNCHANGED <<now, up, expires, file, admin, claimant, known, used, signed, faults>>

\* refreshPending
Swap(c, p, e) ==
  /\ up /\ at[c] = "idle" /\ <<p, e>> \in waiting /\ e >= now
  /\ Await(c, "swap", p, now) /\ NoToken
  /\ UNCHANGED <<now, up, expires, file, admin, claimant, known, used, signed, faults>>

\* A claim of an invite link ...
InviteLogin(c, p, x) ==
  /\ at[c] = "idle" /\ Consume(p, x) /\ Await(c, "invite", p, now) /\ NoToken
  /\ UNCHANGED <<now, up, file, admin, claimant, faults>>

\* ... admits, makes wait, or is refused.
Invited(c) ==
  /\ up /\ at[c] = "invite" /\ Return(c)
  /\ \/ IssueMember(who[c], now)
     \/ \E e \in now..(now + PendingTtl) : IssuePending(who[c], e)
     \/ NoToken
  /\ UNCHANGED <<now, up, expires, file, admin, claimant, known, used, signed, faults>>

(***************************************************************************)
(* Around the daemon                                                       *)
(***************************************************************************)
\* Clients lose tokens, or throw away what has been renewed.
Forget ==
  /\ \/ \E o \in owners : owners' = owners \ {o} /\ UNCHANGED <<members, waiting>>
     \/ \E m \in members : members' = members \ {m} /\ UNCHANGED <<owners, waiting>>
     \/ \E w \in waiting : waiting' = waiting \ {w} /\ UNCHANGED <<owners, members>>
  /\ UNCHANGED <<now, up, expires, file, admin, claimant, requests, history, faults>>

\* Challenges and requests are lost; a write may be cut off.
Crash ==
  /\ up /\ Fault /\ up' = FALSE
  /\ \/ UNCHANGED file
     \/ \E c \in Callers : at[c] = "claim" /\ file' \in {who[c], Torn}
  /\ expires' = [x \in Challenges |-> 0] /\ admin' = Nobody /\ claimant' = Nobody
  /\ at' = [c \in Callers |-> "idle"] /\ who' = [c \in Callers |-> Nobody]
  /\ since' = [c \in Callers |-> 0] /\ began' = [c \in Callers |-> 0]
  /\ UNCHANGED <<now, tokens, history>>

\* loadConfig() refuses a torn file.
Boot ==
  /\ ~up /\ file # Torn /\ up' = TRUE /\ admin' = file
  /\ UNCHANGED <<now, expires, file, claimant, requests, tokens, history, faults>>

\* A request lasts less than a unit of time.
Tick ==
  /\ now < MaxTime /\ (\A c \in Callers : at[c] # "idle" => began[c] = now)
  /\ now' = now + 1
  /\ UNCHANGED <<up, expires, file, admin, claimant, requests, tokens, history, faults>>

Step(c) ==
  \/ Persist(c) \/ PersistFails(c) \/ Claimed(c) \/ ClaimFailed(c) \/ LoggedIn(c)
  \/ MemberListed(c) \/ RenewListed(c) \/ SwapListed(c) \/ Invited(c)

Request ==
  \/ \E x \in Challenges : IssueChallenge(x) \/ Expired(x) \/ \E p \in People : Act(p, x)
  \/ \E c \in Callers, p \in People, x \in Challenges :
       Login(c, p, x) \/ MemberLogin(c, p, x) \/ InviteLogin(c, p, x)
  \/ \E p \in People, t \in 1..MaxTime, e \in 1..(MaxTime + Ttl) :
       Refresh(p, t, e) \/ Handoff(p, t, e) \/ \E c \in Callers : Renew(c, p, t, e)
  \/ \E c \in Callers, p \in People, e \in 1..(MaxTime + PendingTtl) : Swap(c, p, e)

Next ==
  \/ (\E c \in Callers : Step(c)) \/ Request
  \/ Forget \/ Crash \/ Boot \/ Tick

Spec == Init /\ [][Next]_vars

\* Between two awaits code always runs on, and a write ends.
Fairness == \A c \in Callers : WF_vars(Persist(c) \/ PersistFails(c)) /\ WF_vars(Claimed(c))
                               /\ WF_vars(ClaimFailed(c))
FairSpec == Spec /\ Fairness

(***************************************************************************)
(* What must hold                                                          *)
(***************************************************************************)
\* "Consume the challenge so it can't be replayed": logins, members, invites and
\* signed actions share one pool, and some of them go on after an await.
SingleUse == TypeOK /\ \A x \in Challenges : used[x] <= 1

\* verifyChallenge: "Persist BEFORE issuing a token so a crash mid-claim never leaves
\* a live session for an unpersisted admin".  So two first logins that overlap, or a
\* failed write and a second attempt, never make two owners.
OwnerPersisted == \A p \in served : file = p

Signed(p, t) == <<p, t>> \in signed \/ (t > 0 /\ <<p, t - 1>> \in signed)

\* agent/README.md: renewals cannot extend the session's origin.  An owner's token
\* goes back to a signature within MaxLife of its end, through any number of renewals.
OwnerBounded == \A k \in owners : Signed(k[1], k[2]) /\ k[3] <= k[2] + MaxLife

\* So does a member's, except for the time its holder waited with a pending token.
MemberBounded ==
  \A k \in members : \E t \in 0..k[2] :
    Signed(k[1], t) /\ k[3] <= t + PendingTtl + 1 + MaxLife
\* A claim ends, failed or not, and the machine can be claimed again.
ClaimEnds == claimant # Nobody ~> claimant = Nobody
=============================================================================
