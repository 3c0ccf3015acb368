--------------------------- MODULE Sessions_proof ---------------------------
(***************************************************************************)
(* Proofs about Sessions, for any people, challenges, times and bounds.    *)
(* The inductive invariant has four parts beside the types: a challenge is *)
(* in the Map only if it was made and has let nobody in (Unused); who may  *)
(* be about to become the owner, and what config.yaml then says            *)
(* (ClaimInv); a request in progress started within the last unit of time  *)
(* with a signature (RequestInv); and where every token comes from         *)
(* (TokenInv).                                                             *)
(***************************************************************************)
EXTENDS Sessions, FiniteSetTheorems, TLAPS

Unused ==
  \A x \in Challenges :
    /\ expires[x] > 0 => x \in known /\ used[x] = 0
    /\ x \notin known => used[x] = 0
    /\ used[x] <= 1

Claiming == {"claim", "claimed", "failed"}

ClaimInv ==
  /\ ~up => admin = Nobody /\ \A c \in Callers : at[c] = "idle"
  /\ up /\ admin # Nobody => file = admin
  /\ up /\ admin = Nobody => served = {}
  /\ \A c \in Callers :
       /\ at[c] \in Claiming => admin = Nobody /\ claimant = who[c]
       /\ at[c] = "claimed" => file = who[c]
       /\ at[c] = "login" => admin = who[c]
       /\ at[c] # "idle" => who[c] \in People
  /\ \A c, d \in Callers : at[c] \in Claiming /\ at[d] \in Claiming => c = d
  /\ OwnerPersisted

\* Somebody who signed by t may be given a member's session of origin o.
From(p, t, o) == Signed(p, t) /\ t <= o /\ o <= t + PendingTtl + 1
Origin(p, o) == \E t \in Nat : From(p, t, o)

RequestInv ==
  \A c \in Callers : at[c] # "idle" =>
    /\ began[c] > 0 /\ began[c] <= now /\ now <= began[c] + 1
    /\ at[c] \notin {"renew", "swap"} => <<who[c], began[c]>> \in signed
    /\ at[c] = "renew" => Origin(who[c], since[c])
    /\ at[c] = "swap" =>
         \E t \in Nat : Signed(who[c], t) /\ t <= began[c] /\ began[c] <= t + PendingTtl

TokenInv ==
  /\ \A p \in People, o, e \in Nat : <<p, o, e>> \in owners => Signed(p, o) /\ e <= o + MaxLife
  /\ \A p \in People, o, e \in Nat : <<p, o, e>> \in members => Origin(p, o) /\ e <= o + MaxLife
  /\ \A p \in People, e \in Nat : <<p, e>> \in waiting =>
       \E t \in Nat : Signed(p, t) /\ t <= now /\ e <= t + PendingTtl

IInv == TypeOK /\ Unused /\ ClaimInv /\ RequestInv /\ TokenInv

(***************************************************************************)
(* Types                                                                   *)
(***************************************************************************)
Places == {"idle", "claim", "claimed", "failed", "login", "member", "invite", "renew", "swap"}

RequestType ==
  /\ at \in [Callers -> Places] /\ who \in [Callers -> People \cup {Nobody}]
  /\ since \in [Callers -> Nat] /\ began \in [Callers -> Nat]

TokenType ==
  /\ owners \subseteq People \X Nat \X Nat /\ members \subseteq People \X Nat \X Nat
  /\ waiting \subseteq People \X Nat /\ served \subseteq People

\* The end of a token is a time, not after the session's.
LEMMA EndType ==
  ASSUME now \in Nat, NEW t \in Nat
  PROVE  End(t) \in Nat /\ End(t) <= t + MaxLife
BY Numbers DEF End, Least

LEMMA AwaitType ==
  ASSUME RequestType, now \in Nat, NEW c \in Callers, NEW l \in Places, NEW p \in People,
         NEW t \in Nat, Await(c, l, p, t)
  PROVE  RequestType'
BY DEF RequestType, Await

LEMMA GotoType ==
  ASSUME RequestType, NEW c \in Callers, NEW l \in Places, Goto(c, l)
  PROVE  RequestType'
BY DEF RequestType, Goto

LEMMA ReturnType ==
  ASSUME RequestType, NEW c \in Callers, Return(c)
  PROVE  RequestType'
BY DEF RequestType, Return, Places

LEMMA IssueOwnerType ==
  ASSUME TokenType, now \in Nat, admin \in People, NEW t \in Nat, IssueOwner(t)
  PROVE  TokenType'
BY EndType DEF TokenType, IssueOwner

LEMMA IssueMemberType ==
  ASSUME TokenType, now \in Nat, NEW p \in People, NEW t \in Nat, IssueMember(p, t)
  PROVE  TokenType'
BY EndType DEF TokenType, IssueMember

LEMMA IssuePendingType ==
  ASSUME TokenType, NEW p \in People, NEW e \in Nat, IssuePending(p, e)
  PROVE  TokenType'
BY DEF TokenType, IssuePending

LEMMA NoTokenType ==
  ASSUME TokenType, NoToken
  PROVE  TokenType'
BY DEF TokenType, NoToken, tokens

\* What a good signature changes.
HistoryType ==
  /\ expires \in [Challenges -> Nat] /\ known \subseteq Challenges
  /\ used \in [Challenges -> Nat] /\ signed \subseteq People \X Nat

LEMMA ConsumeType ==
  ASSUME HistoryType, now \in Nat, NEW p \in People, NEW x \in Challenges, Consume(p, x)
  PROVE  HistoryType' /\ up
BY DEF HistoryType, Consume

MachineType ==
  /\ now \in Nat \ {0} /\ up \in BOOLEAN
  /\ file \in People \cup {Nobody, Torn} /\ admin \in People \cup {Nobody}
  /\ claimant \in People \cup {Nobody} /\ faults \in Nat

LEMMA Types ==
  /\ TypeOK <=> MachineType /\ RequestType /\ TokenType /\ HistoryType
  /\ TypeOK' <=> MachineType' /\ RequestType' /\ TokenType' /\ HistoryType'
<1>1. TypeOK <=> MachineType /\ RequestType /\ TokenType /\ HistoryType
  BY DEF TypeOK, MachineType, RequestType, TokenType, HistoryType, Places
<1>2. TypeOK' <=> MachineType' /\ RequestType' /\ TokenType' /\ HistoryType'
  BY DEF TypeOK, MachineType, RequestType, TokenType, HistoryType, Places
<1> QED
  BY <1>1, <1>2

LEMMA MachineKept ==
  ASSUME MachineType, UNCHANGED <<now, up, file, admin, claimant, faults>>
  PROVE  MachineType'
<1>1. up' \in BOOLEAN
  BY Zenon DEF MachineType
<1> QED
  BY <1>1 DEF MachineType

LEMMA HistoryKept ==
  ASSUME HistoryType, UNCHANGED <<expires, known, used, signed>>
  PROVE  HistoryType'
BY DEF HistoryType

\* Steps of a request that has begun.
LEMMA StepType ==
  ASSUME TypeOK, ClaimInv, NEW c \in Callers, Step(c)
  PROVE  TypeOK'
<1> USE Types
<1>0. at[c] # "idle" => who[c] \in People
  BY DEF ClaimInv
<1>1. CASE Persist(c)
  BY <1>0, <1>1, GotoType DEF Persist, MachineType, TokenType, HistoryType, tokens, history, Places
<1>2. CASE PersistFails(c)
  BY <1>0, <1>2, GotoType DEF PersistFails, Fault, MachineType, TokenType, HistoryType, tokens,
    history, Places
<1>3. CASE Claimed(c)
  BY <1>0, <1>3, GotoType DEF Claimed, MachineType, TokenType, HistoryType, tokens, history, Places
<1>4. CASE ClaimFailed(c)
  BY <1>4, ReturnType DEF ClaimFailed, MachineType, TokenType, HistoryType, tokens, history
<1>5. CASE LoggedIn(c)
  <2>1. admin \in People
    BY <1>0, <1>5 DEF LoggedIn, ClaimInv
  <2>2. TokenType'
    BY <1>5, <2>1, IssueOwnerType DEF LoggedIn, MachineType
  <2> QED
    BY <1>5, <2>2, ReturnType DEF LoggedIn, MachineType, HistoryType
<1>6. ASSUME NEW l \in Places \ {"idle"}, NEW t \in Nat, Listed(c, l, t) PROVE TypeOK'
  <2>1. TokenType'
    BY <1>0, <1>6, IssueMemberType, NoTokenType DEF Listed, MachineType
  <2> QED
    BY <1>6, <2>1, ReturnType DEF Listed, MachineType, HistoryType
<1>7. CASE MemberListed(c) \/ RenewListed(c) \/ SwapListed(c)
  BY <1>6, <1>7 DEF MemberListed, RenewListed, SwapListed, MachineType, RequestType, Places
<1>8. CASE Invited(c)
  <2>1. \A e \in now..(now + PendingTtl) : e \in Nat
    BY Numbers DEF MachineType
  <2>2. TokenType'
    BY <1>0, <1>8, <2>1, IssueMemberType, IssuePendingType, NoTokenType DEF Invited, MachineType
  <2> QED
    BY <1>8, <2>2, ReturnType DEF Invited, MachineType, HistoryType
<1> QED
  BY <1>1, <1>2, <1>3, <1>4, <1>5, <1>7, <1>8 DEF Step

\* Requests that come in.
LEMMA RequestStepType ==
  ASSUME TypeOK, Request
  PROVE  TypeOK'
<1> USE Types
<1>0. now \in Nat /\ MaxTime \in Nat
  BY Numbers DEF MachineType
<1>1. ASSUME NEW x \in Challenges, IssueChallenge(x) PROVE TypeOK'
  <2>1. expires' \in [Challenges -> Nat]
    BY <1>1, Numbers DEF IssueChallenge, HistoryType, MachineType
  <2> QED
    BY <1>1, <2>1 DEF IssueChallenge, MachineType, RequestType, TokenType, HistoryType, requests, tokens
<1>2. ASSUME NEW x \in Challenges, Expired(x) PROVE TypeOK'
  BY <1>2 DEF Expired, MachineType, RequestType, TokenType, HistoryType, requests, tokens, history
<1>3. ASSUME NEW x \in Challenges, NEW p \in People, Act(p, x) PROVE TypeOK'
  <2>1. HistoryType' /\ TokenType'
    BY <1>0, <1>3, ConsumeType, NoTokenType DEF Act
  <2> QED
    BY <1>3, <2>1 DEF Act, MachineType, RequestType, requests
<1>4. ASSUME NEW c \in Callers, NEW p \in People, NEW x \in Challenges, Login(c, p, x)
      PROVE  TypeOK'
  <2>1. HistoryType'
    BY <1>0, <1>4, ConsumeType DEF Login
  <2>2. CASE admin = p
    <3>1. TokenType'
      BY <1>0, <1>4, <2>2, IssueOwnerType DEF Login
    <3> QED
      BY <1>4, <2>1, <2>2, <3>1 DEF Login, MachineType, RequestType, requests
  <2>3. CASE admin # p /\ MayClaim
    <3>1. TokenType' /\ RequestType'
      BY <1>0, <1>4, <2>3, NoTokenType, AwaitType DEF Login, Places
    <3> QED
      BY <1>4, <2>1, <2>3, <3>1 DEF Login, MachineType
  <2>4. CASE admin # p /\ ~MayClaim
    <3>1. TokenType'
      BY <1>4, <2>4, NoTokenType DEF Login
    <3> QED
      BY <1>4, <2>1, <2>4, <3>1 DEF Login, MachineType, RequestType, requests
  <2> QED
    BY <2>2, <2>3, <2>4
<1>5. ASSUME NEW c \in Callers, NEW p \in People, NEW x \in Challenges, MemberLogin(c, p, x)
      PROVE  TypeOK'
  <2>1. HistoryType'
    BY <1>0, <1>5, ConsumeType DEF MemberLogin
  <2>2. CASE admin = p
    <3>1. TokenType'
      BY <1>0, <1>5, <2>2, IssueMemberType DEF MemberLogin
    <3> QED
      BY <1>5, <2>1, <2>2, <3>1 DEF MemberLogin, MachineType, RequestType, requests
  <2>3. CASE admin # p
    <3>1. TokenType' /\ RequestType'
      BY <1>0, <1>5, <2>3, NoTokenType, AwaitType DEF MemberLogin, Places
    <3> QED
      BY <1>5, <2>1, <2>3, <3>1 DEF MemberLogin, MachineType
  <2> QED
    BY <2>2, <2>3
<1>6. ASSUME NEW c \in Callers, NEW p \in People, NEW x \in Challenges, InviteLogin(c, p, x)
      PROVE  TypeOK'
  <2>1. HistoryType' /\ TokenType' /\ RequestType'
    BY <1>0, <1>6, ConsumeType, NoTokenType, AwaitType DEF InviteLogin, Places
  <2> QED
    BY <1>6, <2>1 DEF InviteLogin, MachineType
<1>7. ASSUME NEW p \in People, NEW t \in Nat, NEW e \in Nat, Refresh(p, t, e) PROVE TypeOK'
  <2>1. TokenType'
    BY <1>0, <1>7, IssueOwnerType DEF Refresh, OwnerToken
  <2> QED
    BY <1>7, <2>1, MachineKept, HistoryKept DEF Refresh, RequestType, requests
<1>8. ASSUME NEW p \in People, NEW t \in Nat, NEW e \in Nat, Handoff(p, t, e) PROVE TypeOK'
  <2>1. TokenType'
    BY <1>0, <1>8, IssueMemberType DEF Handoff
  <2> QED
    BY <1>8, <2>1, MachineKept, HistoryKept DEF Handoff, RequestType, requests
<1>9. ASSUME NEW c \in Callers, NEW p \in People, NEW t \in Nat, NEW e \in Nat, Renew(c, p, t, e)
      PROVE  TypeOK'
  <2>1. CASE p = admin
    <3>1. TokenType'
      BY <1>0, <1>9, <2>1, IssueMemberType DEF Renew
    <3> QED
      BY <1>9, <2>1, <3>1, MachineKept, HistoryKept DEF Renew, RequestType, requests
  <2>2. CASE p # admin
    <3>1. TokenType' /\ RequestType'
      BY <1>0, <1>9, <2>2, NoTokenType, AwaitType DEF Renew, Places
    <3> QED
      BY <1>9, <2>2, <3>1, MachineKept, HistoryKept DEF Renew
  <2> QED
    BY <2>1, <2>2
<1>10. ASSUME NEW c \in Callers, NEW p \in People, NEW e \in Nat, Swap(c, p, e) PROVE TypeOK'
  <2>1. TokenType' /\ RequestType'
    BY <1>0, <1>10, NoTokenType, AwaitType DEF Swap, Places
  <2> QED
    BY <1>10, <2>1, MachineKept, HistoryKept DEF Swap
<1>11. \A n \in Nat : 1..n \subseteq Nat
  OBVIOUS
<1>12. 1..MaxTime \subseteq Nat /\ 1..(MaxTime + Ttl) \subseteq Nat
       /\ 1..(MaxTime + PendingTtl) \subseteq Nat
  BY <1>11, Numbers
<1> QED
  BY <1>1, <1>2, <1>3, <1>4, <1>5, <1>6, <1>7, <1>8, <1>9, <1>10, <1>12 DEF Request

\* Every step keeps the types.
LEMMA TypeStep ==
  ASSUME TypeOK, ClaimInv, [Next]_vars
  PROVE  TypeOK'
<1>1. CASE \E c \in Callers : Step(c)
  BY <1>1, StepType
<1>2. CASE Request
  BY <1>2, RequestStepType
<1>3. CASE Forget
  BY <1>3 DEF Forget, TypeOK, requests, history
<1>4. CASE Crash
  <2>1. file' \in People \cup {Nobody, Torn}
    BY <1>4 DEF Crash, TypeOK, ClaimInv
  <2>2. faults' \in Nat /\ expires' \in [Challenges -> Nat]
    BY <1>4 DEF Crash, Fault, TypeOK
  <2>3. /\ at' \in [Callers -> Places] /\ who' \in [Callers -> People \cup {Nobody}]
        /\ since' \in [Callers -> Nat] /\ began' \in [Callers -> Nat]
    BY <1>4 DEF Crash, Places
  <2>4. TokenType' /\ UNCHANGED <<known, used, signed, now>>
    BY <1>4, Types DEF Crash, TokenType, tokens, history
  <2>5. up' \in BOOLEAN /\ admin' \in People \cup {Nobody} /\ claimant' \in People \cup {Nobody}
    BY <1>4 DEF Crash
  <2> QED
    BY <2>1, <2>2, <2>3, <2>4, <2>5, Types DEF MachineType, RequestType, HistoryType
<1>5. CASE Boot
  BY <1>5 DEF Boot, TypeOK, requests, tokens, history
<1>6. CASE Tick
  BY <1>6 DEF Tick, TypeOK, requests, tokens, history
<1>7. CASE UNCHANGED vars
  BY <1>7 DEF vars, TypeOK, requests, tokens, history
<1> QED
  BY <1>1, <1>2, <1>3, <1>4, <1>5, <1>6, <1>7 DEF Next

(***************************************************************************)
(* Challenges                                                              *)
(***************************************************************************)
LEMMA UnusedConsume ==
  ASSUME TypeOK, Unused, NEW p \in People, NEW x \in Challenges, Consume(p, x)
  PROVE  Unused'
BY DEF TypeOK, Unused, Consume, Current, Live

LEMMA UnusedStep ==
  ASSUME TypeOK, Unused, [Next]_vars
  PROVE  Unused'
<1>1. ASSUME NEW x \in Challenges, IssueChallenge(x) PROVE Unused'
  BY <1>1 DEF IssueChallenge, TypeOK, Unused
<1>2. ASSUME NEW x \in Challenges, Expired(x) PROVE Unused'
  BY <1>2 DEF Expired, TypeOK, Unused, history
<1>3. CASE Crash
  BY <1>3 DEF Crash, TypeOK, Unused, history
<1>4. ASSUME NEW p \in People, NEW x \in Challenges,
             \/ Act(p, x)
             \/ \E c \in Callers : Login(c, p, x) \/ MemberLogin(c, p, x) \/ InviteLogin(c, p, x)
      PROVE  Unused'
  BY <1>4, UnusedConsume DEF Act, Login, MemberLogin, InviteLogin
<1>5. ASSUME UNCHANGED <<expires, known, used>> PROVE Unused'
  BY <1>5 DEF Unused
<1>6. CASE \E c \in Callers : Step(c)
  BY <1>5, <1>6 DEF Step, Persist, PersistFails, Claimed, ClaimFailed, LoggedIn, MemberListed,
    RenewListed, SwapListed, Listed, Invited, history
<1>7. CASE Forget \/ Boot \/ Tick \/ UNCHANGED vars
  BY <1>5, <1>7 DEF Forget, Boot, Tick, vars, history
<1>8. ASSUME NEW p \in People, NEW t, NEW e,
             \/ Refresh(p, t, e) \/ Handoff(p, t, e)
             \/ \E c \in Callers : Renew(c, p, t, e) \/ Swap(c, p, e)
      PROVE  Unused'
  BY <1>5, <1>8 DEF Refresh, Handoff, Renew, Swap
<1>9. CASE Request
  BY <1>1, <1>2, <1>4, <1>8, <1>9 DEF Request
<1> QED
  BY <1>3, <1>6, <1>7, <1>9 DEF Next

(***************************************************************************)
(* The claim of the machine                                                *)
(***************************************************************************)
LEMMA ClaimQuiet ==
  ASSUME ClaimInv, UNCHANGED <<up, file, admin, claimant, served, at, who>>
  PROVE  ClaimInv'
BY DEF ClaimInv, OwnerPersisted

\* A request that has nothing to do with a claim begins, or ends.
LEMMA ClaimAwait ==
  ASSUME TypeOK, ClaimInv, up, NEW c \in Callers, at[c] = "idle", NEW p \in People, NEW t,
         NEW l \in {"member", "invite", "renew", "swap"}, Await(c, l, p, t),
         UNCHANGED <<up, file, admin, claimant, served>>
  PROVE  ClaimInv'
BY DEF TypeOK, ClaimInv, OwnerPersisted, Await, Claiming

LEMMA ClaimReturn ==
  ASSUME TypeOK, ClaimInv, NEW c \in Callers, Return(c),
         UNCHANGED <<up, file, admin, claimant, served>>
  PROVE  ClaimInv'
BY DEF TypeOK, ClaimInv, OwnerPersisted, Return, Claiming

\* The owner is given a token.
LEMMA ClaimServe ==
  ASSUME ClaimInv, up, admin \in People, served' = served \cup {admin},
         UNCHANGED <<up, file, admin, claimant, at, who>>
  PROVE  ClaimInv'
BY PeopleType DEF ClaimInv, OwnerPersisted

\* Nobody is becoming the owner if nobody holds claimInFlight.
LEMMA NoClaim ==
  ASSUME TypeOK, ClaimInv, claimant = Nobody, NEW c \in Callers
  PROVE  at[c] \notin Claiming
BY PeopleType DEF TypeOK, ClaimInv, Claiming

LEMMA ClaimStep ==
  ASSUME TypeOK, ClaimInv, NEW c \in Callers, Step(c)
  PROVE  ClaimInv'
<1>1. CASE Persist(c)
  BY <1>1, PeopleType DEF Persist, Goto, tokens, history, TypeOK, ClaimInv, OwnerPersisted, Claiming
<1>2. CASE PersistFails(c)
  BY <1>2, PeopleType DEF PersistFails, Goto, tokens, history, TypeOK, ClaimInv, OwnerPersisted,
    Claiming
<1>3. CASE Claimed(c)
  BY <1>3, PeopleType DEF Claimed, Goto, tokens, history, TypeOK, ClaimInv, OwnerPersisted, Claiming
<1>4. CASE ClaimFailed(c)
  BY <1>4, PeopleType DEF ClaimFailed, Return, tokens, history, TypeOK, ClaimInv, OwnerPersisted,
    Claiming
<1>5. CASE LoggedIn(c)
  <2>1. admin \in People /\ up /\ served' = served \cup {admin}
    BY <1>5 DEF LoggedIn, IssueOwner, ClaimInv
  <2> QED
    BY <1>5, <2>1, PeopleType DEF LoggedIn, Return, TypeOK, ClaimInv, OwnerPersisted, Claiming
<1>6. CASE MemberListed(c) \/ RenewListed(c) \/ SwapListed(c)
  BY <1>6, ClaimReturn DEF MemberListed, RenewListed, SwapListed, Listed, IssueMember, NoToken
<1>7. CASE Invited(c)
  BY <1>7, ClaimReturn DEF Invited, IssueMember, IssuePending, NoToken
<1> QED
  BY <1>1, <1>2, <1>3, <1>4, <1>5, <1>6, <1>7 DEF Step

LEMMA ClaimRequest ==
  ASSUME TypeOK, ClaimInv, Request
  PROVE  ClaimInv'
<1>1. ASSUME NEW x \in Challenges, IssueChallenge(x) \/ Expired(x) PROVE ClaimInv'
  BY <1>1, ClaimQuiet DEF IssueChallenge, Expired, requests, tokens, history
<1>2. ASSUME NEW x \in Challenges, NEW p \in People, Act(p, x) PROVE ClaimInv'
  BY <1>2, ClaimQuiet DEF Act, NoToken, requests
<1>3. ASSUME NEW c \in Callers, NEW p \in People, NEW x \in Challenges, Login(c, p, x)
      PROVE  ClaimInv'
  <2>0. up /\ UNCHANGED <<up, admin, file>>
    BY <1>3 DEF Login, Consume
  <2>1. CASE admin = p
    BY <1>3, <2>0, <2>1, ClaimServe DEF Login, IssueOwner, requests
  <2>2. CASE admin # p /\ MayClaim
    <3>1. \A d \in Callers : at[d] \notin Claiming
      BY <2>2, NoClaim DEF MayClaim
    <3>2. admin = Nobody /\ at[c] = "idle" /\ claimant' = p /\ Await(c, "claim", p, now)
          /\ served' = served
      BY <1>3, <2>2 DEF Login, NoToken
    <3> QED
      BY <2>0, <3>1, <3>2, PeopleType DEF Await, TypeOK, ClaimInv, OwnerPersisted, Claiming
  <2>3. CASE admin # p /\ ~MayClaim
    BY <1>3, <2>0, <2>3, ClaimQuiet DEF Login, NoToken, requests
  <2> QED
    BY <2>1, <2>2, <2>3
<1>4. ASSUME NEW c \in Callers, NEW p \in People, NEW x \in Challenges, MemberLogin(c, p, x)
      PROVE  ClaimInv'
  <2>1. CASE admin = p
    BY <1>4, <2>1, ClaimQuiet DEF MemberLogin, IssueMember, requests
  <2>2. CASE admin # p
    BY <1>4, <2>2, ClaimAwait DEF MemberLogin, NoToken, Consume
  <2> QED
    BY <2>1, <2>2
<1>5. ASSUME NEW c \in Callers, NEW p \in People, NEW x \in Challenges, InviteLogin(c, p, x)
      PROVE  ClaimInv'
  BY <1>5, ClaimAwait DEF InviteLogin, NoToken, Consume
<1>6. ASSUME NEW p \in People, NEW t, NEW e, Refresh(p, t, e) PROVE ClaimInv'
  BY <1>6, ClaimServe DEF Refresh, OwnerToken, IssueOwner, requests
<1>7. ASSUME NEW p \in People, NEW t, NEW e, Handoff(p, t, e) PROVE ClaimInv'
  BY <1>7, ClaimQuiet DEF Handoff, IssueMember, requests
<1>8. ASSUME NEW c \in Callers, NEW p \in People, NEW t, NEW e, Renew(c, p, t, e)
      PROVE  ClaimInv'
  <2>1. CASE p = admin
    BY <1>8, <2>1, ClaimQuiet DEF Renew, IssueMember, requests
  <2>2. CASE p # admin
    BY <1>8, <2>2, ClaimAwait DEF Renew, NoToken
  <2> QED
    BY <2>1, <2>2
<1>9. ASSUME NEW c \in Callers, NEW p \in People, NEW e, Swap(c, p, e) PROVE ClaimInv'
  BY <1>9, ClaimAwait DEF Swap, NoToken
<1> QED
  BY <1>1, <1>2, <1>3, <1>4, <1>5, <1>6, <1>7, <1>8, <1>9 DEF Request

LEMMA ClaimNext ==
  ASSUME TypeOK, ClaimInv, [Next]_vars
  PROVE  ClaimInv'
<1>1. CASE Crash
  BY <1>1 DEF Crash, tokens, history, TypeOK, ClaimInv, OwnerPersisted, Claiming
<1>2. CASE Boot
  BY <1>2, PeopleType DEF Boot, requests, tokens, history, TypeOK, ClaimInv, OwnerPersisted, Claiming
<1>3. CASE Forget \/ Tick \/ UNCHANGED vars
  BY <1>3, ClaimQuiet DEF Forget, Tick, vars, requests, tokens, history
<1> QED
  BY <1>1, <1>2, <1>3, ClaimStep, ClaimRequest DEF Next

(***************************************************************************)
(* Where requests and tokens come from                                     *)
(***************************************************************************)
\* What was signed stays signed.
LEMMA SignedMono ==
  ASSUME signed \subseteq signed', NEW p, NEW t
  PROVE  /\ Signed(p, t) => Signed(p, t)'
         /\ Origin(p, t) => Origin(p, t)'
BY DEF Signed, Origin, From

\* A signature of this unit or the last is an origin of now.
LEMMA OriginNow ==
  ASSUME NEW p, NEW t \in Nat, Signed(p, t)
  PROVE  Origin(p, t)
BY Numbers DEF Origin, From

\* The requests are as before, or one of them has begun or ended.
LEMMA RequestQuiet ==
  ASSUME RequestInv, signed \subseteq signed', now' = now, UNCHANGED requests
  PROVE  RequestInv'
BY SignedMono DEF RequestInv, requests, Signed, Origin, From

LEMMA RequestReturn ==
  ASSUME TypeOK, RequestInv, signed \subseteq signed', now' = now,
         NEW c \in Callers, Return(c)
  PROVE  RequestInv'
<1>1. at'[c] = "idle" /\ \A d \in Callers \ {c} :
        at'[d] = at[d] /\ who'[d] = who[d] /\ since'[d] = since[d] /\ began'[d] = began[d]
  BY DEF Return, TypeOK
<1> QED
  BY <1>1, SignedMono DEF RequestInv, Signed, Origin, From

LEMMA RequestAwait ==
  ASSUME TypeOK, RequestInv, signed \subseteq signed', now' = now,
         NEW c \in Callers, NEW l, NEW p \in People, NEW t \in Nat, Await(c, l, p, t),
         l \notin {"renew", "swap"} => <<p, now>> \in signed',
         l = "renew" => Origin(p, t)',
         l = "swap" => \E u \in Nat : Signed(p, u)' /\ u <= now /\ now <= u + PendingTtl
  PROVE  RequestInv'
<1>1. \A d \in Callers \ {c} :
        at'[d] = at[d] /\ who'[d] = who[d] /\ since'[d] = since[d] /\ began'[d] = began[d]
  BY DEF Await, TypeOK
<1>2. at'[c] = l /\ who'[c] = p /\ since'[c] = t /\ began'[c] = now /\ now \in Nat \ {0}
  BY DEF Await, TypeOK
<1>3. ASSUME NEW d \in Callers \ {c}, at'[d] # "idle"
      PROVE  /\ began'[d] > 0 /\ began'[d] <= now' /\ now' <= began'[d] + 1
             /\ at'[d] \notin {"renew", "swap"} => <<who'[d], began'[d]>> \in signed'
             /\ at'[d] = "renew" => Origin(who[d], since[d])'
             /\ at'[d] = "swap" =>
                  \E u \in Nat : Signed(who[d], u)' /\ u <= began'[d] /\ began'[d] <= u + PendingTtl
  BY <1>1, <1>3 DEF RequestInv, Signed, Origin, From
<1>4. /\ began'[c] > 0 /\ began'[c] <= now' /\ now' <= began'[c] + 1
      /\ at'[c] \notin {"renew", "swap"} => <<who'[c], began'[c]>> \in signed'
      /\ at'[c] = "renew" => Origin(who[c], since[c])'
      /\ at'[c] = "swap" =>
           \E u \in Nat : Signed(who[c], u)' /\ u <= began'[c] /\ began'[c] <= u + PendingTtl
  BY <1>2 DEF Signed, Origin, From
<1> QED
  BY <1>3, <1>4 DEF RequestInv

LEMMA RequestGoto ==
  ASSUME TypeOK, RequestInv, UNCHANGED <<signed, now>>, NEW c \in Callers,
         at[c] \notin {"idle", "renew", "swap"}, NEW l, l \notin {"renew", "swap"}, Goto(c, l)
  PROVE  RequestInv'
<1>1. \A d \in Callers \ {c} : at'[d] = at[d]
  BY DEF Goto, TypeOK
<1>2. at'[c] = l
  BY DEF Goto, TypeOK
<1> QED
  BY <1>1, <1>2, SignedMono DEF RequestInv, Signed, Origin, From, Goto

\* Time, signatures and lost tokens do not disturb those that are left.
LEMMA TokenQuiet ==
  ASSUME TypeOK, TokenInv, signed \subseteq signed', now' \in Nat, now <= now',
         owners' \subseteq owners, members' \subseteq members, waiting' \subseteq waiting
  PROVE  TokenInv'
<1>1. \A p \in People, o \in Nat : Signed(p, o) => Signed(p, o)'
  BY SignedMono
<1>2. \A p \in People, o \in Nat : Origin(p, o) => Origin(p, o)'
  BY SignedMono
<1>3. \A p \in People, e \in Nat : <<p, e>> \in waiting' =>
        \E t \in Nat : Signed(p, t)' /\ t <= now' /\ e <= t + PendingTtl
  BY <1>1 DEF TokenInv, TypeOK
<1>4. \A p \in People, o, e \in Nat : <<p, o, e>> \in owners' => Signed(p, o)' /\ e <= o + MaxLife
  BY <1>1 DEF TokenInv
<1>5. \A p \in People, o, e \in Nat : <<p, o, e>> \in members' => Origin(p, o)' /\ e <= o + MaxLife
  BY <1>2 DEF TokenInv
<1> QED
  BY <1>3, <1>4, <1>5 DEF TokenInv

\* A token is made for an origin.
LEMMA TokenOwner ==
  ASSUME TypeOK, TokenInv, signed \subseteq signed', now' = now, NEW t \in Nat,
         NEW q, q = admin, Signed(q, t)', IssueOwner(t)
  PROVE  TokenInv'
<1>1. \A p \in People, o \in Nat :
        (Signed(p, o) => Signed(p, o)') /\ (Origin(p, o) => Origin(p, o)')
  BY SignedMono
<1>2. \A p \in People, o, e \in Nat :
        <<p, o, e>> \in owners' => <<p, o, e>> \in owners \/ (p = q /\ o = t /\ e = End(t))
  BY DEF IssueOwner
<1>3. \A p \in People, o, e \in Nat : <<p, o, e>> \in owners' => Signed(p, o)' /\ e <= o + MaxLife
  BY <1>1, <1>2, EndType DEF TokenInv, TypeOK
<1>4. \A p \in People, o, e \in Nat : <<p, o, e>> \in members' => Origin(p, o)' /\ e <= o + MaxLife
  BY <1>1 DEF TokenInv, IssueOwner
<1>5. \A p \in People, e \in Nat : <<p, e>> \in waiting' =>
        \E u \in Nat : Signed(p, u)' /\ u <= now' /\ e <= u + PendingTtl
  BY <1>1 DEF TokenInv, IssueOwner
<1> QED
  BY <1>3, <1>4, <1>5 DEF TokenInv

LEMMA TokenMember ==
  ASSUME TypeOK, TokenInv, signed \subseteq signed', now' = now, NEW q \in People, NEW t \in Nat,
         Origin(q, t)', IssueMember(q, t)
  PROVE  TokenInv'
<1>1. \A p \in People, o \in Nat :
        (Signed(p, o) => Signed(p, o)') /\ (Origin(p, o) => Origin(p, o)')
  BY SignedMono
<1>2. \A p \in People, o, e \in Nat :
        <<p, o, e>> \in members' => <<p, o, e>> \in members \/ (p = q /\ o = t /\ e = End(t))
  BY DEF IssueMember
<1>3. \A p \in People, o, e \in Nat : <<p, o, e>> \in members' => Origin(p, o)' /\ e <= o + MaxLife
  BY <1>1, <1>2, EndType DEF TokenInv, TypeOK
<1>4. \A p \in People, o, e \in Nat : <<p, o, e>> \in owners' => Signed(p, o)' /\ e <= o + MaxLife
  BY <1>1 DEF TokenInv, IssueMember
<1>5. \A p \in People, e \in Nat : <<p, e>> \in waiting' =>
        \E u \in Nat : Signed(p, u)' /\ u <= now' /\ e <= u + PendingTtl
  BY <1>1 DEF TokenInv, IssueMember
<1> QED
  BY <1>3, <1>4, <1>5 DEF TokenInv

LEMMA TokenPending ==
  ASSUME TypeOK, TokenInv, UNCHANGED <<signed, now>>, NEW q \in People,
         NEW e \in now..(now + PendingTtl), Signed(q, now), IssuePending(q, e)
  PROVE  TokenInv'
<1>1. \A p \in People, f \in Nat :
        <<p, f>> \in waiting' => <<p, f>> \in waiting \/ (p = q /\ f = e)
  BY DEF IssuePending
<1>2. \A p \in People, f \in Nat : <<p, f>> \in waiting' =>
        \E u \in Nat : Signed(p, u)' /\ u <= now' /\ f <= u + PendingTtl
  <2>1. /\ now \in Nat /\ Signed(q, now)' /\ e <= now + PendingTtl
        /\ \A p \in People, u \in Nat : Signed(p, u)' = Signed(p, u)
    BY Numbers DEF TypeOK, Signed
  <2> QED
    BY <1>1, <2>1 DEF TokenInv
<1>3. \A p \in People, o \in Nat :
        (Signed(p, o) => Signed(p, o)') /\ (Origin(p, o) => Origin(p, o)')
  BY SignedMono
<1> QED
  BY <1>2, <1>3 DEF TokenInv, IssuePending

LEMMA OriginStep ==
  ASSUME IInv, NEW c \in Callers, Step(c)
  PROVE  RequestInv' /\ TokenInv'
<1> USE DEF IInv
<1>0. /\ now \in Nat \ {0} /\ began[c] \in Nat /\ since[c] \in Nat
      /\ at[c] # "idle" => who[c] \in People
  BY DEF TypeOK, ClaimInv
<1>1. CASE Persist(c) \/ PersistFails(c) \/ Claimed(c)
  <2>1. UNCHANGED <<signed, now, tokens>>
    BY <1>1 DEF Persist, PersistFails, Claimed, history
  <2>2. RequestInv'
    BY <1>1, <2>1, RequestGoto DEF Persist, PersistFails, Claimed
  <2> QED
    BY <1>0, <2>1, <2>2, TokenQuiet DEF tokens
<1>2. CASE ClaimFailed(c)
  BY <1>0, <1>2, RequestReturn, TokenQuiet DEF ClaimFailed, tokens, history
<1>a. at[c] # "idle"
  BY DEF Step, Persist, PersistFails, Claimed, ClaimFailed, LoggedIn, MemberListed,
    RenewListed, SwapListed, Listed, Invited
<1>b. PICK p \in People : p = who[c]
  BY <1>0, <1>a
<1>3. at[c] \notin {"renew", "swap"} => Signed(p, now)
  <2>0. began[c] <= now /\ now <= began[c] + 1
    BY <1>a DEF RequestInv
  <2>1. began[c] = now \/ (began[c] = now - 1 /\ now > 0)
    BY <1>0, <2>0
  <2>2. at[c] \notin {"renew", "swap"} => <<p, began[c]>> \in signed
    BY <1>a, <1>b DEF RequestInv
  <2>3. CASE began[c] = now
    BY <2>2, <2>3 DEF Signed
  <2>4. CASE began[c] = now - 1 /\ now > 0
    BY <2>2, <2>4 DEF Signed
  <2> QED
    BY <2>1, <2>3, <2>4
<1>4. CASE LoggedIn(c)
  <2>1. /\ p = admin /\ Signed(p, now) /\ UNCHANGED <<signed, now>>
        /\ IssueOwner(now) /\ Return(c)
    BY <1>b, <1>3, <1>4 DEF LoggedIn, ClaimInv
  <2>2. Signed(p, now)'
    BY <2>1 DEF Signed
  <2> QED
    BY <1>0, <2>1, <2>2, RequestReturn, TokenOwner
<1>5. ASSUME NEW t \in Nat, Origin(p, t), NEW l, Listed(c, l, t)
      PROVE  RequestInv' /\ TokenInv'
  <2>1. UNCHANGED <<signed, now>> /\ Return(c)
    BY <1>5 DEF Listed
  <2>2. RequestInv'
    BY <2>1, RequestReturn
  <2>3. CASE IssueMember(p, t)
    BY <1>5, <2>1, <2>2, <2>3, TokenMember, SignedMono
  <2>4. CASE NoToken
    BY <1>0, <2>1, <2>2, <2>4, TokenQuiet DEF NoToken, tokens
  <2> QED
    BY <1>b, <1>5, <2>3, <2>4 DEF Listed
<1>6. CASE MemberListed(c)
  <2>1. at[c] = "member" /\ Origin(p, now)
    BY <1>0, <1>3, <1>6, OriginNow DEF MemberListed, Listed
  <2> QED
    BY <1>0, <1>5, <1>6, <2>1 DEF MemberListed
<1>7. CASE RenewListed(c)
  <2>1. at[c] = "renew" /\ Origin(p, since[c])
    BY <1>b, <1>7 DEF RenewListed, Listed, RequestInv
  <2> QED
    BY <1>0, <1>5, <1>7, <2>1 DEF RenewListed
<1>8. CASE SwapListed(c)
  <2>1. at[c] = "swap" /\ now <= began[c] + 1 /\ began[c] <= now
    BY <1>8 DEF SwapListed, Listed, RequestInv
  <2>2. PICK t \in Nat : Signed(p, t) /\ t <= began[c] /\ began[c] <= t + PendingTtl
    BY <1>b, <2>1 DEF RequestInv
  <2>3. Origin(p, now)
    BY <1>0, <2>1, <2>2, Numbers DEF Origin, From
  <2> QED
    BY <1>0, <1>5, <1>8, <2>1, <2>3 DEF SwapListed
<1>9. CASE Invited(c)
  <2>1. UNCHANGED <<signed, now>> /\ Return(c) /\ at[c] = "invite" /\ Signed(p, now)
    BY <1>3, <1>9 DEF Invited
  <2>2. RequestInv'
    BY <2>1, RequestReturn
  <2>3. CASE IssueMember(p, now)
    <3>1. Origin(p, now)'
      BY <1>0, <2>1, OriginNow, SignedMono
    <3> QED
      BY <1>0, <2>1, <2>2, <2>3, <3>1, TokenMember
  <2>4. CASE \E e \in now..(now + PendingTtl) : IssuePending(p, e)
    BY <1>0, <2>1, <2>2, <2>4, TokenPending
  <2>5. CASE NoToken
    BY <1>0, <2>1, <2>2, <2>5, TokenQuiet DEF NoToken, tokens
  <2> QED
    BY <1>b, <1>9, <2>3, <2>4, <2>5 DEF Invited
<1> QED
  BY <1>1, <1>2, <1>4, <1>6, <1>7, <1>8, <1>9 DEF Step

\* A signed challenge is presented.
LEMMA OriginConsume ==
  ASSUME TypeOK, NEW p \in People, NEW x \in Challenges, Consume(p, x), now' = now
  PROVE  /\ signed \subseteq signed' /\ <<p, now>> \in signed'
         /\ Signed(p, now)' /\ Origin(p, now)'
<1>1. signed \subseteq signed' /\ <<p, now>> \in signed'
  BY DEF Consume
<1>2. \A t \in Nat : <<p, t>> \in signed' => Signed(p, t)' /\ Origin(p, t)'
  BY Numbers DEF Signed, Origin, From
<1>3. now \in Nat
  BY DEF TypeOK
<1>4. Signed(p, now)' /\ Origin(p, now)'
  BY <1>1, <1>2, <1>3 DEF Signed, Origin, From
<1> QED
  BY <1>1, <1>4

LEMMA OriginRequest ==
  ASSUME IInv, Request
  PROVE  RequestInv' /\ TokenInv'
<1> USE DEF IInv
<1>0. now \in Nat
  BY DEF TypeOK
<1>1. ASSUME NEW x \in Challenges, IssueChallenge(x) \/ Expired(x) PROVE RequestInv' /\ TokenInv'
  BY <1>0, <1>1, RequestQuiet, TokenQuiet DEF IssueChallenge, Expired, tokens, history
<1>2. ASSUME NEW x \in Challenges, NEW p \in People, Act(p, x) PROVE RequestInv' /\ TokenInv'
  <2>1. signed \subseteq signed' /\ UNCHANGED <<now, requests, tokens>>
    BY <1>2 DEF Act, Consume, NoToken
  <2>2. RequestInv'
    BY <2>1, RequestQuiet
  <2> QED
    BY <1>0, <2>1, <2>2, TokenQuiet DEF tokens
<1>3. ASSUME NEW c \in Callers, NEW p \in People, NEW x \in Challenges, Login(c, p, x)
      PROVE  RequestInv' /\ TokenInv'
  <2>1. signed \subseteq signed' /\ <<p, now>> \in signed' /\ Signed(p, now)' /\ now' = now
    BY <1>3, OriginConsume DEF Login
  <2>2. CASE admin = p
    BY <1>0, <1>3, <2>1, <2>2, RequestQuiet, TokenOwner DEF Login
  <2>3. CASE admin # p /\ MayClaim
    <3>1. Await(c, "claim", p, now) /\ UNCHANGED tokens
      BY <1>3, <2>3 DEF Login, NoToken
    <3> QED
      BY <1>0, <2>1, <3>1, RequestAwait, TokenQuiet DEF tokens
  <2>4. CASE admin # p /\ ~MayClaim
    BY <1>0, <1>3, <2>1, <2>4, RequestQuiet, TokenQuiet DEF Login, NoToken, tokens
  <2> QED
    BY <2>2, <2>3, <2>4
<1>4. ASSUME NEW c \in Callers, NEW p \in People, NEW x \in Challenges, MemberLogin(c, p, x)
      PROVE  RequestInv' /\ TokenInv'
  <2>1. signed \subseteq signed' /\ <<p, now>> \in signed' /\ Origin(p, now)' /\ now' = now
    BY <1>4, OriginConsume DEF MemberLogin
  <2>2. CASE admin = p
    BY <1>0, <1>4, <2>1, <2>2, RequestQuiet, TokenMember DEF MemberLogin
  <2>3. CASE admin # p
    <3>1. Await(c, "member", p, now) /\ UNCHANGED tokens
      BY <1>4, <2>3 DEF MemberLogin, NoToken
    <3> QED
      BY <1>0, <2>1, <3>1, RequestAwait, TokenQuiet DEF tokens
  <2> QED
    BY <2>2, <2>3
<1>5. ASSUME NEW c \in Callers, NEW p \in People, NEW x \in Challenges, InviteLogin(c, p, x)
      PROVE  RequestInv' /\ TokenInv'
  <2>1. signed \subseteq signed' /\ <<p, now>> \in signed' /\ now' = now
    BY <1>5, OriginConsume DEF InviteLogin
  <2>2. Await(c, "invite", p, now) /\ UNCHANGED tokens
    BY <1>5 DEF InviteLogin, NoToken
  <2> QED
    BY <1>0, <2>1, <2>2, RequestAwait, TokenQuiet DEF tokens
<1>6. ASSUME NEW p \in People, NEW t \in Nat, NEW e \in Nat, OwnerToken(p, t, e)
      PROVE  p = admin /\ Signed(p, t) /\ Origin(p, t)
  BY <1>6, OriginNow DEF OwnerToken, TokenInv
<1>7. ASSUME NEW p \in People, NEW t \in Nat, NEW e \in Nat, Refresh(p, t, e)
      PROVE  RequestInv' /\ TokenInv'
  <2>1. p = admin /\ Signed(p, t) /\ UNCHANGED <<signed, now, requests>> /\ IssueOwner(t)
    BY <1>6, <1>7 DEF Refresh
  <2>2. Signed(p, t)'
    BY <2>1, SignedMono
  <2> QED
    BY <2>1, <2>2, RequestQuiet, TokenOwner
<1>8. ASSUME NEW p \in People, NEW t \in Nat, NEW e \in Nat, Handoff(p, t, e)
      PROVE  RequestInv' /\ TokenInv'
  <2>1. Origin(p, t) /\ UNCHANGED <<signed, now, requests>> /\ IssueMember(p, t)
    BY <1>6, <1>8 DEF Handoff
  <2>2. Origin(p, t)'
    BY <2>1, SignedMono
  <2> QED
    BY <2>1, <2>2, RequestQuiet, TokenMember
<1>9. ASSUME NEW c \in Callers, NEW p \in People, NEW t \in Nat, NEW e \in Nat, Renew(c, p, t, e)
      PROVE  RequestInv' /\ TokenInv'
  <2>1. Origin(p, t) /\ UNCHANGED <<signed, now>>
    BY <1>9 DEF Renew, TokenInv
  <2>2. Origin(p, t)'
    BY <2>1, SignedMono
  <2>3. CASE p = admin
    BY <1>9, <2>1, <2>2, <2>3, RequestQuiet, TokenMember DEF Renew
  <2>4. CASE p # admin
    <3>1. Await(c, "renew", p, t) /\ UNCHANGED tokens
      BY <1>9, <2>4 DEF Renew, NoToken
    <3>2. RequestInv'
      BY <2>1, <2>2, <3>1, RequestAwait
    <3> QED
      BY <1>0, <2>1, <3>1, <3>2, TokenQuiet DEF tokens
  <2> QED
    BY <2>3, <2>4
<1>10. ASSUME NEW c \in Callers, NEW p \in People, NEW e \in Nat, Swap(c, p, e)
       PROVE  RequestInv' /\ TokenInv'
  <2>1. /\ Await(c, "swap", p, now) /\ UNCHANGED <<signed, now, tokens>>
        /\ <<p, e>> \in waiting /\ e >= now
    BY <1>10 DEF Swap, NoToken
  <2>2. PICK t \in Nat : Signed(p, t) /\ t <= now /\ e <= t + PendingTtl
    BY <2>1 DEF TokenInv
  <2>3. Signed(p, t)' /\ now <= t + PendingTtl
    BY <1>0, <2>1, <2>2, SignedMono, Numbers
  <2>4. RequestInv'
    <3>1. \E u \in Nat : Signed(p, u)' /\ u <= now /\ now <= u + PendingTtl
      BY <2>2, <2>3
    <3> QED
      BY <1>0, <2>1, <3>1, RequestAwait
  <2> QED
    BY <1>0, <2>1, <2>4, TokenQuiet DEF tokens
<1>11. \A n \in Nat : 1..n \subseteq Nat
  OBVIOUS
<1>12. 1..MaxTime \subseteq Nat /\ 1..(MaxTime + Ttl) \subseteq Nat
       /\ 1..(MaxTime + PendingTtl) \subseteq Nat
  BY <1>11, Numbers
<1> QED
  BY <1>1, <1>2, <1>3, <1>4, <1>5, <1>7, <1>8, <1>9, <1>10, <1>12 DEF Request

LEMMA OriginNext ==
  ASSUME IInv, [Next]_vars
  PROVE  RequestInv' /\ TokenInv'
<1>0. TypeOK /\ RequestInv /\ TokenInv /\ now \in Nat
  BY DEF IInv, TypeOK
<1>1. CASE Forget
  BY <1>0, <1>1, RequestQuiet, TokenQuiet DEF Forget, history
<1>2. CASE Crash
  <2>1. UNCHANGED <<signed, now, tokens>> /\ \A c \in Callers : at'[c] = "idle"
    BY <1>2 DEF Crash, history
  <2> QED
    BY <1>0, <2>1, TokenQuiet DEF RequestInv, tokens
<1>3. CASE Boot \/ UNCHANGED vars
  BY <1>0, <1>3, RequestQuiet, TokenQuiet DEF Boot, vars, tokens, history
<1>4. CASE Tick
  <2>1. /\ UNCHANGED <<signed, tokens, at, who, since, began>> /\ now' = now + 1
        /\ \A c \in Callers : at[c] # "idle" => began[c] = now
    BY <1>4 DEF Tick, history, requests
  <2>2. TokenInv'
    BY <1>0, <2>1, TokenQuiet DEF tokens
  <2>3. ASSUME NEW c \in Callers, at[c] # "idle"
        PROVE  /\ began[c] > 0 /\ began[c] <= now' /\ now' <= began[c] + 1
               /\ at[c] \notin {"renew", "swap"} => <<who[c], began[c]>> \in signed'
               /\ at[c] = "renew" => Origin(who[c], since[c])'
               /\ at[c] = "swap" => \E t \in Nat :
                    Signed(who[c], t)' /\ t <= began[c] /\ began[c] <= t + PendingTtl
    <3>1. began[c] = now /\ now > 0
      BY <2>1, <2>3 DEF TypeOK, IInv
    <3>2. /\ began[c] > 0 /\ began[c] <= now' /\ now' <= began[c] + 1
      BY <1>0, <2>1, <3>1
    <3>3. at[c] \notin {"renew", "swap"} => <<who[c], began[c]>> \in signed'
      BY <1>0, <2>1, <2>3 DEF RequestInv
    <3>4. at[c] = "renew" => Origin(who[c], since[c])'
      BY <1>0, <2>1, <2>3 DEF RequestInv, Origin, From, Signed
    <3>5. at[c] = "swap" => \E t \in Nat :
                    Signed(who[c], t)' /\ t <= began[c] /\ began[c] <= t + PendingTtl
      BY <1>0, <2>1, <2>3 DEF RequestInv, Signed
    <3> QED
      BY <3>2, <3>3, <3>4, <3>5
  <2>4. RequestInv'
    BY <2>1, <2>3 DEF RequestInv
  <2> QED
    BY <2>2, <2>4
<1> QED
  BY <1>1, <1>2, <1>3, <1>4, OriginStep, OriginRequest DEF Next

(***************************************************************************)
(* The theorems                                                            *)
(***************************************************************************)
LEMMA Inductive == Spec => []IInv
<1>1. Init => IInv
  BY PeopleType DEF Init, IInv, TypeOK, Unused, ClaimInv, RequestInv, TokenInv, OwnerPersisted,
    Claiming
<1>2. IInv /\ [Next]_vars => IInv'
  <2> SUFFICES ASSUME IInv, [Next]_vars PROVE IInv'
    OBVIOUS
  <2>1. TypeOK' /\ Unused' /\ ClaimInv'
    BY TypeStep, UnusedStep, ClaimNext DEF IInv
  <2> QED
    BY <2>1, OriginNext DEF IInv
<1> QED
  BY <1>1, <1>2, PTL DEF Spec

\* The state is always well formed.
THEOREM TypeCorrect == Spec => []TypeOK
<1>1. IInv => TypeOK
  BY DEF IInv
<1> QED
  BY <1>1, Inductive, PTL

\* A challenge lets at most one login, claim of an invite or signed action in.
THEOREM ChallengeOnce == Spec => []SingleUse
<1>1. IInv => SingleUse
  BY DEF IInv, Unused, SingleUse
<1> QED
  BY <1>1, Inductive, PTL

\* Whoever has been given an owner's token is the owner config.yaml names, so there
\* is only ever one, whatever claims overlap, fail or are cut off.
THEOREM OneOwner == Spec => []OwnerPersisted
<1>1. IInv => OwnerPersisted
  BY DEF IInv, ClaimInv
<1> QED
  BY <1>1, Inductive, PTL

\* No sequence of renewals carries the owner's session beyond its lifetime.
THEOREM OwnerLifetime == Spec => []OwnerBounded
<1>1. IInv => OwnerBounded
  <2> SUFFICES ASSUME IInv, NEW k \in owners PROVE Signed(k[1], k[2]) /\ k[3] <= k[2] + MaxLife
    BY DEF OwnerBounded
  <2>1. k[1] \in People /\ k[2] \in Nat /\ k[3] \in Nat /\ k = <<k[1], k[2], k[3]>>
    BY DEF IInv, TypeOK
  <2> QED
    BY <2>1 DEF IInv, TokenInv
<1> QED
  BY <1>1, Inductive, PTL

\* Nor a member's, beyond its lifetime and the time the member waited.
THEOREM MemberLifetime == Spec => []MemberBounded
<1>1. IInv => MemberBounded
  <2> SUFFICES ASSUME IInv, NEW k \in members
               PROVE  \E t \in 0..k[2] : Signed(k[1], t) /\ k[3] <= t + PendingTtl + 1 + MaxLife
    BY DEF MemberBounded
  <2>1. k[1] \in People /\ k[2] \in Nat /\ k[3] \in Nat /\ k = <<k[1], k[2], k[3]>>
    BY DEF IInv, TypeOK
  <2>2. Origin(k[1], k[2]) /\ k[3] <= k[2] + MaxLife
    BY <2>1 DEF IInv, TokenInv
  <2>3. PICK t \in Nat : From(k[1], t, k[2])
    BY <2>2 DEF Origin
  <2> QED
    BY <2>1, <2>2, <2>3, Numbers DEF From
<1> QED
  BY <1>1, Inductive, PTL
=============================================================================
