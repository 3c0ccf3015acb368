-------------------------- MODULE TeamAccess_proof --------------------------
(***************************************************************************)
(* Proofs about TeamAccess: what links, revocations and member lists keep, *)
(* for any number of requests, people and links, any skew, time and faults.*)
(***************************************************************************)
EXTENDS TeamAccess, SequenceTheorems, FiniteSetTheorems, TLAPS

(***************************************************************************)
(* The invariant                                                           *)
(***************************************************************************)
InLine(q, c) == \E k \in 1..Len(q) : q[k] = c

\* A queue of writers: requests at w wait in it, the first of them may be at s.
LineOK(q, a, w, s) ==
  /\ q \in Seq(Callers)
  /\ \A j, k \in 1..Len(q) : q[j] = q[k] => j = k
  /\ \A c \in Callers : InLine(q, c) <=> a[c] \in {w, s}
  /\ \A c \in Callers : a[c] = s => Holds(q, c)

Lines == LineOK(iq, at, "invites", "isave") /\ LineOK(rq, at, "roster", "rsave")

Draft == [link : [Links -> Link], date : 0..MaxTime, members : SUBSET People,
          joined : [People -> 0..MaxTime]]

RequestType ==
  /\ at \in [Callers -> {"idle", "find", "member", "seat", "invites", "isave",
                         "roster", "rsave", "check"}]
  /\ op \in [Callers -> {"none", "claim", "create", "revoke", "approve", "decline", "put"}]
  /\ who \in [Callers -> People \cup {Nobody}] /\ on \in [Callers -> Links \cup {Nobody}]
  /\ found \in [Callers -> Link] /\ draft \in [Callers -> Draft]
  /\ list \in [Callers -> [date : 0..MaxTime, members : SUBSET People]]
  /\ began \in [Callers -> 0..MaxTime]

RosterType ==
  /\ signedAt \in 0..MaxTime /\ listed \subseteq People /\ joined \in [People -> 0..MaxTime]

CountType ==
  /\ now \in 1..MaxTime /\ grantAt \in [Links -> 0..MaxTime]
  /\ made \in [Links -> Nat] /\ letIn \in [Links -> Nat] /\ faults \in 0..MaxFaults

FileType == link \in [Links -> Link] /\ RosterType /\ CountType

\* What a request is about, by where it is.
RequestOK(c) ==
  /\ op[c] = "none" <=> at[c] = "idle"
  /\ at[c] = "idle" => on[c] = Nobody
  /\ at[c] \in {"find", "member", "seat"} => op[c] = "claim"
  /\ at[c] = "check" => op[c] = "approve"
  /\ at[c] \in {"invites", "isave"} =>
       op[c] \in {"claim", "create", "revoke", "approve", "decline"}
  /\ at[c] \in {"roster", "rsave"} =>
       op[c] = "put" \/ (op[c] = "claim" /\ found[c].kind = "auto")
  /\ op[c] \notin {"none", "put"} => on[c] \in Links
  /\ op[c] \in {"claim", "approve", "decline"} => who[c] \in People
  /\ op[c] = "claim" /\ at[c] # "find" => found[c].kind # "none"
  /\ op[c] = "create" => /\ at[c] \in {"invites", "isave"} /\ found[c].kind # "none"
                         /\ ~found[c].revoked /\ found[c].waiting = {}

\* The clock has ticked at most once since a request came in.
TimeOK(c) == at[c] # "idle" => began[c] <= now /\ now <= began[c] + 1

\* Only links that are still good have people waiting.
LinkOK(r) ==
  /\ r.kind = "none" => r = NoLink
  /\ r.waiting # {} => r.kind = "open" /\ r.uses > 0 /\ ~r.revoked

\* A granted link outlives its grant.
Outlives(e, i) == e + Skew >= grantAt[i] + Ttl

LinkInv ==
  \A i \in Links :
    /\ LinkOK(link[i]) /\ made[i] <= 1
    /\ made[i] = 0 => link[i] = NoLink /\ letIn[i] = 0
    /\ made[i] = 1 /\ grantAt[i] > 0 =>
         Outlives(now, i) \/ (link[i].kind # "none" /\ Outlives(link[i].ends, i))

\* A claim is of a link that was made, and that is still what was found, or pruned.
ClaimOK(c) ==
  op[c] = "claim" /\ at[c] # "find" =>
    made[on[c]] = 1 /\ link[on[c]].kind \in {"none", found[c].kind}

\* An id without a grant is given to one link; one with a grant is in time.
CreateOK(c) ==
  op[c] = "create" =>
    /\ grantAt[on[c]] = 0 =>
         made[on[c]] = 0 /\ \A d \in Callers : op[d] = "create" /\ on[d] = on[c] => d = c
    /\ grantAt[on[c]] > 0 => began[c] <= grantAt[on[c]] + Skew /\ grantAt[on[c]] <= began[c] + Skew
    /\ at[c] = "isave" => made[on[c]] = 0

\* What an operation makes of a link r that is there.
After(o, r, s) ==
  /\ r.kind # "none" /\ s.kind = r.kind /\ s.ends = r.ends /\ LinkOK(s)
  /\ r.revoked => s.revoked /\ s.uses = r.uses
  /\ s.uses <= r.uses
  /\ o = "approve" \/ (o = "claim" /\ r.kind = "auto") => s.uses + 1 = r.uses

\* What a writer is going to write follows from what the file still says.
DraftOK(c) ==
  /\ at[c] = "isave" =>
       /\ \A i \in Links \ {on[c]} : draft[c].link[i] = link[i]
       /\ op[c] # "create" => After(op[c], link[on[c]], draft[c].link[on[c]])
       /\ op[c] = "create" =>
            /\ draft[c].link[on[c]] = [found[c] EXCEPT !.ends = draft[c].link[on[c]].ends]
            /\ grantAt[on[c]] > 0 => Outlives(draft[c].link[on[c]].ends, on[c])
  /\ at[c] = "rsave" =>
       /\ draft[c].date >= signedAt /\ (draft[c].members # listed => draft[c].date > signedAt)
       /\ \A p \in People : joined[p] > 0 =>
            \/ p \in draft[c].members \/ draft[c].joined[p] > 0
            \/ (draft[c].date > signedAt /\ joined[p] <= draft[c].date)

CallerOK(c) == RequestOK(c) /\ TimeOK(c) /\ ClaimOK(c) /\ DraftOK(c)

CallerInv == \A c \in Callers : CallerOK(c) /\ CreateOK(c)

\* Claims that have spent a use and let nobody in yet.
Flight(i) == {c \in Callers : at[c] \in {"roster", "rsave"} /\ op[c] = "claim" /\ on[c] = i}

UsesInv == \A i \in Links : letIn[i] + Cardinality(Flight(i)) + link[i].uses <= Uses

IInv == RequestType /\ FileType /\ Lines /\ CallerInv /\ LinkInv /\ UsesInv

(***************************************************************************)
(* Queues                                                                  *)
(***************************************************************************)
Once(q) == \A j, k \in 1..Len(q) : q[j] = q[k] => j = k

\* Who joins a queue is last in it ...
LEMMA JoinLine ==
  ASSUME NEW q \in Seq(Callers), Once(q), NEW c \in Callers, ~InLine(q, c)
  PROVE  /\ Append(q, c) \in Seq(Callers) /\ Once(Append(q, c))
         /\ \A d : InLine(Append(q, c), d) <=> d = c \/ InLine(q, d)
         /\ \A d : Holds(q, d) => Holds(Append(q, c), d)
<1> DEFINE t == Append(q, c)
<1>1. /\ t \in Seq(Callers) /\ Len(q) \in Nat /\ Len(t) = Len(q) + 1 /\ t # <<>>
      /\ \A k \in 1..Len(q) : t[k] = q[k]
      /\ t[Len(q) + 1] = c
      /\ q # <<>> => 1 \in 1..Len(q)
  BY AppendProperties, LenProperties, EmptySeq
<1> HIDE DEF t
<1>2. \A k \in 1..Len(t) : k \in 1..Len(q) \/ k = Len(q) + 1
  BY <1>1
<1>3. Once(t)
  BY <1>1, <1>2 DEF Once, InLine
<1>4. ASSUME NEW d
      PROVE  InLine(t, d) <=> d = c \/ InLine(q, d)
  <2>1. InLine(t, d) => d = c \/ InLine(q, d)
    BY <1>1, <1>2 DEF InLine
  <2>2. CASE d = c
    BY <1>1, <2>2 DEF InLine
  <2>3. ASSUME NEW k \in 1..Len(q), q[k] = d
        PROVE  \E l \in 1..Len(t) : t[l] = d
    BY <1>1, <2>3
  <2> QED
    BY <2>1, <2>2, <2>3 DEF InLine
<1>5. \A d : Holds(q, d) => Holds(t, d)
  BY <1>1 DEF Holds
<1> QED
  BY <1>1, <1>3, <1>4, <1>5 DEF t

\* ... and who is first in it leaves it to the others, in their order.
LEMMA RestLine ==
  ASSUME NEW q \in Seq(Callers), Once(q), NEW c \in Callers, InLine(q, c) => Holds(q, c)
  PROVE  /\ Rest(q, c) \in Seq(Callers) /\ Once(Rest(q, c))
         /\ \A d : InLine(Rest(q, c), d) <=> d # c /\ InLine(q, d)
         /\ \A d : Holds(q, d) /\ d # c => Holds(Rest(q, c), d)
<1>1. CASE ~Holds(q, c)
  BY <1>1 DEF Rest
<1>2. CASE Holds(q, c)
  <2> DEFINE t == Tail(q)
  <2>1. /\ Rest(q, c) = t /\ q # <<>> /\ q[1] = c
    BY <1>2 DEF Rest, Holds
  <2>2. /\ t \in Seq(Callers) /\ Len(q) \in Nat \ {0} /\ Len(t) = Len(q) - 1
        /\ \A k \in 1..Len(t) : t[k] = q[k+1]
    BY <2>1, HeadTailProperties, EmptySeq, LenProperties
  <2> HIDE DEF t
  <2>3. Once(t)
    BY <2>2 DEF Once
  <2>4. ASSUME NEW d, NEW k \in 1..Len(t), t[k] = d
        PROVE  d # c /\ \E l \in 1..Len(q) : q[l] = d
    <3>1. k + 1 \in 1..Len(q) /\ 1 \in 1..Len(q) /\ k + 1 # 1 /\ q[k+1] = d
      BY <2>2, <2>4
    <3> QED
      BY <2>1, <3>1 DEF Once
  <2>5. ASSUME NEW d, d # c, NEW k \in 1..Len(q), q[k] = d
        PROVE  \E l \in 1..Len(t) : t[l] = d
    <3>1. k - 1 \in 1..Len(t) /\ t[k-1] = q[k]
      BY <2>1, <2>2, <2>5
    <3> QED
      BY <3>1, <2>5
  <2>6. \A d : ~(Holds(q, d) /\ d # c)
    BY <1>2 DEF Holds
  <2> QED
    BY <2>1, <2>2, <2>3, <2>4, <2>5, <2>6 DEF InLine
<1> QED
  BY <1>1, <1>2

Elsewhere(a, b, c) == \A d \in Callers \ {c} : b[d] = a[d]

\* A request that does not come near a queue,
LEMMA LineStays ==
  ASSUME NEW q, NEW a, NEW b, NEW w, NEW s, LineOK(q, a, w, s), NEW c \in Callers,
         Elsewhere(a, b, c), a[c] \notin {w, s}, b[c] \notin {w, s}
  PROVE  LineOK(q, b, w, s)
BY DEF LineOK, Elsewhere

\* joins it,
LEMMA LineJoined ==
  ASSUME NEW q, NEW a, NEW b, NEW w, NEW s, w # s, LineOK(q, a, w, s), NEW c \in Callers,
         Elsewhere(a, b, c), a[c] \notin {w, s}, b[c] = w
  PROVE  LineOK(Append(q, c), b, w, s)
<1>1. q \in Seq(Callers) /\ Once(q) /\ ~InLine(q, c)
  BY DEF LineOK, Once
<1>2. /\ Append(q, c) \in Seq(Callers) /\ Once(Append(q, c))
      /\ \A d : InLine(Append(q, c), d) <=> d = c \/ InLine(q, d)
      /\ \A d : Holds(q, d) => Holds(Append(q, c), d)
  BY <1>1, JoinLine
<1> QED
  BY <1>2 DEF LineOK, Once, Elsewhere

\* leaves it, if it was in it,
LEMMA LineLeft ==
  ASSUME NEW q, NEW a, NEW b, NEW w, NEW s, LineOK(q, a, w, s), NEW c \in Callers,
         Elsewhere(a, b, c), a[c] = w => Holds(q, c), b[c] \notin {w, s}
  PROVE  LineOK(Rest(q, c), b, w, s)
<1>1. q \in Seq(Callers) /\ Once(q) /\ (InLine(q, c) => Holds(q, c))
  BY DEF LineOK, Once
<1>2. /\ Rest(q, c) \in Seq(Callers) /\ Once(Rest(q, c))
      /\ \A d : InLine(Rest(q, c), d) <=> d # c /\ InLine(q, d)
      /\ \A d : Holds(q, d) /\ d # c => Holds(Rest(q, c), d)
  BY <1>1, RestLine
<1> QED
  BY <1>2 DEF LineOK, Once, Elsewhere

\* or is first and gets on.
LEMMA LineServed ==
  ASSUME NEW q, NEW a, NEW b, NEW w, NEW s, LineOK(q, a, w, s), NEW c \in Callers,
         Elsewhere(a, b, c), a[c] = w, b[c] = s, Holds(q, c)
  PROVE  LineOK(q, b, w, s)
BY DEF LineOK, Elsewhere

\* Only one request writes.
LEMMA OneWrites ==
  ASSUME NEW q, NEW a, NEW w, NEW s, LineOK(q, a, w, s), NEW c \in Callers, NEW d \in Callers,
         Holds(q, c), a[d] = s
  PROVE  d = c
BY DEF LineOK, Holds

(***************************************************************************)
(* Requests that leave the files alone                                     *)
(***************************************************************************)
\* All others are where they were.
Others(c) ==
  \A d \in Callers \ {c} :
    /\ at'[d] = at[d] /\ op'[d] = op[d] /\ who'[d] = who[d] /\ on'[d] = on[d]
    /\ found'[d] = found[d] /\ list'[d] = list[d] /\ began'[d] = began[d]
    /\ draft'[d] = draft[d]

LEMMA FlightFinite ==
  ASSUME NEW i, NEW T \in SUBSET Flight(i)
  PROVE  IsFiniteSet(Flight(i)) /\ IsFiniteSet(T) /\ Cardinality(T) \in Nat
         /\ Cardinality(Flight(i)) \in Nat /\ Cardinality(T) <= Cardinality(Flight(i))
<1>1. Flight(i) \subseteq Callers
  BY DEF Flight
<1>2. IsFiniteSet(Flight(i))
  BY <1>1, CallersFinite, FS_Subset
<1> QED
  BY <1>2, FS_Subset, FS_CardinalityType

LEMMA TypeParts ==
  IInv => /\ RequestType /\ FileType /\ CountType /\ RosterType /\ Lines
          /\ \A c \in Callers : CallerOK(c) /\ CreateOK(c)
BY DEF IInv, FileType, CallerInv

\* What a request has is disturbed by no other that leaves the files alone.
LEMMA OthersStay ==
  ASSUME IInv, NEW c \in Callers, Others(c), Files, NEW d \in Callers, d # c
  PROVE  CallerOK(d)'
<1>1. CallerOK(d)
  BY TypeParts
<1>2. RequestOK(d)' /\ TimeOK(d)'
  BY <1>1 DEF CallerOK, RequestOK, TimeOK, Others, Files
<1>3. ClaimOK(d)'
  BY <1>1 DEF CallerOK, ClaimOK, Others, Files
<1>4. DraftOK(d)'
  BY <1>1 DEF CallerOK, DraftOK, Others, Files, roster, Outlives
<1> QED
  BY <1>2, <1>3, <1>4 DEF CallerOK

LEMMA QuietStep ==
  ASSUME IInv, NEW c \in Callers, Others(c), Files, RequestType', Lines', faults' \in 0..MaxFaults,
         CallerOK(c)', CreateOK(c)',
         op'[c] = "create" => \/ grantAt[on'[c]] > 0 \/ (op[c] = "create" /\ on'[c] = on[c])
                              \/ \A d \in Callers : on[d] # on'[c],
         at'[c] \in {"roster", "rsave"} /\ op'[c] = "claim" =>
           at[c] \in {"roster", "rsave"} /\ op[c] = "claim" /\ on'[c] = on[c]
  PROVE  IInv'
<1>1. FileType'
  BY TypeParts DEF FileType, CountType, RosterType, Files, roster
<1>2. ASSUME NEW d \in Callers, d # c
      PROVE  CreateOK(d)'
  <2>1. CreateOK(d) /\ CreateOK(c)
    BY TypeParts
  <2>2. /\ at'[d] = at[d] /\ op'[d] = op[d] /\ on'[d] = on[d] /\ began'[d] = began[d]
        /\ made' = made /\ grantAt' = grantAt
    BY <1>2 DEF Others, Files
  <2>3. ASSUME op'[d] = "create", grantAt'[on'[d]] = 0, NEW e \in Callers, op'[e] = "create", on'[e] = on'[d]
        PROVE  e = d
    <3>1. CASE e # c
      <4>1. op'[e] = op[e] /\ on'[e] = on[e]
        BY <3>1 DEF Others
      <4> QED
        BY <2>1, <2>2, <2>3, <4>1 DEF CreateOK
    <3>2. CASE e = c
      BY <2>1, <2>2, <2>3, <3>2, <1>2 DEF CreateOK
    <3> QED
      BY <3>1, <3>2
  <2> QED
    BY <2>1, <2>2, <2>3 DEF CreateOK
<1>3. CallerInv'
  BY <1>2, OthersStay DEF CallerInv
<1>4. LinkInv'
  BY DEF IInv, LinkInv, Files, Outlives
<1>5. ASSUME NEW i \in Links
      PROVE  (letIn[i] + Cardinality(Flight(i)) + link[i].uses <= Uses)'
  <2>1. Flight(i)' \subseteq Flight(i)
    BY DEF Flight, Others
  <2>2. letIn'[i] = letIn[i] /\ link'[i] = link[i] /\ letIn[i] \in Nat /\ link[i].uses \in Nat
    BY TypeParts DEF Files, FileType, CountType, Link
  <2>3. Cardinality(Flight(i)') \in Nat /\ Cardinality(Flight(i)) \in Nat
        /\ Cardinality(Flight(i)') <= Cardinality(Flight(i))
    BY <2>1, FlightFinite
  <2>4. letIn[i] + Cardinality(Flight(i)) + link[i].uses <= Uses /\ Uses \in Nat
    BY Numbers DEF IInv, UsesInv
  <2> QED
    BY <2>2, <2>3, <2>4
<1> QED
  BY <1>1, <1>3, <1>4, <1>5 DEF IInv, UsesInv

LEMMA Blank == NoLink \in Link /\ NoDraft \in Draft /\ NoList \in [date : 0..MaxTime, members : SUBSET People]
BY Numbers DEF NoLink, Link, NoDraft, Draft, NoList

\* A request that is answered holds nothing any more.
LEMMA Answered ==
  ASSUME RequestType, Lines, NEW c \in Callers, Return(c),
         at[c] = "invites" => Holds(iq, c), at[c] = "roster" => Holds(rq, c)
  PROVE  /\ RequestType' /\ Lines' /\ Others(c) /\ CallerOK(c)' /\ CreateOK(c)'
         /\ at'[c] = "idle" /\ op'[c] = "none"
<1>1. /\ at' = [at EXCEPT ![c] = "idle"] /\ op' = [op EXCEPT ![c] = "none"]
      /\ who' = [who EXCEPT ![c] = Nobody] /\ on' = [on EXCEPT ![c] = Nobody]
      /\ found' = [found EXCEPT ![c] = NoLink] /\ list' = [list EXCEPT ![c] = NoList]
      /\ began' = [began EXCEPT ![c] = 0] /\ draft' = [draft EXCEPT ![c] = NoDraft]
      /\ iq' = Rest(iq, c) /\ rq' = Rest(rq, c)
  BY DEF Return, Goto
<1>2. Others(c) /\ at'[c] = "idle" /\ op'[c] = "none" /\ on'[c] = Nobody
  BY <1>1 DEF RequestType, Others
<1>3. RequestType'
  BY <1>1, Blank, Numbers DEF RequestType
<1>4. Elsewhere(at, at', c)
  BY <1>2 DEF Others, Elsewhere
<1>5. LineOK(iq', at', "invites", "isave")
  BY <1>1, <1>2, <1>4, LineLeft DEF Lines
<1>6. LineOK(rq', at', "roster", "rsave")
  BY <1>1, <1>2, <1>4, LineLeft DEF Lines
<1>7. Lines'
  BY <1>5, <1>6 DEF Lines
<1>8. RequestOK(c)' /\ TimeOK(c)' /\ ClaimOK(c)' /\ DraftOK(c)'
  BY <1>2 DEF RequestOK, TimeOK, ClaimOK, DraftOK
<1> QED
  BY <1>2, <1>3, <1>7, <1>8 DEF CallerOK, CreateOK

LEMMA AnswerStep ==
  ASSUME IInv, NEW c \in Callers, Return(c), Files, faults' \in 0..MaxFaults,
         at[c] = "invites" => Holds(iq, c), at[c] = "roster" => Holds(rq, c)
  PROVE  IInv'
BY TypeParts, Answered, QuietStep

LEMMA FaultsType == IInv => faults \in 0..MaxFaults /\ (Fault => faults' \in 0..MaxFaults)
BY Numbers, TypeParts DEF CountType, Fault

\* A request goes on to a place of no queue.
LEMMA GoStep ==
  ASSUME IInv, NEW c \in Callers, NEW l \in {"member", "seat"}, Goto(c, l), Stay, Files,
         UNCHANGED <<iq, rq, faults>>, at[c] \in {"find", "member"},
         found' \in [Callers -> Link], \A d \in Callers \ {c} : found'[d] = found[d],
         found'[c].kind # "none",
         made[on[c]] = 1 /\ link[on[c]].kind \in {"none", found'[c].kind}
  PROVE  IInv'
<1>1. RequestType /\ Lines /\ CallerOK(c) /\ CreateOK(c)
  BY TypeParts
<1>2. at' \in [Callers -> {"idle", "find", "member", "seat", "invites", "isave",
                         "roster", "rsave", "check"}] /\ at'[c] = l
      /\ \A d \in Callers \ {c} : at'[d] = at[d]
  BY <1>1 DEF RequestType, Goto
<1>3. RequestType' /\ Others(c)
  BY <1>1, <1>2 DEF RequestType, Stay, Others
<1>4. LineOK(iq, at', "invites", "isave") /\ LineOK(rq, at', "roster", "rsave")
  BY <1>1, <1>2, LineStays DEF Lines, Elsewhere
<1>5. Lines'
  BY <1>4 DEF Lines
<1>6. RequestOK(c)'
  BY <1>1, <1>2 DEF CallerOK, RequestOK, Stay
<1>7. TimeOK(c)' /\ ClaimOK(c)' /\ DraftOK(c)' /\ CreateOK(c)'
  BY <1>1, <1>2 DEF CallerOK, TimeOK, ClaimOK, DraftOK, CreateOK, RequestOK, Stay, Files
<1>8. op'[c] # "create" /\ at'[c] \notin {"roster", "rsave"}
  BY <1>1, <1>2 DEF CallerOK, RequestOK, Stay
<1> QED
  BY <1>3, <1>5, <1>6, <1>7, <1>8, FaultsType, QuietStep DEF CallerOK

\* A request goes on to write the invites.
LEMMA QueueStep ==
  ASSUME IInv, NEW c \in Callers, QueueInvites(c), Stay, Files, UNCHANGED <<found, faults>>,
         at[c] \in {"member", "seat", "check"}
  PROVE  IInv'
<1>1. RequestType /\ Lines /\ CallerOK(c) /\ CreateOK(c)
  BY TypeParts
<1>2. /\ at' \in [Callers -> {"idle", "find", "member", "seat", "invites", "isave",
                             "roster", "rsave", "check"}]
      /\ at'[c] = "invites" /\ \A d \in Callers \ {c} : at'[d] = at[d]
      /\ iq' = Append(iq, c) /\ rq' = rq
  BY <1>1 DEF RequestType, QueueInvites, Goto
<1>3. RequestType' /\ Others(c)
  BY <1>1, <1>2 DEF RequestType, Stay, Others
<1>4. LineOK(iq', at', "invites", "isave")
  BY <1>1, <1>2, LineJoined DEF Lines, Elsewhere
<1>5. LineOK(rq', at', "roster", "rsave")
  BY <1>1, <1>2, LineStays DEF Lines, Elsewhere
<1>6. Lines'
  BY <1>4, <1>5 DEF Lines
<1>7. RequestOK(c)'
  BY <1>1, <1>2 DEF CallerOK, RequestOK, Stay
<1>8. TimeOK(c)' /\ ClaimOK(c)' /\ DraftOK(c)' /\ CreateOK(c)'
  BY <1>1, <1>2 DEF CallerOK, TimeOK, ClaimOK, DraftOK, CreateOK, RequestOK, Stay, Files
<1>9. op'[c] # "create" /\ at'[c] \notin {"roster", "rsave"}
  BY <1>1, <1>2 DEF CallerOK, RequestOK, Stay
<1> QED
  BY <1>3, <1>6, <1>7, <1>8, <1>9, FaultsType, QuietStep DEF CallerOK

Lists == [date : 0..MaxTime, members : SUBSET People]

\* What a request has found, and the list it puts.
LEMMA FoundType ==
  ASSUME IInv, NEW c \in Callers
  PROVE  /\ found \in [Callers -> Link] /\ list \in [Callers -> Lists]
         /\ \A r \in Link : found' = [found EXCEPT ![c] = r] =>
              /\ found' \in [Callers -> Link] /\ found'[c] = r
              /\ \A d \in Callers \ {c} : found'[d] = found[d]
         /\ \A m \in Lists : list' = [list EXCEPT ![c] = m] =>
              list' \in [Callers -> Lists] /\ \A d \in Callers \ {c} : list'[d] = list[d]
<1>1. found \in [Callers -> Link] /\ list \in [Callers -> Lists]
  BY TypeParts DEF RequestType, Lists
<1> QED
  BY <1>1

\* A request comes in.
LEMMA StartType ==
  ASSUME IInv, NEW c \in Callers, NEW p \in People \cup {Nobody}, NEW i \in Links \cup {Nobody},
         NEW o \in {"claim", "create", "revoke", "approve", "decline", "put"},
         NEW l \in {"find", "check", "invites", "roster"},
         Start(c, o, p, i), Goto(c, l), Files, UNCHANGED draft,
         found' \in [Callers -> Link] /\ list' \in [Callers -> Lists],
         \A d \in Callers \ {c} : found'[d] = found[d] /\ list'[d] = list[d]
  PROVE  /\ RequestType' /\ Others(c) /\ Elsewhere(at, at', c) /\ TimeOK(c)'
         /\ at'[c] = l /\ op'[c] = o /\ on'[c] = i /\ who'[c] = p /\ began'[c] = now
<1>1. RequestType /\ CountType
  BY TypeParts
<1>2. /\ at' = [at EXCEPT ![c] = l] /\ op' = [op EXCEPT ![c] = o] /\ who' = [who EXCEPT ![c] = p]
      /\ on' = [on EXCEPT ![c] = i] /\ began' = [began EXCEPT ![c] = now]
      /\ now' = now /\ now \in 0..MaxTime /\ now \in Nat
  BY <1>1, Numbers DEF Start, Goto, Files, CountType
<1>3. at'[c] = l /\ op'[c] = o /\ on'[c] = i /\ who'[c] = p /\ began'[c] = now
  BY <1>1, <1>2 DEF RequestType
<1>4. Others(c) /\ Elsewhere(at, at', c)
  BY <1>1, <1>2 DEF RequestType, Others, Elsewhere
<1>6. /\ at' \in [Callers -> {"idle", "find", "member", "seat", "invites", "isave",
                             "roster", "rsave", "check"}]
      /\ op' \in [Callers -> {"none", "claim", "create", "revoke", "approve", "decline", "put"}]
  BY <1>1, <1>2 DEF RequestType
<1>7. RequestType'
  BY <1>1, <1>2, <1>6 DEF RequestType, Lists
<1>8. TimeOK(c)'
  BY <1>2, <1>3 DEF TimeOK
<1> QED
  BY <1>3, <1>4, <1>7, <1>8

\* One that looks before it queues,
LEMMA LookStep ==
  ASSUME IInv, NEW c \in Callers, NEW p \in People, NEW i \in Links, NEW o, NEW l,
         (o = "claim" /\ l = "find") \/ (o = "approve" /\ l = "check"),
         Start(c, o, p, i), Goto(c, l), Files, UNCHANGED <<found, list, draft, iq, rq, faults>>
  PROVE  IInv'
<1>1. /\ RequestType' /\ Others(c) /\ Elsewhere(at, at', c) /\ TimeOK(c)'
      /\ at'[c] = l /\ op'[c] = o /\ on'[c] = i /\ who'[c] = p
  BY StartType, FoundType
<1>2. at[c] = "idle" /\ Lines
  BY TypeParts DEF Start
<1>3. LineOK(iq, at', "invites", "isave") /\ LineOK(rq, at', "roster", "rsave")
  BY <1>1, <1>2, LineStays DEF Lines
<1>4. Lines'
  BY <1>3 DEF Lines
<1>5. RequestOK(c)' /\ ClaimOK(c)' /\ DraftOK(c)' /\ CreateOK(c)'
  BY <1>1 DEF RequestOK, ClaimOK, DraftOK, CreateOK
<1> QED
  BY <1>1, <1>4, <1>5, FaultsType, QuietStep DEF CallerOK

\* one that queues at once, other than a create,
LEMMA AskStep ==
  ASSUME IInv, NEW c \in Callers, NEW p \in People \cup {Nobody}, NEW i \in Links,
         NEW o \in {"revoke", "decline"}, o = "decline" => p \in People,
         Start(c, o, p, i), QueueInvites(c), Files, UNCHANGED <<found, list, draft, faults>>
  PROVE  IInv'
<1>1. Goto(c, "invites") /\ iq' = Append(iq, c) /\ rq' = rq
  BY DEF QueueInvites
<1>2. /\ RequestType' /\ Others(c) /\ Elsewhere(at, at', c) /\ TimeOK(c)'
      /\ at'[c] = "invites" /\ op'[c] = o /\ on'[c] = i /\ who'[c] = p
  BY <1>1, StartType, FoundType
<1>3. at[c] = "idle" /\ Lines
  BY TypeParts DEF Start
<1>4. LineOK(iq', at', "invites", "isave")
  BY <1>1, <1>2, <1>3, LineJoined DEF Lines
<1>5. LineOK(rq', at', "roster", "rsave")
  BY <1>1, <1>2, <1>3, LineStays DEF Lines
<1>6. Lines'
  BY <1>4, <1>5 DEF Lines
<1>7. RequestOK(c)' /\ ClaimOK(c)' /\ DraftOK(c)' /\ CreateOK(c)'
  BY <1>2 DEF RequestOK, ClaimOK, DraftOK, CreateOK
<1> QED
  BY <1>2, <1>6, <1>7, FaultsType, QuietStep DEF CallerOK

\* a create, for an id that is new or granted,
LEMMA CreateStep ==
  ASSUME IInv, NEW c \in Callers, NEW p \in People \cup {Nobody}, NEW i \in Links, NEW r \in Link,
         Start(c, "create", p, i), QueueInvites(c), Files, UNCHANGED <<list, draft, faults>>,
         found' = [found EXCEPT ![c] = r], r.kind # "none", ~r.revoked, r.waiting = {},
         \/ Fresh(i)
         \/ (grantAt[i] > 0 /\ grantAt[i] <= now + Skew /\ now <= grantAt[i] + Skew)
  PROVE  IInv'
<1>1. Goto(c, "invites") /\ iq' = Append(iq, c) /\ rq' = rq
  BY DEF QueueInvites
<1>2. /\ RequestType' /\ Others(c) /\ Elsewhere(at, at', c) /\ TimeOK(c)'
      /\ at'[c] = "invites" /\ op'[c] = "create" /\ on'[c] = i /\ who'[c] = p
      /\ began'[c] = now /\ found'[c] = r
  <2>1. /\ found' \in [Callers -> Link] /\ found'[c] = r /\ list' \in [Callers -> Lists]
        /\ \A d \in Callers \ {c} : found'[d] = found[d] /\ list'[d] = list[d]
    BY FoundType
  <2> QED
    BY <1>1, <2>1, StartType
<1>3. at[c] = "idle" /\ Lines
  BY TypeParts DEF Start
<1>4. LineOK(iq', at', "invites", "isave")
  BY <1>1, <1>2, <1>3, LineJoined DEF Lines
<1>5. LineOK(rq', at', "roster", "rsave")
  BY <1>1, <1>2, <1>3, LineStays DEF Lines
<1>6. Lines'
  BY <1>4, <1>5 DEF Lines
<1>7. RequestOK(c)' /\ ClaimOK(c)' /\ DraftOK(c)'
  BY <1>2 DEF RequestOK, ClaimOK, DraftOK
<1>8. grantAt[i] > 0 \/ \A d \in Callers : on[d] # i
  BY DEF Fresh
<1>9. CreateOK(c)'
  <2>1. made' = made /\ grantAt' = grantAt /\ grantAt[i] \in Nat
    BY TypeParts DEF Files, CountType
  <2>2. ASSUME grantAt[i] = 0
        PROVE  made[i] = 0 /\ \A d \in Callers : on'[d] = i => d = c
    BY <1>2, <2>1, <2>2 DEF Fresh, Others
  <2> QED
    BY <1>2, <2>1, <2>2 DEF CreateOK, Fresh
<1>10. CallerOK(c)' /\ faults' \in 0..MaxFaults
  BY <1>2, <1>7, FaultsType DEF CallerOK
<1>11. op'[c] = "create" => \/ grantAt[on'[c]] > 0 \/ (op[c] = "create" /\ on'[c] = on[c])
                            \/ \A d \in Callers : on[d] # on'[c]
  BY <1>2, <1>8
<1>12. at'[c] \in {"roster", "rsave"} /\ op'[c] = "claim" =>
         at[c] \in {"roster", "rsave"} /\ op[c] = "claim" /\ on'[c] = on[c]
  BY <1>2
<1> QED
  BY <1>2, <1>6, <1>9, <1>10, <1>11, <1>12, QuietStep

\* or a member list.
LEMMA PutStep ==
  ASSUME IInv, NEW c \in Callers, NEW t \in 1..MaxTime, NEW S \in SUBSET People, Put(c, t, S)
  PROVE  IInv'
<1>1. /\ Goto(c, "roster") /\ iq' = Rest(iq, c) /\ rq' = Append(rq, c)
      /\ Start(c, "put", Nobody, Nobody) /\ Files /\ UNCHANGED <<found, draft, faults>>
      /\ list' = [list EXCEPT ![c] = [date |-> t, members |-> S]]
      /\ [date |-> t, members |-> S] \in Lists
  BY Numbers DEF Put, QueueRoster, Lists
<1>2. /\ RequestType' /\ Others(c) /\ Elsewhere(at, at', c) /\ TimeOK(c)'
      /\ at'[c] = "roster" /\ op'[c] = "put"
  <2>1. /\ found' \in [Callers -> Link] /\ list' \in [Callers -> Lists]
        /\ \A d \in Callers \ {c} : found'[d] = found[d] /\ list'[d] = list[d]
    BY <1>1, FoundType
  <2> QED
    BY <1>1, <2>1, StartType
<1>3. at[c] = "idle" /\ Lines
  BY <1>1, TypeParts DEF Start
<1>4. LineOK(iq', at', "invites", "isave")
  BY <1>1, <1>2, <1>3, LineLeft DEF Lines
<1>5. LineOK(rq', at', "roster", "rsave")
  BY <1>1, <1>2, <1>3, LineJoined DEF Lines
<1>6. Lines'
  BY <1>4, <1>5 DEF Lines
<1>7. RequestOK(c)' /\ ClaimOK(c)' /\ DraftOK(c)' /\ CreateOK(c)'
  BY <1>2 DEF RequestOK, ClaimOK, DraftOK, CreateOK
<1> QED
  BY <1>1, <1>2, <1>6, <1>7, FaultsType, QuietStep DEF CallerOK

(***************************************************************************)
(* Links                                                                   *)
(***************************************************************************)
LEMMA NothingIsLink == LinkOK(NoLink) /\ NoLink \in Link
BY Blank DEF LinkOK, NoLink

\* What claims, revocations and decisions make of a link.
LEMMA ClaimedLink ==
  ASSUME NEW r \in Link, LinkOK(r), NEW p \in People, NEW s \in Claimed(r, p)
  PROVE  s \in Link /\ After("claim", r, s)
<1>1. /\ r.uses \in Nat /\ Uses \in Nat /\ r.uses > 0 /\ r.kind # "none" /\ ~r.revoked
  BY Numbers DEF Claimed, Usable, Link
<1>2. CASE r.kind = "named"
  <2>1. s = [r EXCEPT !.uses = 0] /\ r.waiting = {}
    BY <1>1, <1>2 DEF Claimed, LinkOK
  <2> QED
    BY <1>1, <1>2, <2>1 DEF Link, After, LinkOK, NoLink
<1>3. CASE r.kind = "auto"
  <2>1. s = [r EXCEPT !.uses = @ - 1] /\ r.waiting = {}
    BY <1>1, <1>3 DEF Claimed, LinkOK
  <2> QED
    BY <1>1, <1>3, <2>1 DEF Link, After, LinkOK, NoLink
<1>4. CASE r.kind = "open"
  <2>1. s = [r EXCEPT !.waiting = @ \cup {p}]
    BY <1>1, <1>4 DEF Claimed
  <2> QED
    BY <1>1, <1>4, <2>1 DEF Link, After, LinkOK, NoLink
<1> QED
  BY <1>1, <1>2, <1>3, <1>4 DEF Link

LEMMA RevokedLink ==
  ASSUME NEW r \in Link, LinkOK(r), NEW s \in Revoked(r)
  PROVE  s \in Link /\ After("revoke", r, s)
<1>1. s = [r EXCEPT !.revoked = TRUE, !.waiting = {}] /\ r.kind # "none"
  BY DEF Revoked
<1>2. s \in Link
  BY <1>1 DEF Link
<1>3. /\ r.uses \in Nat /\ s.kind = r.kind /\ s.ends = r.ends /\ s.uses = r.uses
      /\ s.revoked /\ s.waiting = {}
  BY <1>1 DEF Link
<1> QED
  BY <1>1, <1>2, <1>3 DEF After, LinkOK

LEMMA DecidedLink ==
  ASSUME NEW r \in Link, LinkOK(r), NEW p \in People, NEW a \in BOOLEAN, NEW s \in Decided(r, p, a),
         NEW o, o = IF a THEN "approve" ELSE "decline"
  PROVE  s \in Link /\ After(o, r, s)
<1> DEFINE left == IF a THEN r.uses - 1 ELSE r.uses
           w == IF a /\ left = 0 THEN {} ELSE r.waiting \ {p}
<1>1. /\ r.uses \in Nat /\ Uses \in Nat /\ r.uses <= Uses /\ r.uses > 0 /\ r.kind = "open" /\ ~r.revoked
      /\ p \in r.waiting
  BY Numbers DEF Decided, LinkOK, Link
<1>2. s = [r EXCEPT !.uses = left, !.waiting = w]
  BY <1>1 DEF Decided
<1>3. left \in 0..Uses /\ left <= r.uses /\ w \in SUBSET People /\ (w # {} => left > 0)
      /\ (a => left + 1 = r.uses)
  BY <1>1 DEF Link
<1> HIDE DEF left, w
<1> QED
  BY <1>1, <1>2, <1>3 DEF Link, After, LinkOK, NoLink

LEMMA ResultLink ==
  ASSUME IInv, NEW c \in Callers, at[c] = "invites", NEW s \in Result(c)
  PROVE  /\ s \in Link
         /\ op[c] # "create" => After(op[c], link[on[c]], s)
         /\ op[c] = "create" => /\ link[on[c]].kind = "none"
                                /\ s = [found[c] EXCEPT !.ends = now + Ttl]
<1>1. /\ RequestType /\ FileType /\ CountType /\ RequestOK(c)
  BY TypeParts DEF CallerOK
<1>2. on[c] \in Links /\ link[on[c]] \in Link /\ LinkOK(link[on[c]])
  BY <1>1 DEF RequestOK, FileType, IInv, LinkInv
<1>3. CASE op[c] = "claim"
  <2>1. s \in Claimed(link[on[c]], who[c]) /\ who[c] \in People
    BY <1>1, <1>3 DEF Result, RequestOK
  <2> QED
    BY <1>2, <1>3, <2>1, ClaimedLink
<1>4. CASE op[c] = "revoke"
  <2>1. s \in Revoked(link[on[c]])
    BY <1>4 DEF Result
  <2> QED
    BY <1>2, <1>4, <2>1, RevokedLink
<1>5. CASE op[c] = "approve"
  <2>1. s \in Decided(link[on[c]], who[c], TRUE) /\ who[c] \in People
    BY <1>1, <1>5 DEF Result, RequestOK
  <2> QED
    BY <1>2, <1>5, <2>1, DecidedLink
<1>6. CASE op[c] = "decline"
  <2>1. s \in Decided(link[on[c]], who[c], FALSE) /\ who[c] \in People
    BY <1>1, <1>6 DEF Result, RequestOK
  <2> QED
    BY <1>2, <1>6, <2>1, DecidedLink
<1>7. CASE op[c] = "create"
  <2>1. link[on[c]].kind = "none" /\ s = [found[c] EXCEPT !.ends = now + Ttl]
    BY <1>7 DEF Result
  <2>2. found[c] \in Link /\ now + Ttl \in 0..(MaxTime + Ttl)
    BY <1>1, Numbers DEF RequestType, CountType
  <2> QED
    BY <1>7, <2>1, <2>2 DEF Link
<1> QED
  BY <1>1, <1>3, <1>4, <1>5, <1>6, <1>7 DEF RequestOK

\* A grant makes no second link: by the time the first is pruned it is out of date.
LEMMA OnceGranted ==
  ASSUME IInv, NEW c \in Callers, op[c] = "create", link[on[c]].kind = "none"
  PROVE  made[on[c]] = 0
<1>1. CountType /\ RequestType /\ RequestOK(c) /\ TimeOK(c) /\ CreateOK(c) /\ on[c] \in Links
  BY TypeParts DEF CallerOK, RequestOK
<1>2. /\ made[on[c]] \in Nat /\ made[on[c]] <= 1
      /\ made[on[c]] = 1 /\ grantAt[on[c]] > 0 => Outlives(now, on[c])
  BY <1>1 DEF IInv, LinkInv, CountType
<1>3. grantAt[on[c]] \in Nat /\ began[c] \in Nat /\ now \in Nat /\ Skew \in Nat /\ Ttl \in Nat
  BY <1>1, Numbers DEF CountType, RequestType
<1>4. CASE grantAt[on[c]] = 0
  BY <1>1, <1>4 DEF CreateOK
<1>5. CASE grantAt[on[c]] > 0
  <2>1. began[c] <= grantAt[on[c]] + Skew /\ now <= began[c] + 1
    BY <1>1, <1>5 DEF CreateOK, TimeOK, RequestOK
  <2>2. ~Outlives(now, on[c])
    BY <1>3, <2>1, GrantsExpireFirst DEF Outlives
  <2> QED
    BY <1>2, <1>5, <2>2
<1> QED
  BY <1>3, <1>4, <1>5

LEMMA InvitesLoadStep ==
  ASSUME IInv, NEW c \in Callers, InvitesLoad(c)
  PROVE  IInv'
<1>1. /\ at[c] = "invites" /\ Holds(iq, c) /\ Files /\ UNCHANGED faults
      /\ RequestType /\ Lines /\ FileType /\ CountType /\ CallerOK(c) /\ CreateOK(c) /\ on[c] \in Links
  BY TypeParts DEF InvitesLoad, CallerOK, RequestOK
<1>2. CASE Return(c)
  BY <1>1, <1>2, AnswerStep, FaultsType
<1>3. ASSUME NEW s \in Result(c), draft' = [draft EXCEPT ![c].link = [link EXCEPT ![on[c]] = s]],
             Goto(c, "isave"), UNCHANGED <<op, who, on, found, list, began, iq, rq>>
      PROVE  IInv'
  <2>1. /\ at' \in [Callers -> {"idle", "find", "member", "seat", "invites", "isave",
                               "roster", "rsave", "check"}]
        /\ at'[c] = "isave" /\ \A d \in Callers \ {c} : at'[d] = at[d]
    BY <1>1, <1>3 DEF RequestType, Goto
  <2>2. /\ s \in Link
        /\ op[c] # "create" => After(op[c], link[on[c]], s)
        /\ op[c] = "create" => link[on[c]].kind = "none" /\ s = [found[c] EXCEPT !.ends = now + Ttl]
    BY <1>1, <1>3, ResultLink
  <2>3. /\ draft' \in [Callers -> Draft] /\ \A d \in Callers \ {c} : draft'[d] = draft[d]
        /\ draft'[c].link = [link EXCEPT ![on[c]] = s]
    <3>1. [link EXCEPT ![on[c]] = s] \in [Links -> Link] /\ draft \in [Callers -> Draft]
      BY <1>1, <2>2 DEF FileType, RequestType
    <3> QED
      BY <1>3, <3>1 DEF Draft
  <2>4. RequestType' /\ Others(c)
    BY <1>1, <1>3, <2>1, <2>3 DEF RequestType, Others
  <2>5. LineOK(iq, at', "invites", "isave") /\ LineOK(rq, at', "roster", "rsave")
    BY <1>1, <2>1, LineServed, LineStays DEF Lines, Elsewhere
  <2>6. Lines'
    BY <1>3, <2>5 DEF Lines
  <2>7. RequestOK(c)' /\ TimeOK(c)' /\ ClaimOK(c)'
    BY <1>1, <1>3, <2>1 DEF CallerOK, RequestOK, TimeOK, ClaimOK, Files
  <2>8. draft'[c].link[on[c]] = s /\ \A i \in Links \ {on[c]} : draft'[c].link[i] = link[i]
    BY <1>1, <2>3 DEF FileType
  <2>9. op[c] = "create" /\ grantAt[on[c]] > 0 => Outlives(s.ends, on[c])
    <3> SUFFICES ASSUME op[c] = "create", grantAt[on[c]] > 0 PROVE Outlives(s.ends, on[c])
      OBVIOUS
    <3>1. s.ends = now + Ttl
      BY <1>1, <2>2 DEF RequestType, Link
    <3>2. grantAt[on[c]] <= began[c] + Skew /\ began[c] <= now
      BY <1>1 DEF CreateOK, CallerOK, TimeOK
    <3>3. grantAt[on[c]] \in Nat /\ began[c] \in Nat /\ now \in Nat /\ Skew \in Nat /\ Ttl \in Nat
      BY <1>1, Numbers DEF CountType, RequestType
    <3> QED
      BY <3>1, <3>2, <3>3 DEF Outlives
  <2>10. op[c] = "create" => s = [found[c] EXCEPT !.ends = s.ends]
    BY <1>1, <2>2 DEF RequestType, Link
  <2>11. DraftOK(c)'
    BY <1>1, <1>3, <2>1, <2>2, <2>8, <2>9, <2>10 DEF DraftOK, Files, Outlives
  <2>12. CreateOK(c)'
    <3>1. op[c] = "create" => made[on[c]] = 0
      BY <2>2, OnceGranted
    <3> QED
      BY <1>1, <1>3, <2>1, <3>1 DEF CreateOK, Files
  <2>13. /\ op'[c] = "create" => op[c] = "create" /\ on'[c] = on[c]
         /\ at'[c] \notin {"roster", "rsave"} /\ faults' \in 0..MaxFaults
    BY <1>1, <1>3, <2>1, FaultsType
  <2> QED
    BY <1>1, <2>4, <2>6, <2>7, <2>11, <2>12, <2>13, QuietStep DEF CallerOK
<1> QED
  BY <1>2, <1>3 DEF InvitesLoad

(***************************************************************************)
(* Writing the invites                                                     *)
(***************************************************************************)
\* What the file says after a save: what was drafted, less what has expired.
LEMMA SavedLinks ==
  ASSUME IInv, NEW c \in Callers, InvitesSave(c)
  PROVE  /\ on[c] \in Links /\ draft[c].link[on[c]] \in Link
         /\ link' \in [Links -> Link]
         /\ \A i \in Links \ {on[c]} :
              link'[i] = link[i] \/ (link'[i] = NoLink /\ link[i].ends <= now)
         /\ \/ link'[on[c]] = draft[c].link[on[c]]
            \/ link'[on[c]] = NoLink /\ draft[c].link[on[c]].ends <= now
<1>1. RequestType /\ FileType /\ RequestOK(c) /\ DraftOK(c)
  BY TypeParts DEF CallerOK
<1>2. /\ at[c] = "isave" /\ on[c] \in Links /\ draft[c].link \in [Links -> Link]
      /\ \A i \in Links \ {on[c]} : draft[c].link[i] = link[i]
  BY <1>1 DEF InvitesSave, RequestOK, DraftOK, RequestType, Draft
<1>3. \A i \in Links : link'[i] = IF draft[c].link[i].ends <= now THEN NoLink ELSE draft[c].link[i]
  BY DEF InvitesSave
<1>4. link' \in [Links -> Link]
  BY <1>2, Blank DEF InvitesSave
<1> QED
  BY <1>2, <1>3, <1>4

\* The link a save is about, by what is done.
LEMMA SavedLink ==
  ASSUME IInv, NEW c \in Callers, InvitesSave(c)
  PROVE  LET r == link[on[c]]
             s == draft[c].link[on[c]]
         IN  /\ op[c] \in {"claim", "create", "revoke", "approve", "decline"}
             /\ op[c] # "create" => After(op[c], r, s) /\ made[on[c]] = 1
             /\ op[c] = "create" =>
                  /\ made[on[c]] = 0 /\ letIn[on[c]] = 0 /\ r = NoLink /\ Flight(on[c]) = {}
                  /\ s.kind # "none" /\ ~s.revoked /\ s.waiting = {} /\ s.uses <= Uses
                  /\ grantAt[on[c]] > 0 => Outlives(s.ends, on[c])
<1> DEFINE r == link[on[c]]
           s == draft[c].link[on[c]]
<1>1. /\ RequestType /\ FileType /\ CountType /\ RequestOK(c) /\ DraftOK(c) /\ CreateOK(c)
      /\ at[c] = "isave" /\ on[c] \in Links
  BY TypeParts, SavedLinks DEF CallerOK, InvitesSave
<1>2. made[on[c]] \in Nat /\ made[on[c]] <= 1 /\ (made[on[c]] = 0 => r = NoLink /\ letIn[on[c]] = 0)
  BY <1>1 DEF IInv, LinkInv, CountType
<1>3. CASE op[c] # "create"
  <2>1. After(op[c], r, s) /\ r.kind # "none"
    BY <1>1, <1>3 DEF DraftOK, After
  <2>2. made[on[c]] = 1
    BY <1>2, <2>1 DEF NoLink
  <2> QED
    BY <1>1, <1>3, <2>1, <2>2 DEF RequestOK
<1>4. CASE op[c] = "create"
  <2>1. made[on[c]] = 0 /\ s = [found[c] EXCEPT !.ends = s.ends]
        /\ (grantAt[on[c]] > 0 => Outlives(s.ends, on[c]))
    BY <1>1, <1>4 DEF CreateOK, DraftOK
  <2>2. found[c] \in Link /\ found[c].kind # "none" /\ ~found[c].revoked /\ found[c].waiting = {}
    BY <1>1, <1>4 DEF RequestType, RequestOK
  <2> HIDE DEF s
  <2>3. /\ s.kind = found[c].kind /\ s.revoked = found[c].revoked /\ s.waiting = found[c].waiting
        /\ s.uses = found[c].uses /\ found[c].uses <= Uses
    BY <2>1, <2>2, Numbers DEF Link
  <2>4. ASSUME NEW d \in Flight(on[c]) PROVE FALSE
    <3>1. d \in Callers /\ op[d] = "claim" /\ at[d] # "find" /\ on[d] = on[c]
      BY <2>4 DEF Flight
    <3>2. ClaimOK(d)
      BY <3>1, TypeParts DEF CallerOK
    <3> QED
      BY <2>1, <3>1, <3>2 DEF ClaimOK
  <2> QED
    BY <1>2, <1>4, <2>1, <2>2, <2>3, <2>4 DEF s
<1> QED
  BY <1>3, <1>4

\* Who has saved is answered, or goes on to admit somebody.
LEMMA SavedRequest ==
  ASSUME IInv, NEW c \in Callers, InvitesSave(c)
  PROVE  /\ RequestType' /\ Lines' /\ Others(c) /\ RequestOK(c)' /\ TimeOK(c)'
         /\ DraftOK(c)' /\ op'[c] # "create"
         /\ \/ at'[c] = "idle" /\ op'[c] = "none"
            \/ /\ at'[c] = "roster" /\ op[c] = "claim" /\ op'[c] = "claim" /\ found[c].kind = "auto"
               /\ on'[c] = on[c] /\ found'[c] = found[c]
<1>1. /\ RequestType /\ Lines /\ CallerOK(c) /\ at[c] = "isave" /\ Holds(iq, c)
  BY TypeParts DEF InvitesSave
<1>2. CASE Return(c)
  BY <1>1, <1>2, Answered DEF CallerOK
<1>3. CASE op[c] = "claim" /\ found[c].kind = "auto" /\ QueueRoster(c) /\ Stay /\ UNCHANGED found
  <2>1. rq' = Append(rq, c) /\ iq' = Rest(iq, c)
    BY <1>3 DEF QueueRoster
  <2>2. /\ at' \in [Callers -> {"idle", "find", "member", "seat", "invites", "isave",
                               "roster", "rsave", "check"}]
        /\ at'[c] = "roster" /\ \A d \in Callers \ {c} : at'[d] = at[d]
    BY <1>1, <1>3 DEF RequestType, QueueRoster, Goto
  <2>3. RequestType' /\ Others(c)
    BY <1>1, <1>3, <2>2 DEF RequestType, Stay, Others
  <2>4. LineOK(rq', at', "roster", "rsave")
    BY <1>1, <2>1, <2>2, LineJoined DEF Lines, Elsewhere
  <2>5. LineOK(iq', at', "invites", "isave")
    BY <1>1, <2>1, <2>2, LineLeft DEF Lines, Elsewhere
  <2>6. Lines'
    BY <2>4, <2>5 DEF Lines
  <2>7. RequestOK(c)' /\ DraftOK(c)'
    BY <1>1, <1>3, <2>2 DEF CallerOK, RequestOK, DraftOK, Stay
  <2>8. TimeOK(c)'
    BY <1>1, <1>3, <2>2 DEF CallerOK, TimeOK, Stay, InvitesSave
  <2> QED
    BY <1>3, <2>2, <2>3, <2>6, <2>7, <2>8 DEF Stay
<1> QED
  BY <1>2, <1>3 DEF InvitesSave

LEMMA InvitesSaveCallers ==
  ASSUME IInv, NEW c \in Callers, InvitesSave(c)
  PROVE  CallerInv'
<1> DEFINE r == link[on[c]]
           s == draft[c].link[on[c]]
<1>1. /\ RequestOK(c)' /\ TimeOK(c)' /\ DraftOK(c)' /\ op'[c] # "create" /\ Others(c)
      /\ \/ at'[c] = "idle" /\ op'[c] = "none"
         \/ /\ at'[c] = "roster" /\ op[c] = "claim" /\ op'[c] = "claim" /\ found[c].kind = "auto"
            /\ on'[c] = on[c] /\ found'[c] = found[c]
  BY SavedRequest
<1>2. /\ on[c] \in Links /\ UNCHANGED <<now, grantAt, roster>> /\ Lines /\ Holds(iq, c) /\ CountType
      /\ made' = IF op[c] = "create" THEN [made EXCEPT ![on[c]] = @ + 1] ELSE made
      /\ at[c] = "isave"
  BY SavedLinks, TypeParts DEF InvitesSave
<1>3. /\ \A i \in Links \ {on[c]} : link'[i] = link[i] \/ link'[i] = NoLink
      /\ link'[on[c]] = s \/ link'[on[c]] = NoLink
      /\ op[c] # "create" => s.kind = r.kind
      /\ op[c] = "create" => made[on[c]] = 0
  BY SavedLinks, SavedLink DEF After
<1> HIDE DEF r, s
<1>4. NoLink.kind = "none"
  BY DEF NoLink
<1>5. ASSUME NEW d \in Callers, ClaimOK(d), op[d] = "claim", at[d] # "find", on[d] \in Links
      PROVE  made'[on[d]] = 1 /\ link'[on[d]].kind \in {"none", found[d].kind}
  <2>1. made[on[d]] = 1 /\ link[on[d]].kind \in {"none", found[d].kind}
    BY <1>5 DEF ClaimOK
  <2>2. CASE on[d] # on[c]
    BY <1>2, <1>3, <1>4, <1>5, <2>1, <2>2 DEF CountType
  <2>3. CASE on[d] = on[c]
    BY <1>2, <1>3, <1>4, <2>1, <2>3 DEF r
  <2> QED
    BY <2>2, <2>3
<1>6. ASSUME NEW d \in Callers, d # c
      PROVE  CallerOK(d)' /\ CreateOK(d)'
  <2>1. CallerOK(d) /\ CreateOK(d) /\ CreateOK(c)
    BY TypeParts
  <2>2. /\ at'[d] = at[d] /\ op'[d] = op[d] /\ who'[d] = who[d] /\ on'[d] = on[d]
        /\ found'[d] = found[d] /\ list'[d] = list[d] /\ began'[d] = began[d]
        /\ draft'[d] = draft[d]
    BY <1>1, <1>6 DEF Others
  <2>3. RequestOK(d)' /\ TimeOK(d)'
    BY <1>2, <2>1, <2>2 DEF CallerOK, RequestOK, TimeOK
  <2>4. ClaimOK(d)'
    BY <1>5, <2>1, <2>2 DEF CallerOK, ClaimOK, RequestOK
  <2>5. at[d] # "isave"
    BY <1>2, <1>6, OneWrites DEF Lines
  <2>6. DraftOK(d)'
    BY <1>2, <2>1, <2>2, <2>5 DEF CallerOK, DraftOK, roster
  <2>7. CreateOK(d)'
    <3>1. SUFFICES ASSUME op[d] = "create"
                   PROVE  /\ grantAt[on[d]] = 0 =>
                               /\ made'[on[d]] = 0
                               /\ \A e \in Callers : op'[e] = "create" /\ on'[e] = on[d] => e = d
                          /\ grantAt[on[d]] > 0 =>
                               began[d] <= grantAt[on[d]] + Skew /\ grantAt[on[d]] <= began[d] + Skew
      BY <1>2, <2>2, <2>5 DEF CreateOK
    <3>2. ASSUME grantAt[on[d]] = 0
          PROVE  /\ made[on[d]] = 0 /\ (op[c] = "create" => on[d] # on[c])
                 /\ \A e \in Callers : op[e] = "create" /\ on[e] = on[d] => e = d
      BY <1>6, <2>1, <3>1, <3>2 DEF CreateOK
    <3>3. ASSUME grantAt[on[d]] = 0
          PROVE  made'[on[d]] = 0
      BY <1>2, <2>1, <3>1, <3>2, <3>3 DEF CountType, CallerOK, RequestOK
    <3>4. ASSUME grantAt[on[d]] = 0, NEW e \in Callers, op'[e] = "create", on'[e] = on[d]
          PROVE  e = d
      <4>1. e # c
        BY <1>1, <3>4
      <4> QED
        BY <1>1, <3>2, <3>4, <4>1 DEF Others
    <3> QED
      BY <2>1, <3>1, <3>3, <3>4 DEF CreateOK
  <2> QED
    BY <2>3, <2>4, <2>6, <2>7 DEF CallerOK
<1>7. ClaimOK(c)'
  BY <1>1, <1>2, <1>5, TypeParts DEF ClaimOK, CallerOK
<1> QED
  BY <1>1, <1>6, <1>7 DEF CallerInv, CallerOK, CreateOK

LEMMA InvitesSaveLinks ==
  ASSUME IInv, NEW c \in Callers, InvitesSave(c)
  PROVE  FileType' /\ LinkInv'
<1> DEFINE r == link[on[c]]
           s == draft[c].link[on[c]]
<1>1. /\ UNCHANGED <<now, grantAt, roster, faults>> /\ FileType /\ CountType
      /\ made' = IF op[c] = "create" THEN [made EXCEPT ![on[c]] = @ + 1] ELSE made
      /\ letIn' = IF op[c] = "approve" THEN [letIn EXCEPT ![on[c]] = @ + 1] ELSE letIn
  BY TypeParts DEF InvitesSave
<1>2. /\ on[c] \in Links /\ s \in Link /\ link' \in [Links -> Link]
      /\ \A i \in Links \ {on[c]} :
           link'[i] = link[i] \/ (link'[i] = NoLink /\ link[i].ends <= now)
      /\ link'[on[c]] = s \/ (link'[on[c]] = NoLink /\ s.ends <= now)
  BY SavedLinks
<1>3. FileType'
  BY <1>1, <1>2 DEF FileType, CountType, RosterType, roster
<1>4. /\ op[c] # "create" => After(op[c], r, s) /\ made[on[c]] = 1
      /\ op[c] = "create" =>
           /\ made[on[c]] = 0 /\ letIn[on[c]] = 0
           /\ s.kind # "none" /\ s.waiting = {}
           /\ grantAt[on[c]] > 0 => Outlives(s.ends, on[c])
  BY SavedLink
<1>5. LinkOK(s) /\ r.ends \in Nat /\ s.ends \in Nat
  BY <1>1, <1>2, <1>4, Numbers DEF After, LinkOK, FileType, Link
<1> HIDE DEF s
<1>6. NoLink.kind = "none" /\ LinkOK(NoLink)
  BY NothingIsLink DEF NoLink
<1>7. ASSUME NEW i \in Links, NEW e \in Nat, e <= now, Outlives(e, i)
      PROVE  Outlives(now, i)
  BY <1>1, <1>7, Numbers DEF Outlives, CountType
<1>8. ASSUME NEW i \in Links
      PROVE  (/\ LinkOK(link[i]) /\ made[i] <= 1
              /\ made[i] = 0 => link[i] = NoLink /\ letIn[i] = 0
              /\ made[i] = 1 /\ grantAt[i] > 0 =>
                   Outlives(now, i) \/ (link[i].kind # "none" /\ Outlives(link[i].ends, i)))'
  <2>1. /\ LinkOK(link[i]) /\ made[i] <= 1 /\ made[i] \in Nat /\ letIn[i] \in Nat
        /\ made[i] = 0 => link[i] = NoLink /\ letIn[i] = 0
        /\ made[i] = 1 /\ grantAt[i] > 0 =>
             Outlives(now, i) \/ (link[i].kind # "none" /\ Outlives(link[i].ends, i))
        /\ link[i].ends \in Nat
    BY <1>1, Numbers DEF IInv, LinkInv, CountType, FileType, Link
  <2>2. CASE i # on[c]
    <3>1. made'[i] = made[i] /\ letIn'[i] = letIn[i]
      BY <1>1, <2>2 DEF CountType
    <3>2. LinkOK(link'[i]) /\ (made[i] = 0 => link'[i] = NoLink)
      BY <1>2, <1>6, <2>1, <2>2
    <3>3. made[i] = 1 /\ grantAt[i] > 0 =>
            Outlives(now, i) \/ (link'[i].kind # "none" /\ Outlives(link'[i].ends, i))
      BY <1>2, <1>7, <2>1, <2>2
    <3> QED
      BY <1>1, <2>1, <3>1, <3>2, <3>3 DEF Outlives
  <2>3. CASE i = on[c]
    <3>1. made'[i] = 1
      BY <1>1, <1>4, <2>3 DEF CountType
    <3>2. LinkOK(link'[i])
      BY <1>2, <1>5, <1>6, <2>3
    <3>3. ASSUME grantAt[i] > 0
          PROVE  Outlives(now, i) \/ (s.kind # "none" /\ Outlives(s.ends, i))
      <4>1. CASE op[c] = "create"
        BY <1>4, <2>3, <3>3, <4>1
      <4>2. CASE op[c] # "create"
        BY <1>4, <2>1, <2>3, <3>3, <4>2 DEF After
      <4> QED
        BY <4>1, <4>2
    <3>4. grantAt[i] > 0 =>
            Outlives(now, i) \/ (link'[i].kind # "none" /\ Outlives(link'[i].ends, i))
      BY <1>2, <1>5, <1>7, <2>3, <3>3
    <3> QED
      BY <1>1, <3>1, <3>2, <3>4 DEF Outlives
  <2> QED
    BY <2>2, <2>3
<1> QED
  BY <1>3, <1>8 DEF LinkInv

LEMMA InvitesSaveUses ==
  ASSUME IInv, NEW c \in Callers, InvitesSave(c)
  PROVE  UsesInv'
<1> DEFINE r == link[on[c]]
           s == draft[c].link[on[c]]
<1>1. /\ FileType /\ CountType /\ at[c] = "isave" /\ ClaimOK(c)
      /\ letIn' = IF op[c] = "approve" THEN [letIn EXCEPT ![on[c]] = @ + 1] ELSE letIn
  BY TypeParts DEF InvitesSave, CallerOK
<1>2. /\ on[c] \in Links /\ s \in Link /\ link' \in [Links -> Link]
      /\ \A i \in Links \ {on[c]} : link'[i] = link[i] \/ link'[i] = NoLink
      /\ link'[on[c]] = s \/ link'[on[c]] = NoLink
  BY SavedLinks
<1>3. /\ Others(c)
      /\ \/ at'[c] = "idle" /\ op'[c] = "none"
         \/ /\ at'[c] = "roster" /\ op[c] = "claim" /\ op'[c] = "claim" /\ found[c].kind = "auto"
            /\ on'[c] = on[c]
  BY SavedRequest
<1>4. /\ op[c] # "create" => After(op[c], r, s)
      /\ op[c] = "create" => letIn[on[c]] = 0 /\ Flight(on[c]) = {} /\ s.uses <= Uses
  BY SavedLink
<1>5. NoLink.uses = 0 /\ r.uses \in Nat /\ s.uses \in Nat /\ Uses \in Nat
  BY <1>1, <1>2, Numbers DEF NoLink, FileType, Link
<1>6. op[c] = "claim" /\ found[c].kind = "auto" => s.uses + 1 = r.uses
  BY <1>1, <1>4 DEF ClaimOK, After
<1>7. op[c] = "approve" => s.uses + 1 = r.uses
  BY <1>4 DEF After
<1>8. op[c] # "create" => s.uses <= r.uses
  BY <1>4 DEF After
<1> HIDE DEF s
<1>9. ASSUME NEW i \in Links
      PROVE  (letIn[i] + Cardinality(Flight(i)) + link[i].uses <= Uses)'
  <2>1. /\ letIn[i] + Cardinality(Flight(i)) + link[i].uses <= Uses
        /\ letIn[i] \in Nat /\ link[i].uses \in Nat
        /\ IsFiniteSet(Flight(i)) /\ Cardinality(Flight(i)) \in Nat /\ c \notin Flight(i)
    <3>1. letIn[i] + Cardinality(Flight(i)) + link[i].uses <= Uses
      BY DEF IInv, UsesInv
    <3>2. letIn[i] \in Nat /\ link[i].uses \in Nat
      BY <1>1, Numbers DEF CountType, FileType, Link
    <3>3. IsFiniteSet(Flight(i)) /\ Cardinality(Flight(i)) \in Nat
      <4>1. Flight(i) \in SUBSET Flight(i)
        OBVIOUS
      <4> QED
        BY <4>1, FlightFinite
    <3>4. c \notin Flight(i)
      BY <1>1 DEF Flight
    <3> QED
      BY <3>1, <3>2, <3>3, <3>4
  <2>2. CASE i # on[c]
    <3>1. Flight(i)' = Flight(i)
      BY <1>1, <1>3, <2>2 DEF Flight, Others
    <3>2. letIn'[i] = letIn[i] /\ link'[i].uses \in 0..link[i].uses
      BY <1>1, <1>2, <1>5, <2>1, <2>2 DEF CountType
    <3> QED
      BY <1>5, <2>1, <3>1, <3>2
  <2>3. CASE i = on[c] /\ at'[c] = "roster"
    <3>1. Flight(i)' = Flight(i) \cup {c}
      BY <1>1, <1>3, <2>3 DEF Flight, Others
    <3>2. Cardinality(Flight(i)') = Cardinality(Flight(i)) + 1
      BY <2>1, <3>1, FS_AddElement
    <3>3. letIn'[i] = letIn[i] /\ link'[i].uses \in 0..s.uses /\ s.uses + 1 = link[i].uses
      BY <1>1, <1>2, <1>3, <1>5, <1>6, <2>3
    <3> QED
      BY <1>5, <2>1, <3>2, <3>3
  <2>4. CASE i = on[c] /\ at'[c] = "idle"
    <3>1. Flight(i)' = Flight(i)
      BY <1>1, <1>3, <2>4 DEF Flight, Others
    <3>2. link'[i].uses \in 0..s.uses
      BY <1>2, <1>5, <2>4
    <3>3. CASE op[c] = "create"
      <4>1. letIn'[i] = 0 /\ Cardinality(Flight(i)) = 0 /\ s.uses <= Uses
        BY <1>1, <1>4, <2>4, <3>3, FS_EmptySet
      <4> QED
        BY <1>5, <3>1, <3>2, <4>1
    <3>4. CASE op[c] = "approve"
      <4>1. letIn'[i] = letIn[i] + 1 /\ s.uses + 1 = link[i].uses
        BY <1>1, <1>7, <2>4, <3>4 DEF CountType
      <4> QED
        BY <1>5, <2>1, <3>1, <3>2, <4>1
    <3>5. CASE op[c] \notin {"create", "approve"}
      <4>1. letIn'[i] = letIn[i] /\ s.uses <= link[i].uses
        BY <1>1, <1>8, <2>4, <3>5
      <4> QED
        BY <1>5, <2>1, <3>1, <3>2, <4>1
    <3> QED
      BY <3>3, <3>4, <3>5
  <2> QED
    BY <1>3, <2>2, <2>3, <2>4
<1> QED
  BY <1>9 DEF UsesInv

LEMMA InvitesSaveStep ==
  ASSUME IInv, NEW c \in Callers, InvitesSave(c)
  PROVE  IInv'
BY SavedRequest, InvitesSaveCallers, InvitesSaveLinks, InvitesSaveUses DEF IInv

(***************************************************************************)
(* Writing the roster                                                      *)
(***************************************************************************)
\* What an admission or a list makes of the roster is worked out from what it says.
LEMMA RosterLoadStep ==
  ASSUME IInv, NEW c \in Callers, RosterLoad(c)
  PROVE  IInv'
<1>1. /\ at[c] = "roster" /\ Holds(rq, c) /\ Files /\ UNCHANGED faults
      /\ RequestType /\ Lines /\ RosterType /\ CountType /\ CallerOK(c)
      /\ op[c] = "put" \/ who[c] \in People
  BY TypeParts DEF RosterLoad, CallerOK, RequestOK
<1>2. CASE Return(c)
  BY <1>1, <1>2, AnswerStep, FaultsType
<1>3. CASE ~Return(c)
  <2> DEFINE day == IF op[c] = "put" THEN list[c].date ELSE signedAt
             who1 == IF op[c] = "put" THEN list[c].members ELSE listed
             in1 == IF op[c] = "put" THEN Kept(list[c]) ELSE [joined EXCEPT ![who[c]] = now]
  <2>1. /\ draft' = [draft EXCEPT ![c].date = day, ![c].members = who1, ![c].joined = in1]
        /\ Goto(c, "rsave") /\ UNCHANGED <<op, who, on, found, list, began, iq, rq>>
        /\ op[c] = "put" => PutOk(list[c])
    BY <1>3 DEF RosterLoad
  <2>2. list[c].date \in 0..MaxTime /\ list[c].members \in SUBSET People /\ draft[c] \in Draft
        /\ draft \in [Callers -> Draft]
    BY <1>1 DEF RequestType
  <2>3. day \in 0..MaxTime /\ who1 \in SUBSET People
    BY <1>1, <2>2 DEF RosterType
  <2>4. in1 \in [People -> 0..MaxTime]
    BY <1>1, Numbers DEF RosterType, CountType, Kept
  <2>5. /\ op[c] = "put" => day = list[c].date /\ who1 = list[c].members /\ in1 = Kept(list[c])
        /\ op[c] # "put" => day = signedAt /\ who1 = listed /\ in1 = [joined EXCEPT ![who[c]] = now]
    OBVIOUS
  <2> HIDE DEF day, who1, in1
  <2>6. /\ draft' \in [Callers -> Draft] /\ \A d \in Callers \ {c} : draft'[d] = draft[d]
        /\ draft'[c].date = day /\ draft'[c].members = who1 /\ draft'[c].joined = in1
    BY <2>1, <2>2, <2>3, <2>4 DEF Draft
  <2>7. /\ at' \in [Callers -> {"idle", "find", "member", "seat", "invites", "isave",
                               "roster", "rsave", "check"}]
        /\ at'[c] = "rsave" /\ \A d \in Callers \ {c} : at'[d] = at[d]
    BY <1>1, <2>1 DEF RequestType, Goto
  <2>8. RequestType' /\ Others(c)
    BY <1>1, <2>1, <2>6, <2>7 DEF RequestType, Others
  <2>9. LineOK(iq, at', "invites", "isave") /\ LineOK(rq, at', "roster", "rsave")
    BY <1>1, <2>7, LineServed, LineStays DEF Lines, Elsewhere
  <2>10. Lines'
    BY <2>1, <2>9 DEF Lines
  <2>11. RequestOK(c)' /\ TimeOK(c)' /\ ClaimOK(c)' /\ CreateOK(c)'
    BY <1>1, <2>1, <2>7 DEF CallerOK, RequestOK, TimeOK, ClaimOK, CreateOK, Files
  <2>12. /\ day >= signedAt /\ (who1 # listed => day > signedAt)
         /\ \A p \in People : joined[p] > 0 =>
              \/ p \in who1 \/ in1[p] > 0
              \/ (day > signedAt /\ joined[p] <= day)
    <3>1. now \in Nat /\ now > 0 /\ signedAt \in Nat /\ list[c].date \in Nat
      BY <1>1, <2>2, Numbers DEF RosterType, CountType
    <3>2. ASSUME NEW p \in People
          PROVE  joined[p] \in Nat /\ p \in DOMAIN joined
      BY <1>1, Numbers DEF RosterType
    <3>3. CASE op[c] = "put"
      <4>1. day > signedAt /\ day >= signedAt
        BY <2>1, <2>5, <3>1, <3>3 DEF PutOk
      <4>2. ASSUME NEW p \in People, joined[p] > 0, p \notin who1, ~(joined[p] <= day)
            PROVE  in1[p] > 0
        <5>1. joined[p] > list[c].date
          BY <2>5, <3>1, <3>2, <3>3, <4>2
        <5>2. in1[p] = joined[p]
          BY <2>5, <3>3, <4>2, <5>1 DEF Kept
        <5> QED
          BY <4>2, <5>2
      <4> QED
        BY <4>1, <4>2
    <3>4. CASE op[c] # "put"
      <4>1. ASSUME NEW p \in People, joined[p] > 0
            PROVE  in1[p] > 0
        <5>1. in1 = [joined EXCEPT ![who[c]] = now]
          BY <2>5, <3>4
        <5>2. in1[p] = IF p = who[c] THEN now ELSE joined[p]
          BY <3>2, <5>1
        <5> QED
          BY <3>1, <4>1, <5>2
      <4> QED
        BY <2>5, <3>1, <3>4, <4>1
    <3> QED
      BY <3>3, <3>4
  <2>13. DraftOK(c)'
    <3>1. signedAt' = signedAt /\ listed' = listed /\ joined' = joined /\ at'[c] # "isave"
      BY <1>1, <2>7 DEF Files, roster
    <3> QED
      BY <2>6, <2>12, <3>1 DEF DraftOK
  <2>14. /\ op'[c] # "create" /\ faults' \in 0..MaxFaults
         /\ op[c] = op'[c] /\ on[c] = on'[c] /\ at[c] \in {"roster", "rsave"}
    BY <1>1, <2>1, FaultsType DEF CallerOK, RequestOK
  <2> QED
    BY <1>1, <2>8, <2>10, <2>11, <2>13, <2>14, QuietStep DEF CallerOK
<1> QED
  BY <1>2, <1>3

LEMMA RosterSaveCallers ==
  ASSUME IInv, NEW c \in Callers, RosterSave(c)
  PROVE  RequestType' /\ Lines' /\ Others(c) /\ CallerInv' /\ at'[c] = "idle" /\ op'[c] = "none"
<1>1. /\ at[c] = "rsave" /\ Holds(rq, c) /\ Return(c) /\ UNCHANGED <<now, link, grantAt, made, faults>>
      /\ RequestType /\ Lines
  BY TypeParts DEF RosterSave
<1>2. /\ RequestType' /\ Lines' /\ Others(c) /\ CallerOK(c)' /\ CreateOK(c)'
      /\ at'[c] = "idle" /\ op'[c] = "none"
  BY <1>1, Answered
<1>3. ASSUME NEW d \in Callers, d # c
      PROVE  CallerOK(d)' /\ CreateOK(d)'
  <2>1. CallerOK(d) /\ CreateOK(d)
    BY TypeParts
  <2>2. /\ at'[d] = at[d] /\ op'[d] = op[d] /\ who'[d] = who[d] /\ on'[d] = on[d]
        /\ found'[d] = found[d] /\ list'[d] = list[d] /\ began'[d] = began[d]
        /\ draft'[d] = draft[d]
    BY <1>2, <1>3 DEF Others
  <2>3. RequestOK(d)' /\ TimeOK(d)' /\ ClaimOK(d)'
    BY <1>1, <2>1, <2>2 DEF CallerOK, RequestOK, TimeOK, ClaimOK
  <2>4. at[d] # "rsave"
    BY <1>1, <1>3, OneWrites DEF Lines
  <2>5. DraftOK(d)'
    BY <1>1, <2>1, <2>2, <2>4 DEF CallerOK, DraftOK, Outlives
  <2>6. ASSUME op[d] = "create", grantAt[on[d]] = 0,
               NEW e \in Callers, op'[e] = "create", on'[e] = on[d]
        PROVE  e = d
    <3>1. e # c
      BY <1>2, <2>6
    <3> QED
      BY <1>2, <2>1, <2>6, <3>1 DEF Others, CreateOK
  <2>7. CreateOK(d)'
    BY <1>1, <2>1, <2>2, <2>6 DEF CreateOK
  <2> QED
    BY <2>3, <2>5, <2>7 DEF CallerOK
<1> QED
  BY <1>2, <1>3 DEF CallerInv

LEMMA RosterSaveUses ==
  ASSUME IInv, NEW c \in Callers, RosterSave(c)
  PROVE  FileType' /\ LinkInv' /\ UsesInv'
<1>1. /\ at[c] = "rsave" /\ UNCHANGED <<now, link, grantAt, made, faults>>
      /\ signedAt' = draft[c].date /\ listed' = draft[c].members /\ joined' = draft[c].joined
      /\ letIn' = IF op[c] = "claim" THEN [letIn EXCEPT ![on[c]] = @ + 1] ELSE letIn
      /\ RequestType /\ FileType /\ CountType /\ RequestOK(c) /\ ClaimOK(c)
  BY TypeParts DEF RosterSave, CallerOK
<1>2. Others(c) /\ at'[c] = "idle" /\ op'[c] = "none"
  BY RosterSaveCallers
<1>3. draft[c] \in Draft
  BY <1>1 DEF RequestType
<1>4. RosterType'
  BY <1>1, <1>3 DEF RosterType, Draft
<1>5. letIn' \in [Links -> Nat] /\ \A i \in Links :
        letIn'[i] = IF op[c] = "claim" /\ on[c] = i THEN letIn[i] + 1 ELSE letIn[i]
  <2>1. letIn \in [Links -> Nat]
    BY <1>1 DEF CountType
  <2>2. CASE op[c] = "claim"
    <3>1. letIn' = [letIn EXCEPT ![on[c]] = @ + 1] /\ on[c] \in Links /\ letIn[on[c]] \in Nat
      BY <1>1, <2>1, <2>2 DEF RequestOK
    <3>2. letIn' \in [Links -> Nat] /\ letIn'[on[c]] = letIn[on[c]] + 1
          /\ \A i \in Links : i # on[c] => letIn'[i] = letIn[i]
      BY <2>1, <3>1
    <3> QED
      BY <2>2, <3>2
  <2>3. CASE op[c] # "claim"
    BY <1>1, <2>1, <2>3
  <2> QED
    BY <2>2, <2>3
<1>6. FileType'
  BY <1>1, <1>4, <1>5 DEF FileType, CountType
<1>7. op[c] = "claim" => made[on[c]] = 1
  BY <1>1 DEF ClaimOK
<1>8. LinkInv'
  BY <1>1, <1>5, <1>7 DEF IInv, LinkInv, Outlives
<1>9. ASSUME NEW i \in Links
      PROVE  (letIn[i] + Cardinality(Flight(i)) + link[i].uses <= Uses)'
  <2>1. letIn[i] + Cardinality(Flight(i)) + link[i].uses <= Uses
    BY DEF IInv, UsesInv
  <2>2. letIn[i] \in Nat /\ link[i].uses \in Nat /\ Uses \in Nat
    BY <1>1, Numbers DEF CountType, FileType, Link
  <2>3. IsFiniteSet(Flight(i)) /\ Cardinality(Flight(i)) \in Nat
    <3>1. Flight(i) \in SUBSET Flight(i)
      OBVIOUS
    <3> QED
      BY <3>1, FlightFinite
  <2>4. CASE op[c] = "claim" /\ on[c] = i
    <3>1. c \in Flight(i) /\ Flight(i)' = Flight(i) \ {c}
      BY <1>1, <1>2, <2>4 DEF Flight, Others
    <3>2. Cardinality(Flight(i)') = Cardinality(Flight(i)) - 1
      BY <2>3, <3>1, FS_RemoveElement
    <3> QED
      BY <1>1, <1>5, <2>1, <2>2, <2>3, <2>4, <3>2
  <2>5. CASE ~(op[c] = "claim" /\ on[c] = i)
    <3>1. Flight(i)' = Flight(i)
      BY <1>1, <1>2, <2>5 DEF Flight, Others
    <3> QED
      BY <1>1, <1>5, <2>1, <2>5, <3>1
  <2> QED
    BY <2>4, <2>5
<1> QED
  BY <1>6, <1>8, <1>9 DEF UsesInv

LEMMA RosterSaveStep ==
  ASSUME IInv, NEW c \in Callers, RosterSave(c)
  PROVE  IInv'
BY RosterSaveCallers, RosterSaveUses DEF IInv

(***************************************************************************)
(* Every step                                                              *)
(***************************************************************************)
LEMMA FindStep ==
  ASSUME IInv, NEW c \in Callers, Find(c)
  PROVE  IInv'
<1>1. /\ at[c] = "find" /\ Files /\ UNCHANGED faults /\ RequestType /\ FileType
      /\ on[c] \in Links /\ CountType
  BY TypeParts DEF Find, CallerOK, RequestOK
<1>2. CASE Return(c)
  BY <1>1, <1>2, AnswerStep, FaultsType
<1>3. CASE /\ Usable(link[on[c]]) /\ found' = [found EXCEPT ![c] = link[on[c]]]
           /\ Goto(c, "member") /\ Stay /\ UNCHANGED <<iq, rq>>
  <2>1. link[on[c]] \in Link /\ link[on[c]].kind # "none"
    BY <1>1, <1>3 DEF FileType, Usable
  <2>2. made[on[c]] = 1
    <3>1. made[on[c]] \in Nat /\ made[on[c]] <= 1 /\ (made[on[c]] = 0 => link[on[c]] = NoLink)
      BY <1>1 DEF IInv, LinkInv, CountType
    <3> QED
      BY <2>1, <3>1 DEF NoLink
  <2>3. /\ found' \in [Callers -> Link] /\ found'[c] = link[on[c]]
        /\ \A d \in Callers \ {c} : found'[d] = found[d]
    BY <1>3, <2>1, FoundType
  <2> QED
    BY <1>1, <1>3, <2>1, <2>2, <2>3, GoStep
<1> QED
  BY <1>2, <1>3 DEF Find

LEMMA MemberStep ==
  ASSUME IInv, NEW c \in Callers, Member(c)
  PROVE  IInv'
<1>1. /\ at[c] = "member" /\ Files /\ UNCHANGED faults /\ RequestType /\ CallerOK(c)
  BY TypeParts DEF Member
<1>2. CASE Return(c)
  BY <1>1, <1>2, AnswerStep, FaultsType
<1>3. CASE QueueInvites(c) /\ Stay /\ UNCHANGED found
  BY <1>1, <1>3, QueueStep
<1>4. CASE Goto(c, "seat") /\ Stay /\ UNCHANGED <<found, iq, rq>>
  <2>1. /\ op[c] = "claim" /\ found[c].kind # "none" /\ made[on[c]] = 1
        /\ link[on[c]].kind \in {"none", found[c].kind}
    BY <1>1 DEF CallerOK, RequestOK, ClaimOK
  <2>2. found' = found /\ found \in [Callers -> Link]
    BY <1>1, <1>4 DEF RequestType
  <2> QED
    BY <1>1, <1>4, <2>1, <2>2, GoStep
<1> QED
  BY <1>2, <1>3, <1>4 DEF Member

LEMMA StepOK ==
  ASSUME IInv, NEW c \in Callers, Step(c)
  PROVE  IInv'
<1>1. CASE Seat(c)
  <2>1. at[c] = "seat" /\ Files /\ UNCHANGED faults
    BY <1>1 DEF Seat
  <2>2. Return(c) \/ (QueueInvites(c) /\ Stay /\ UNCHANGED found)
    BY <1>1 DEF Seat
  <2> QED
    BY <2>1, <2>2, AnswerStep, QueueStep, FaultsType
<1>2. CASE ApproveCheck(c)
  <2>1. at[c] = "check" /\ Files /\ UNCHANGED faults
    BY <1>2 DEF ApproveCheck
  <2>2. Return(c) \/ (QueueInvites(c) /\ Stay /\ UNCHANGED found)
    BY <1>2 DEF ApproveCheck
  <2> QED
    BY <2>1, <2>2, AnswerStep, QueueStep, FaultsType
<1>3. CASE WriteFails(c)
  BY <1>3, AnswerStep, FaultsType DEF WriteFails
<1> QED
  BY <1>1, <1>2, <1>3, FindStep, MemberStep, InvitesLoadStep, InvitesSaveStep, RosterLoadStep,
     RosterSaveStep DEF Step

\* A link that is asked for has nothing but a kind, a use and perhaps a person.
LEMMA NewLink ==
  ASSUME NEW l \in Link, ~l.revoked, l.waiting = {},
         NEW k \in {"named", "open", "auto"}, NEW n \in 0..Uses,
         NEW r, \/ r = [l EXCEPT !.kind = k, !.uses = n]
                \/ \E p \in People : r = [l EXCEPT !.kind = k, !.person = p, !.uses = n]
  PROVE  r \in Link /\ r.kind # "none" /\ ~r.revoked /\ r.waiting = {}
BY DEF Link

LEMMA CreateOKStep ==
  ASSUME IInv, NEW c \in Callers, NEW i \in Links,
         (\E p \in People : CreateNamed(c, p, i)) \/ CreateOpen(c, i) \/ CreateAuto(c, i)
  PROVE  IInv'
<1>1. ASSUME NEW p \in People, CreateNamed(c, p, i)
      PROVE  IInv'
  <2> DEFINE r == [NoLink EXCEPT !.kind = "named", !.person = p, !.uses = 1]
  <2>1. r \in Link /\ r.kind # "none" /\ ~r.revoked /\ r.waiting = {}
    <3>1. NoLink \in Link /\ ~NoLink.revoked /\ NoLink.waiting = {}
      BY Blank DEF NoLink
    <3>2. 1 \in 0..Uses /\ Uses \in 0..Uses
      BY Numbers
    <3> QED
      BY <3>1, <3>2, NewLink
  <2>2. /\ Start(c, "create", p, i) /\ QueueInvites(c) /\ Files /\ UNCHANGED <<list, draft, faults>>
        /\ found' = [found EXCEPT ![c] = r] /\ Fresh(i)
    BY <1>1 DEF CreateNamed
  <2> HIDE DEF r
  <2> QED
    BY <2>1, <2>2, CreateStep
<1>2. CASE CreateOpen(c, i)
  <2> DEFINE r == [NoLink EXCEPT !.kind = "open", !.uses = Uses]
  <2>1. r \in Link /\ r.kind # "none" /\ ~r.revoked /\ r.waiting = {}
    <3>1. NoLink \in Link /\ ~NoLink.revoked /\ NoLink.waiting = {}
      BY Blank DEF NoLink
    <3>2. 1 \in 0..Uses /\ Uses \in 0..Uses
      BY Numbers
    <3> QED
      BY <3>1, <3>2, NewLink
  <2>2. /\ Start(c, "create", Nobody, i) /\ QueueInvites(c) /\ Files /\ UNCHANGED <<list, draft, faults>>
        /\ found' = [found EXCEPT ![c] = r] /\ Fresh(i)
    BY <1>2 DEF CreateOpen
  <2> HIDE DEF r
  <2> QED
    BY <2>1, <2>2, CreateStep
<1>3. CASE CreateAuto(c, i)
  <2> DEFINE r == [NoLink EXCEPT !.kind = "auto", !.uses = Uses]
  <2>1. r \in Link /\ r.kind # "none" /\ ~r.revoked /\ r.waiting = {}
    <3>1. NoLink \in Link /\ ~NoLink.revoked /\ NoLink.waiting = {}
      BY Blank DEF NoLink
    <3>2. 1 \in 0..Uses /\ Uses \in 0..Uses
      BY Numbers
    <3> QED
      BY <3>1, <3>2, NewLink
  <2>2. /\ Start(c, "create", Nobody, i) /\ QueueInvites(c) /\ Files /\ UNCHANGED <<list, draft, faults>>
        /\ found' = [found EXCEPT ![c] = r]
        /\ grantAt[i] > 0 /\ grantAt[i] <= now + Skew /\ now <= grantAt[i] + Skew
    BY <1>3 DEF CreateAuto
  <2> HIDE DEF r
  <2> QED
    BY <2>1, <2>2, CreateStep
<1> QED
  BY <1>1, <1>2, <1>3

LEMMA RequestStep ==
  ASSUME IInv, NEW c \in Callers, Request(c)
  PROVE  IInv'
<1>1. ASSUME NEW p \in People, NEW i \in Links, Claim(c, p, i)
      PROVE  IInv'
  BY <1>1, LookStep DEF Claim
<1>2. ASSUME NEW p \in People, NEW i \in Links, Approve(c, p, i)
      PROVE  IInv'
  BY <1>2, LookStep DEF Approve
<1>3. ASSUME NEW p \in People, NEW i \in Links, Decline(c, p, i)
      PROVE  IInv'
  BY <1>3, AskStep DEF Decline
<1>4. ASSUME NEW i \in Links, Revoke(c, i)
      PROVE  IInv'
  BY <1>4, AskStep DEF Revoke
<1> QED
  BY <1>1, <1>2, <1>3, <1>4, CreateOKStep, PutStep DEF Request

\* A grant is signed for an id no request is about.
LEMMA SignStep ==
  ASSUME IInv, NEW i \in Links, NEW t \in 1..MaxTime, SignGrant(i, t)
  PROVE  IInv'
<1>1. /\ Fresh(i) /\ grantAt' = [grantAt EXCEPT ![i] = t] /\ RequestType /\ Lines /\ FileType
      /\ UNCHANGED <<now, link, iq, signedAt, listed, joined, rq, at, op, who, on, found, list,
                     began, draft, made, letIn, faults>>
  BY TypeParts DEF SignGrant, invites, roster, requests
<1>2. /\ grantAt' \in [Links -> 0..MaxTime] /\ made[i] = 0
      /\ \A j \in Links \ {i} : grantAt'[j] = grantAt[j]
      /\ \A c \in Callers : on[c] # i
  BY <1>1, Numbers DEF FileType, CountType, Fresh
<1>3. FileType' /\ RequestType' /\ Lines'
  BY <1>1, <1>2 DEF FileType, CountType, RosterType, RequestType, Lines, LineOK, InLine, Holds
<1>4. ASSUME NEW c \in Callers
      PROVE  CallerOK(c)' /\ CreateOK(c)'
  <2>1. CallerOK(c) /\ CreateOK(c)
    BY TypeParts
  <2>2. RequestOK(c)' /\ TimeOK(c)' /\ ClaimOK(c)'
    BY <1>1, <2>1 DEF CallerOK, RequestOK, TimeOK, ClaimOK
  <2>3. op[c] = "create" => grantAt'[on[c]] = grantAt[on[c]]
    BY <1>2, <2>1 DEF CallerOK, RequestOK
  <2>4. DraftOK(c)' /\ CreateOK(c)'
    BY <1>1, <2>1, <2>3 DEF CallerOK, DraftOK, CreateOK, Outlives
  <2> QED
    BY <2>2, <2>4 DEF CallerOK
<1>5. LinkInv'
  BY <1>1, <1>2 DEF IInv, LinkInv, Outlives
<1>6. UsesInv'
  BY <1>1 DEF IInv, UsesInv, Flight
<1> QED
  BY <1>3, <1>4, <1>5, <1>6 DEF IInv, CallerInv

LEMMA TickStep ==
  ASSUME IInv, Tick
  PROVE  IInv'
<1>1. /\ now < MaxTime /\ now' = now + 1 /\ RequestType /\ Lines /\ FileType /\ CountType
      /\ \A c \in Callers : at[c] # "idle" => began[c] = now
      /\ UNCHANGED <<link, iq, signedAt, listed, joined, rq, at, op, who, on, found, list,
                     began, draft, grantAt, made, letIn, faults>>
  BY TypeParts DEF Tick, invites, roster, requests
<1>2. now \in Nat /\ now' \in 1..MaxTime /\ Skew \in Nat /\ Ttl \in Nat
  BY <1>1, Numbers DEF CountType
<1>3. FileType' /\ RequestType' /\ Lines'
  BY <1>1, <1>2 DEF FileType, CountType, RosterType, RequestType, Lines, LineOK, InLine, Holds
<1>4. ASSUME NEW c \in Callers
      PROVE  CallerOK(c)' /\ CreateOK(c)'
  <2>1. CallerOK(c) /\ CreateOK(c)
    BY TypeParts
  <2>2. RequestOK(c)' /\ ClaimOK(c)' /\ DraftOK(c)' /\ CreateOK(c)'
    BY <1>1, <2>1 DEF CallerOK, RequestOK, ClaimOK, DraftOK, CreateOK, Outlives
  <2>3. TimeOK(c)'
    BY <1>1, <1>2 DEF TimeOK
  <2> QED
    BY <2>2, <2>3 DEF CallerOK
<1>5. ASSUME NEW i \in Links, Outlives(now, i)
      PROVE  Outlives(now', i)
  BY <1>1, <1>2, <1>5 DEF Outlives, CountType
<1>6. LinkInv'
  BY <1>1, <1>5 DEF IInv, LinkInv, Outlives
<1>7. UsesInv'
  BY <1>1 DEF IInv, UsesInv, Flight
<1> QED
  BY <1>3, <1>4, <1>6, <1>7 DEF IInv, CallerInv

LEMMA NoLines ==
  ASSUME NEW a, NEW w, NEW s, \A c \in Callers : a[c] \notin {w, s}
  PROVE  LineOK(<<>>, a, w, s)
<1>1. <<>> \in Seq(Callers) /\ Len(<<>>) = 0 /\ 1..0 = {}
  BY EmptySeq
<1> QED
  BY <1>1 DEF LineOK, InLine

\* After a crash nothing is in progress.
LEMMA CrashStep ==
  ASSUME IInv, Crash
  PROVE  IInv'
<1>1. /\ at' = [c \in Callers |-> "idle"] /\ op' = [c \in Callers |-> "none"]
      /\ who' = [c \in Callers |-> Nobody] /\ on' = [c \in Callers |-> Nobody]
      /\ found' = [c \in Callers |-> NoLink] /\ list' = [c \in Callers |-> NoList]
      /\ began' = [c \in Callers |-> 0] /\ draft' = [c \in Callers |-> NoDraft]
      /\ iq' = <<>> /\ rq' = <<>> /\ Files /\ FileType /\ CountType
      /\ UNCHANGED <<now, link, signedAt, listed, joined, grantAt, made, letIn>>
      /\ faults' \in 0..MaxFaults
  BY TypeParts, FaultsType DEF Crash, Files, roster
<1>2. RequestType'
  BY <1>1, Blank, Numbers DEF RequestType
<1>3. FileType'
  BY <1>1 DEF FileType, CountType, RosterType
<1>4. LineOK(iq', at', "invites", "isave") /\ LineOK(rq', at', "roster", "rsave")
  BY <1>1, NoLines
<1>5. ASSUME NEW c \in Callers
      PROVE  CallerOK(c)' /\ CreateOK(c)'
  <2>1. at'[c] = "idle" /\ op'[c] = "none" /\ on'[c] = Nobody
    BY <1>1
  <2> QED
    BY <2>1 DEF CallerOK, RequestOK, TimeOK, ClaimOK, DraftOK, CreateOK
<1>6. LinkInv'
  BY <1>1 DEF IInv, LinkInv, Outlives
<1>7. ASSUME NEW i \in Links
      PROVE  (letIn[i] + Cardinality(Flight(i)) + link[i].uses <= Uses)'
  <2>1. Flight(i)' = {}
    BY <1>1 DEF Flight
  <2>2. Cardinality(Flight(i)') = 0
    BY <2>1, FS_EmptySet
  <2>3. letIn[i] + Cardinality(Flight(i)) + link[i].uses <= Uses
    BY DEF IInv, UsesInv
  <2>4. Cardinality(Flight(i)) \in Nat
    <3>1. Flight(i) \in SUBSET Flight(i)
      OBVIOUS
    <3> QED
      BY <3>1, FlightFinite
  <2>5. letIn[i] \in Nat /\ link[i].uses \in Nat /\ Uses \in Nat
    BY <1>1, Numbers DEF CountType, FileType, Link
  <2> QED
    BY <1>1, <2>2, <2>3, <2>4, <2>5
<1> QED
  BY <1>2, <1>3, <1>4, <1>5, <1>6, <1>7 DEF IInv, Lines, CallerInv, UsesInv

LEMMA Starts == Init => IInv
<1> SUFFICES ASSUME Init PROVE IInv
  OBVIOUS
<1>1. RequestType /\ FileType
  BY Blank, Numbers DEF Init, RequestType, FileType, RosterType, CountType
<1>2. LineOK(iq, at, "invites", "isave") /\ LineOK(rq, at, "roster", "rsave")
  BY NoLines DEF Init
<1>3. ASSUME NEW c \in Callers
      PROVE  CallerOK(c) /\ CreateOK(c)
  <2>1. at[c] = "idle" /\ op[c] = "none" /\ on[c] = Nobody
    BY DEF Init
  <2> QED
    BY <2>1 DEF CallerOK, RequestOK, TimeOK, ClaimOK, DraftOK, CreateOK
<1>4. LinkInv
  BY NothingIsLink DEF Init, LinkInv
<1>5. ASSUME NEW i \in Links
      PROVE  letIn[i] + Cardinality(Flight(i)) + link[i].uses <= Uses
  <2>1. Flight(i) = {}
    BY DEF Flight, Init
  <2>2. Cardinality(Flight(i)) = 0 /\ letIn[i] = 0 /\ link[i].uses = 0
    BY <2>1, FS_EmptySet DEF Init, NoLink
  <2> QED
    BY <2>2, Numbers
<1> QED
  BY <1>1, <1>2, <1>3, <1>4, <1>5 DEF IInv, Lines, CallerInv, UsesInv

LEMMA Stutters == IInv /\ UNCHANGED vars => IInv'
<1> SUFFICES ASSUME IInv, UNCHANGED vars PROVE IInv'
  OBVIOUS
<1>1. UNCHANGED <<now, link, iq, signedAt, listed, joined, rq, at, op, who, on, found, list,
                  began, draft, grantAt, made, letIn, faults>>
  BY DEF vars, invites, roster, requests
<1>2. RequestType' /\ FileType' /\ Lines' /\ LinkInv' /\ UsesInv'
  BY <1>1 DEF IInv, RequestType, FileType, RosterType, CountType, Lines, LineOK, InLine, Holds,
              LinkInv, Outlives, UsesInv, Flight
<1>3. CallerInv'
  BY <1>1 DEF IInv, CallerInv, CallerOK, RequestOK, TimeOK, ClaimOK, DraftOK, CreateOK, Outlives
<1> QED
  BY <1>2, <1>3 DEF IInv

LEMMA Inductive == IInv /\ [Next]_vars => IInv'
<1> SUFFICES ASSUME IInv, [Next]_vars PROVE IInv'
  OBVIOUS
<1> QED
  BY StepOK, RequestStep, SignStep, CrashStep, TickStep, Stutters DEF Next

LEMMA Invariant == Spec => []IInv
BY Starts, Inductive, PTL DEF Spec

(***************************************************************************)
(* What follows                                                            *)
(***************************************************************************)
\* Each file is changed by its own save alone.
LEMMA Writers ==
  ASSUME [Next]_vars
  PROVE  /\ link' = link \/ \E c \in Callers : InvitesSave(c)
         /\ UNCHANGED roster \/ \E c \in Callers : RosterSave(c)
<1>1. CASE UNCHANGED vars
  BY <1>1 DEF vars, invites, roster
<1>2. ASSUME NEW c \in Callers, Step(c)
      PROVE  /\ link' = link \/ InvitesSave(c)
             /\ UNCHANGED roster \/ RosterSave(c)
  <2>1. Files => link' = link /\ UNCHANGED roster
    BY DEF Files
  <2>2. InvitesSave(c) => UNCHANGED roster
    BY DEF InvitesSave, roster
  <2>3. RosterSave(c) => link' = link
    BY DEF RosterSave
  <2>4. \/ Files \/ InvitesSave(c) \/ RosterSave(c)
    BY <1>2 DEF Step, Find, Member, Seat, ApproveCheck, InvitesLoad, RosterLoad, WriteFails
  <2> QED
    BY <2>1, <2>2, <2>3, <2>4
<1>3. ASSUME NEW c \in Callers, Request(c)
      PROVE  Files
  BY <1>3 DEF Request, Claim, Decline, Approve, CreateNamed, Revoke, CreateOpen, CreateAuto, Put
<1>4. ASSUME NEW i \in Links, NEW t \in 1..MaxTime, SignGrant(i, t)
      PROVE  link' = link /\ UNCHANGED roster
  BY <1>4 DEF SignGrant, invites
<1>5. CASE Crash
  BY <1>5 DEF Crash, Files
<1>6. CASE Tick
  BY <1>6 DEF Tick, invites
<1> QED
  BY <1>1, <1>2, <1>3, <1>4, <1>5, <1>6 DEF Next, Files

\* A link lets in no more people than it was made for, and a signed grant makes
\* one link, whatever claims and approvals overlap, fail after the use is spent or
\* are cut off (claimAuto and decide of team-invites.mjs, admit of roster.mjs).
THEOREM ServesAsMade == Spec => []LinkServesAsMade
<1>1. IInv => LinkServesAsMade
  <2> SUFFICES ASSUME IInv PROVE LinkServesAsMade
    OBVIOUS
  <2>1. RequestType /\ FileType /\ CountType /\ RosterType /\ Lines
    BY TypeParts
  <2>2. TypeOK
    BY <2>1, Numbers DEF TypeOK, RequestType, FileType, CountType, RosterType, Lines, LineOK
  <2>3. ASSUME NEW i \in Links
        PROVE  letIn[i] <= Uses /\ made[i] <= 1
    <3>1. letIn[i] \in Nat /\ link[i].uses \in Nat /\ Uses \in Nat
      BY <2>1, Numbers DEF CountType, FileType, Link
    <3>2. Cardinality(Flight(i)) \in Nat
      <4>1. Flight(i) \in SUBSET Flight(i)
        OBVIOUS
      <4> QED
        BY <4>1, FlightFinite
    <3>3. letIn[i] + Cardinality(Flight(i)) + link[i].uses <= Uses /\ made[i] <= 1
      BY DEF IInv, UsesInv, LinkInv
    <3> QED
      BY <3>1, <3>2, <3>3
  <2> QED
    BY <2>2, <2>3 DEF LinkServesAsMade
<1> QED
  BY <1>1, Invariant, PTL

\* A revoked link stays revoked with its uses: no save of invites.json by a claim or
\* decision that was waiting writes it back as it was before (the queue of serial).
THEOREM RevokedStays == Spec => RevokedForGood
<1>1. ASSUME IInv, [Next]_vars, NEW i \in Links, link[i].revoked
      PROVE  link'[i] = NoLink \/ (link'[i].revoked /\ link'[i].uses = link[i].uses)
  <2>1. ASSUME NEW c \in Callers, InvitesSave(c)
        PROVE  link'[i] = NoLink \/ (link'[i].revoked /\ link'[i].uses = link[i].uses)
    <3>1. CASE i # on[c]
      BY <1>1, <2>1, <3>1, SavedLinks
    <3>2. CASE i = on[c]
      <4>1. link'[i] = draft[c].link[i] \/ link'[i] = NoLink
        BY <1>1, <2>1, <3>2, SavedLinks
      <4>2. /\ op[c] = "create" => link[on[c]] = NoLink
            /\ op[c] # "create" => After(op[c], link[on[c]], draft[c].link[on[c]])
        BY <1>1, <2>1, SavedLink
      <4>3. After(op[c], link[i], draft[c].link[i])
        BY <1>1, <3>2, <4>2 DEF NoLink
      <4> QED
        BY <1>1, <4>1, <4>3 DEF After
    <3> QED
      BY <3>1, <3>2
  <2> QED
    BY <1>1, <2>1, Writers
<1>2. IInv /\ [Next]_vars =>
        [\A i \in Links : link[i].revoked =>
            link'[i] = NoLink \/ (link'[i].revoked /\ link'[i].uses = link[i].uses)]_vars
  BY <1>1
<1> QED
  BY <1>2, Invariant, PTL DEF Spec, RevokedForGood

\* No later roster has an older signed list, and who was admitted stays, unless the
\* owner signed the new list at or after the admission and left them out of it.
THEOREM NobodyIsLost == Spec => MembershipKept
<1> DEFINE Kept1 == /\ signedAt' >= signedAt /\ (listed' # listed => signedAt' > signedAt)
                    /\ \A p \in People : joined[p] > 0 =>
                         \/ p \in listed' \/ joined'[p] > 0
                         \/ (signedAt' > signedAt /\ joined[p] <= signedAt')
<1>1. ASSUME IInv, [Next]_vars
      PROVE  Kept1
  <2>1. CASE UNCHANGED roster
    <3>1. signedAt' = signedAt /\ listed' = listed /\ joined' = joined /\ signedAt \in Nat
      BY <1>1, <2>1, Numbers, TypeParts DEF roster, RosterType
    <3> QED
      BY <3>1
  <2>2. ASSUME NEW c \in Callers, RosterSave(c)
        PROVE  Kept1
    <3>1. /\ DraftOK(c) /\ at[c] = "rsave"
          /\ signedAt' = draft[c].date /\ listed' = draft[c].members /\ joined' = draft[c].joined
      BY <1>1, <2>2, TypeParts DEF CallerOK, RosterSave
    <3> QED
      BY <3>1 DEF DraftOK
  <2> QED
    BY <1>1, <2>1, <2>2, Writers
<1>2. IInv /\ [Next]_vars => [Kept1]_vars
  BY <1>1
<1> QED
  BY <1>2, Invariant, PTL DEF Spec, MembershipKept
=============================================================================
