------------------------ MODULE MemoryConsent_proof ------------------------
(***************************************************************************)
(* Proofs about MemoryConsent: a verdict on a proposal is final, for any   *)
(* number of requests, texts, ids, failed writes and crashes.              *)
(***************************************************************************)
EXTENDS MemoryConsent, SequenceTheorems, TLAPS

Past == {"put", "file", "index", "status", "unlink"}

\* What a request is about, by where it is.
AboutOK(c) ==
  /\ at[c] = "idle" => on[c] = Nothing
  /\ at[c] \in {"approve", "reject", "status", "unlink"} => on[c] \in Proposals
  /\ at[c] \in {"put", "file", "index"} => on[c] \in Texts
  /\ at[c] = "unquarantine" => on[c] \in Imports
  /\ at[c] \in {"delete", "deleting", "tombstone"} => on[c] \in Ids

AboutInv == \A c \in Callers : AboutOK(c)

\* The queue of a proposal's mutex holds the requests about it, each once, and only the
\* first of them is past the mutex.
QueueOK(i) ==
  /\ \A c \in Callers : on[c] = i <=> \E k \in 1..Len(queue[i]) : queue[i][k] = c
  /\ \A j, k \in 1..Len(queue[i]) : queue[i][j] = queue[i][k] => j = k
  /\ \A c \in Callers : on[c] = i /\ at[c] \in Past => queue[i][1] = c

QueueInv == \A i \in Proposals : QueueOK(i)

\* A request past the mutex has a proposal without a verdict in hand.
OpenOK(c) == at[c] \in Past /\ on[c] \in Proposals => prop[on[c]] = "pending"

OpenInv == \A c \in Callers : OpenOK(c)

GoneInv == \A i \in Proposals : i \in rejected => prop[i] = "gone"

IInv == TypeOK /\ AboutInv /\ QueueInv /\ OpenInv /\ GoneInv

(***************************************************************************)
(* The queue                                                               *)
(***************************************************************************)
\* Who is first in a line without repetitions and leaves is not in it any more; the
\* others keep their order.
LEMMA TailOnce ==
  ASSUME NEW S, NEW s \in Seq(S), s # <<>>,
         \A j, k \in 1..Len(s) : s[j] = s[k] => j = k
  PROVE  /\ Tail(s) \in Seq(S)
         /\ \A j, k \in 1..Len(Tail(s)) : Tail(s)[j] = Tail(s)[k] => j = k
         /\ \A x : (\E k \in 1..Len(Tail(s)) : Tail(s)[k] = x)
                   <=> x # s[1] /\ \E k \in 1..Len(s) : s[k] = x
<1>1. /\ Tail(s) \in Seq(S) /\ Len(s) \in Nat \ {0} /\ Len(Tail(s)) = Len(s) - 1
      /\ \A k \in 1..Len(Tail(s)) : Tail(s)[k] = s[k+1]
  BY HeadTailProperties, EmptySeq, LenProperties
<1>2. \A j, k \in 1..Len(Tail(s)) : Tail(s)[j] = Tail(s)[k] => j = k
  BY <1>1
<1>3. ASSUME NEW x, NEW k \in 1..Len(Tail(s)), Tail(s)[k] = x
      PROVE  x # s[1] /\ \E l \in 1..Len(s) : s[l] = x
  <2>1. k + 1 \in 1..Len(s) /\ 1 \in 1..Len(s) /\ k + 1 # 1 /\ s[k+1] = x
    BY <1>1, <1>3
  <2> QED
    BY <2>1
<1>4. ASSUME NEW x, x # s[1], NEW k \in 1..Len(s), s[k] = x
      PROVE  \E l \in 1..Len(Tail(s)) : Tail(s)[l] = x
  <2>1. k - 1 \in 1..Len(Tail(s)) /\ Tail(s)[k-1] = s[k]
    BY <1>1, <1>4
  <2> QED
    BY <2>1, <1>4
<1> QED
  BY <1>1, <1>2, <1>3, <1>4

\* Who is not in a line and joins it is last.
LEMMA AppendOnce ==
  ASSUME NEW S, NEW s \in Seq(S), NEW c \in S, \A k \in 1..Len(s) : s[k] # c,
         \A j, k \in 1..Len(s) : s[j] = s[k] => j = k
  PROVE  /\ Append(s, c) \in Seq(S)
         /\ \A j, k \in 1..Len(Append(s, c)) : Append(s, c)[j] = Append(s, c)[k] => j = k
         /\ \A x : (\E k \in 1..Len(Append(s, c)) : Append(s, c)[k] = x)
                   <=> x = c \/ \E k \in 1..Len(s) : s[k] = x
         /\ \A x : (\E k \in 1..Len(s) : s[k] = x) => Append(s, c)[1] = s[1]
<1> DEFINE t == Append(s, c)
<1>1. /\ t \in Seq(S) /\ Len(s) \in Nat /\ Len(t) = Len(s) + 1
      /\ \A k \in 1..Len(s) : t[k] = s[k]
      /\ t[Len(s) + 1] = c
  BY AppendProperties, LenProperties
<1> HIDE DEF t
<1>2. \A k \in 1..Len(t) : k \in 1..Len(s) \/ k = Len(s) + 1
  BY <1>1
<1>3. \A j, k \in 1..Len(t) : t[j] = t[k] => j = k
  BY <1>1, <1>2
<1>4. ASSUME NEW x
      PROVE  (\E k \in 1..Len(t) : t[k] = x) <=> x = c \/ \E k \in 1..Len(s) : s[k] = x
  <2>1. ASSUME NEW k \in 1..Len(t), t[k] = x
        PROVE  x = c \/ \E l \in 1..Len(s) : s[l] = x
    BY <1>1, <1>2, <2>1
  <2>2. CASE x = c
    BY <1>1, <2>2
  <2>3. ASSUME NEW k \in 1..Len(s), s[k] = x
        PROVE  \E l \in 1..Len(t) : t[l] = x
    BY <1>1, <2>3
  <2> QED
    BY <2>1, <2>2, <2>3, <1>1
<1>5. ASSUME NEW x, NEW k \in 1..Len(s), s[k] = x
      PROVE  t[1] = s[1]
  BY <1>1
<1> QED
  BY <1>1, <1>3, <1>4, <1>5 DEF t

(***************************************************************************)
(* What the steps have in common                                           *)
(***************************************************************************)
CallerType ==
  /\ at \in [Callers -> Ats] /\ on \in [Callers -> Texts \cup Ids \cup {Nothing}]
  /\ snap \in [Callers -> [Ids -> Texts \cup {Nothing}]]
  /\ queue \in [Proposals -> Seq(Callers)]

\* The invariant of the callers and their queues, apart from the files.
CallerInv == CallerType /\ AboutInv /\ QueueInv

LEMMA Empty == NoIndex \in [Ids -> Texts \cup {Nothing}]
BY DEF NoIndex

\* A request that is first, or has no mutex, is answered.
LEMMA ReturnOK ==
  ASSUME CallerInv, NEW c \in Callers, Return(c),
         on[c] \in Proposals => queue[on[c]] # <<>> /\ queue[on[c]][1] = c
  PROVE  CallerInv' /\ at'[c] = "idle" /\ \A d \in Callers \ {c} : at'[d] = at[d] /\ on'[d] = on[d]
<1>1. /\ at' = [at EXCEPT ![c] = "idle"] /\ on' = [on EXCEPT ![c] = Nothing]
      /\ snap' = [snap EXCEPT ![c] = NoIndex]
  BY DEF Return, Goto
<1>2. /\ at'[c] = "idle" /\ on'[c] = Nothing
      /\ \A d \in Callers \ {c} : at'[d] = at[d] /\ on'[d] = on[d]
  BY <1>1 DEF CallerInv, CallerType
<1>3. at' \in [Callers -> Ats] /\ on' \in [Callers -> Texts \cup Ids \cup {Nothing}]
  BY <1>1 DEF CallerInv, CallerType, Ats
<1>4. snap' \in [Callers -> [Ids -> Texts \cup {Nothing}]]
  BY <1>1, Empty DEF CallerInv, CallerType
<1>5. AboutInv'
  BY <1>2 DEF CallerInv, AboutInv, AboutOK
<1>6. Nothing \notin Proposals
  BY IdType DEF Texts
<1>7. ASSUME NEW i \in Proposals
      PROVE  queue'[i] \in Seq(Callers) /\ QueueOK(i)'
  <2>1. queue[i] \in Seq(Callers) /\ QueueOK(i)
    BY DEF CallerInv, CallerType, QueueInv
  <2>2. CASE on[c] = i
    <3>1. queue'[i] = Tail(queue[i]) /\ queue[i] # <<>> /\ queue[i][1] = c
      BY <2>2 DEF Return, CallerInv, CallerType
    <3>2. /\ queue'[i] \in Seq(Callers)
          /\ \A j, k \in 1..Len(queue'[i]) : queue'[i][j] = queue'[i][k] => j = k
          /\ \A x : (\E k \in 1..Len(queue'[i]) : queue'[i][k] = x)
                    <=> x # c /\ \E k \in 1..Len(queue[i]) : queue[i][k] = x
      BY <2>1, <3>1, TailOnce DEF QueueOK
    <3>3. \A d \in Callers : on'[d] = i <=> \E k \in 1..Len(queue'[i]) : queue'[i][k] = d
      BY <1>2, <1>6, <2>1, <3>2 DEF QueueOK
    <3>4. \A d \in Callers \ {c} : ~(on[d] = i /\ at[d] \in Past)
      BY <2>1, <3>1 DEF QueueOK
    <3>5. \A d \in Callers : on'[d] = i /\ at'[d] \in Past => queue'[i][1] = d
      BY <1>2, <3>4 DEF Past
    <3> QED
      BY <3>2, <3>3, <3>5 DEF QueueOK
  <2>3. CASE on[c] # i
    <3>1. queue'[i] = queue[i]
      BY <2>3 DEF Return, CallerInv, CallerType
    <3>2. \A d \in Callers : on'[d] = i <=> on[d] = i
      BY <1>2, <1>6, <2>3
    <3>3. \A d \in Callers : on'[d] = i /\ at'[d] \in Past => on[d] = i /\ at[d] \in Past
      BY <1>2, <1>6
    <3> QED
      BY <2>1, <3>1, <3>2, <3>3 DEF QueueOK
  <2> QED
    BY <2>2, <2>3
<1>8. DOMAIN queue' = Proposals /\ queue' = [i \in DOMAIN queue' |-> queue'[i]]
  BY DEF Return, CallerInv, CallerType
<1> QED
  BY <1>2, <1>3, <1>4, <1>5, <1>7, <1>8 DEF CallerInv, CallerType, QueueInv

\* A request goes on with what it is about; it passes the mutex only as the first.
LEMMA GoOK ==
  ASSUME CallerInv, NEW c \in Callers, NEW l \in Ats, Goto(c, l), UNCHANGED <<on, queue>>,
         snap' \in [Callers -> [Ids -> Texts \cup {Nothing}]],
         AboutOK(c)', l \in Past /\ on[c] \in Proposals => queue[on[c]][1] = c
  PROVE  CallerInv' /\ at'[c] = l /\ \A d \in Callers \ {c} : at'[d] = at[d] /\ on'[d] = on[d]
<1>1. at' \in [Callers -> Ats] /\ at'[c] = l /\ \A d \in Callers \ {c} : at'[d] = at[d]
  BY DEF Goto, CallerInv, CallerType
<1>2. AboutInv'
  BY <1>1 DEF CallerInv, AboutInv, AboutOK
<1>3. QueueInv'
  BY <1>1 DEF CallerInv, QueueInv, QueueOK
<1> QED
  BY <1>1, <1>2, <1>3 DEF CallerInv, CallerType

\* A request arrives that needs no mutex ...
LEMMA BeginOK ==
  ASSUME CallerInv, NEW c \in Callers, NEW l \in Ats, NEW x \in Texts \cup Ids, x \notin Proposals,
         at[c] = "idle", Goto(c, l), on' = [on EXCEPT ![c] = x], UNCHANGED queue,
         snap' \in [Callers -> [Ids -> Texts \cup {Nothing}]],
         AboutOK(c)'
  PROVE  /\ CallerInv' /\ at'[c] = l /\ on'[c] = x
         /\ \A d \in Callers \ {c} : at'[d] = at[d] /\ on'[d] = on[d]
<1>1. /\ at' \in [Callers -> Ats] /\ at'[c] = l /\ on'[c] = x
      /\ on' \in [Callers -> Texts \cup Ids \cup {Nothing}]
      /\ \A d \in Callers \ {c} : at'[d] = at[d] /\ on'[d] = on[d]
  BY DEF Goto, CallerInv, CallerType
<1>2. AboutInv'
  BY <1>1 DEF CallerInv, AboutInv, AboutOK
<1>3. on[c] \notin Proposals
  BY IdType DEF CallerInv, AboutInv, AboutOK, Texts
<1>4. ASSUME NEW i \in Proposals PROVE QueueOK(i)'
  <2>1. QueueOK(i) /\ queue'[i] = queue[i]
    BY DEF CallerInv, QueueInv
  <2>2. \A d \in Callers : on'[d] = i <=> on[d] = i
    BY <1>1, <1>3
  <2>3. \A d \in Callers : on'[d] = i => at'[d] = at[d]
    BY <1>1
  <2> QED
    BY <2>1, <2>2, <2>3 DEF QueueOK
<1> QED
  BY <1>1, <1>2, <1>4 DEF CallerInv, CallerType, QueueInv

\* ... or one about a proposal, and it waits its turn.
LEMMA EnterOK ==
  ASSUME CallerInv, NEW c \in Callers, NEW l \in {"approve", "reject"}, NEW i \in Proposals,
         at[c] = "idle", Goto(c, l), on' = [on EXCEPT ![c] = i], Enter(c, i), UNCHANGED snap
  PROVE  CallerInv' /\ at'[c] = l /\ \A d \in Callers \ {c} : at'[d] = at[d] /\ on'[d] = on[d]
<1>1. /\ at' \in [Callers -> Ats] /\ at'[c] = l /\ on'[c] = i
      /\ on' \in [Callers -> Texts \cup Ids \cup {Nothing}]
      /\ \A d \in Callers \ {c} : at'[d] = at[d] /\ on'[d] = on[d]
  BY DEF Goto, CallerInv, CallerType, Ats, Texts
<1>2. AboutInv'
  BY <1>1 DEF CallerInv, AboutInv, AboutOK
<1>3. on[c] \notin Proposals
  BY IdType DEF CallerInv, AboutInv, AboutOK, Texts
<1>4. ASSUME NEW j \in Proposals
      PROVE  queue'[j] \in Seq(Callers) /\ QueueOK(j)'
  <2>1. queue[j] \in Seq(Callers) /\ QueueOK(j)
    BY DEF CallerInv, CallerType, QueueInv
  <2>2. CASE j = i
    <3>1. queue'[j] = Append(queue[j], c)
      BY <2>2 DEF Enter, CallerInv, CallerType
    <3>2. \A k \in 1..Len(queue[j]) : queue[j][k] # c
      <4>1. ~ \E k \in 1..Len(queue[j]) : queue[j][k] = c
        BY <1>3, <2>1 DEF QueueOK
      <4> QED
        BY <4>1
    <3>3. /\ queue'[j] \in Seq(Callers)
          /\ \A k, m \in 1..Len(queue'[j]) : queue'[j][k] = queue'[j][m] => k = m
          /\ \A x : (\E k \in 1..Len(queue'[j]) : queue'[j][k] = x)
                    <=> x = c \/ \E k \in 1..Len(queue[j]) : queue[j][k] = x
          /\ \A x : (\E k \in 1..Len(queue[j]) : queue[j][k] = x) => queue'[j][1] = queue[j][1]
      <4>1. \A k, m \in 1..Len(queue[j]) : queue[j][k] = queue[j][m] => k = m
        BY <2>1 DEF QueueOK
      <4>2. queue[j] \in Seq(Callers)
        BY <2>1
      <4> QED
        BY <3>1, <3>2, <4>1, <4>2, AppendOnce
    <3>4. \A d \in Callers : on'[d] = j <=> d = c \/ on[d] = j
      BY <1>1, <2>2
    <3>5. \A d \in Callers : on'[d] = j <=> \E k \in 1..Len(queue'[j]) : queue'[j][k] = d
      BY <2>1, <3>3, <3>4 DEF QueueOK
    <3>6. ASSUME NEW d \in Callers, on'[d] = j, at'[d] \in Past
          PROVE  queue'[j][1] = d
      <4>1. d # c /\ on[d] = j /\ at[d] \in Past
        BY <1>1, <3>6 DEF Past
      <4>2. queue[j][1] = d /\ \E k \in 1..Len(queue[j]) : queue[j][k] = d
        BY <2>1, <4>1 DEF QueueOK
      <4> QED
        BY <3>3, <4>2
    <3> QED
      BY <3>3, <3>5, <3>6 DEF QueueOK
  <2>3. CASE j # i
    <3>1. queue'[j] = queue[j]
      BY <2>3 DEF Enter, CallerInv, CallerType
    <3>2. \A d \in Callers : (on'[d] = j <=> on[d] = j) /\ (on'[d] = j => at'[d] = at[d])
      BY <1>1, <1>3, <2>3
    <3> QED
      BY <2>1, <3>1, <3>2 DEF QueueOK
  <2> QED
    BY <2>2, <2>3
<1>5. DOMAIN queue' = Proposals /\ queue' = [j \in DOMAIN queue' |-> queue'[j]]
  BY DEF Enter, CallerInv, CallerType
<1> QED
  BY <1>1, <1>2, <1>4, <1>5 DEF CallerInv, CallerType, QueueInv

(***************************************************************************)
(* The files and the callers, step by step                                 *)
(***************************************************************************)
FileType ==
  /\ prop \in [Proposals -> {"none", "pending", "approved", "gone"}]
  /\ quar \in [Imports -> {"none", "held", "gone"}]
  /\ enc \in [Ids -> Texts \cup {Nothing}] /\ index \in [Ids -> Texts \cup {Nothing}]
  /\ tomb \subseteq Ids /\ rejected \subseteq Texts
  /\ booting \in BOOLEAN /\ faults \in Nat

LEMMA Parts ==
  /\ IInv <=> FileType /\ CallerInv /\ OpenInv /\ GoneInv
  /\ IInv' <=> FileType' /\ CallerInv' /\ OpenInv' /\ GoneInv'
<1>1. IInv <=> FileType /\ CallerInv /\ OpenInv /\ GoneInv
  BY DEF IInv, TypeOK, FileType, CallerInv, CallerType
<1>2. IInv' <=> FileType' /\ CallerInv' /\ OpenInv' /\ GoneInv'
  BY DEF IInv, TypeOK, FileType, CallerInv, CallerType
<1> QED
  BY <1>1, <1>2

\* No verdict is written by a step that leaves proposals and rejections alone, unless it
\* passes a mutex.
LEMMA NoVerdict ==
  ASSUME IInv, NEW c \in Callers, UNCHANGED <<prop, rejected>>, OpenOK(c)',
         \A d \in Callers \ {c} : at'[d] = at[d] /\ on'[d] = on[d]
  PROVE  OpenInv' /\ GoneInv'
BY Parts DEF OpenInv, OpenOK, GoneInv

\* A request that is past the mutex, or needs none, is answered without a verdict.
LEMMA AnswerStep ==
  ASSUME IInv, NEW c \in Callers, Return(c), UNCHANGED <<prop, rejected>>, FileType',
         on[c] \in Proposals => queue[on[c]] # <<>> /\ queue[on[c]][1] = c
  PROVE  IInv'
<1>1. CallerInv' /\ at'[c] = "idle" /\ \A d \in Callers \ {c} : at'[d] = at[d] /\ on'[d] = on[d]
  BY Parts, ReturnOK
<1>2. OpenOK(c)'
  BY <1>1 DEF OpenOK, Past
<1> QED
  BY <1>1, <1>2, NoVerdict, Parts

\* The first of a queue of which it is a part.
LEMMA FirstOfQueue ==
  ASSUME IInv, NEW c \in Callers, at[c] \in Past, on[c] \in Proposals
  PROVE  queue[on[c]] # <<>> /\ queue[on[c]][1] = c
<1>1. QueueOK(on[c]) /\ queue[on[c]] \in Seq(Callers)
  BY Parts DEF CallerInv, QueueInv, CallerType
<1>2. PICK k \in 1..Len(queue[on[c]]) : queue[on[c]][k] = c
  BY <1>1 DEF QueueOK
<1>3. queue[on[c]] # <<>>
  BY <1>1, <1>2, EmptySeq
<1> QED
  BY <1>1, <1>3 DEF QueueOK

\* A request goes on within the mutex, or needs none.
LEMMA GoStep ==
  ASSUME IInv, NEW c \in Callers, NEW l \in Ats, Goto(c, l), UNCHANGED <<on, queue, prop, rejected>>,
         FileType', snap' \in [Callers -> [Ids -> Texts \cup {Nothing}]],
         AboutOK(c)', l \in Past /\ on[c] \in Proposals => at[c] \in Past
  PROVE  IInv'
<1>1. CallerInv
  BY Parts
<1>2. l \in Past /\ on[c] \in Proposals => queue[on[c]][1] = c
  BY FirstOfQueue
<1>3. CallerInv' /\ at'[c] = l /\ \A d \in Callers \ {c} : at'[d] = at[d] /\ on'[d] = on[d]
  BY <1>1, <1>2, GoOK
<1>4. OpenOK(c)'
  BY <1>3, Parts DEF OpenInv, OpenOK
<1> QED
  BY <1>3, <1>4, NoVerdict, Parts

LEMMA BeginStep ==
  ASSUME IInv, NEW c \in Callers, NEW l \in Ats, NEW x \in Texts \cup Ids, x \notin Proposals,
         at[c] = "idle", Goto(c, l), on' = [on EXCEPT ![c] = x], UNCHANGED <<files, rejected, queue, booting, faults>>,
         snap' \in [Callers -> [Ids -> Texts \cup {Nothing}]],
         AboutOK(c)'
  PROVE  IInv'
<1>1. /\ CallerInv' /\ at'[c] = l /\ on'[c] = x
      /\ \A d \in Callers \ {c} : at'[d] = at[d] /\ on'[d] = on[d]
  BY Parts, BeginOK
<1>2. OpenOK(c)'
  BY <1>1 DEF OpenOK
<1>3. FileType'
  BY Parts DEF FileType, files
<1> QED
  BY <1>1, <1>2, <1>3, NoVerdict, Parts DEF files

LEMMA EnterStep ==
  ASSUME IInv, NEW c \in Callers, NEW l \in {"approve", "reject"}, NEW i \in Proposals,
         at[c] = "idle", Goto(c, l), on' = [on EXCEPT ![c] = i], Enter(c, i),
         UNCHANGED <<files, rejected, snap, booting, faults>>
  PROVE  IInv'
<1>1. CallerInv' /\ at'[c] = l /\ \A d \in Callers \ {c} : at'[d] = at[d] /\ on'[d] = on[d]
  BY Parts, EnterOK
<1>2. OpenOK(c)'
  BY <1>1 DEF OpenOK, Past
<1>3. FileType'
  BY Parts DEF FileType, files
<1> QED
  BY <1>1, <1>2, <1>3, NoVerdict, Parts DEF files

\* An approval or rejection whose turn it is goes on only if there is no verdict.
LEMMA TurnStep ==
  ASSUME IInv, NEW c \in Callers, NEW l \in {"put", "unlink"}, at[c] \in {"approve", "reject"},
         MayRun(c, on[c]), UNCHANGED <<files, rejected, booting, faults>>,
         \/ prop[on[c]] = "pending" /\ Goto(c, l) /\ UNCHANGED <<on, snap, queue>>
         \/ Return(c)
  PROVE  IInv'
<1>1. FileType' /\ UNCHANGED <<prop, rejected>> /\ queue[on[c]] # <<>> /\ queue[on[c]][1] = c
  BY Parts DEF FileType, files, MayRun, Holds
<1>2. on[c] \in Proposals
  BY Parts DEF CallerInv, AboutInv, AboutOK
<1>3. CASE Return(c)
  BY <1>1, <1>3, AnswerStep
<1>4. CASE prop[on[c]] = "pending" /\ Goto(c, l) /\ UNCHANGED <<on, snap, queue>>
  <2>1. at'[c] = l
    BY <1>4, Parts DEF Goto, CallerInv, CallerType
  <2>2. l \in Ats /\ AboutOK(c)' /\ snap' \in [Callers -> [Ids -> Texts \cup {Nothing}]]
    BY <1>2, <1>4, <2>1, Parts DEF AboutOK, Ats, Texts, CallerInv, CallerType
  <2>3. CallerInv' /\ \A d \in Callers \ {c} : at'[d] = at[d] /\ on'[d] = on[d]
    BY <1>1, <1>4, <2>2, Parts, GoOK
  <2>4. OpenOK(c)'
    BY <1>1, <1>4 DEF OpenOK
  <2> QED
    BY <1>1, <2>3, <2>4, NoVerdict, Parts
<1> QED
  BY <1>3, <1>4

\* A verdict: nobody else has the proposal in hand.
LEMMA VerdictStep ==
  ASSUME IInv, NEW c \in Callers, at[c] \in {"status", "unlink"}, Return(c),
         NEW v \in {"approved", "gone"}, prop' = [prop EXCEPT ![on[c]] = v],
         v = "gone" => rejected' = rejected \cup {on[c]}, v = "approved" => UNCHANGED rejected,
         UNCHANGED <<quar, enc, index, tomb, booting, faults>>
  PROVE  IInv'
<1>1. on[c] \in Proposals /\ prop[on[c]] = "pending"
  BY Parts DEF CallerInv, AboutInv, AboutOK, OpenInv, OpenOK, Past
<1>2. queue[on[c]] # <<>> /\ queue[on[c]][1] = c
  BY <1>1, FirstOfQueue DEF Past
<1>3. CallerInv' /\ at'[c] = "idle" /\ \A d \in Callers \ {c} : at'[d] = at[d] /\ on'[d] = on[d]
  BY <1>2, Parts, ReturnOK
<1>4. FileType'
  BY <1>1, Parts DEF FileType, Texts
<1>5. \A i \in Proposals : prop'[i] = IF i = on[c] THEN v ELSE prop[i]
  BY Parts DEF FileType
<1>6. ASSUME NEW d \in Callers PROVE OpenOK(d)'
  <2>1. CASE d = c
    BY <1>3, <2>1 DEF OpenOK, Past
  <2>2. CASE d # c
    <3>1. at'[d] = at[d] /\ on'[d] = on[d]
      BY <1>3, <2>2
    <3>2. at[d] \in Past /\ on[d] \in Proposals => queue[on[d]][1] = d /\ prop[on[d]] = "pending"
      BY Parts, FirstOfQueue DEF OpenInv, OpenOK
    <3>3. at[d] \in Past /\ on[d] \in Proposals => on[d] # on[c]
      BY <1>2, <2>2, <3>2
    <3> QED
      BY <1>5, <3>1, <3>2, <3>3 DEF OpenOK
  <2> QED
    BY <2>1, <2>2
<1>7. GoneInv'
  BY <1>1, <1>5, Parts DEF GoneInv
<1> QED
  BY <1>3, <1>4, <1>6, <1>7, Parts DEF OpenInv

(***************************************************************************)
(* The invariant                                                           *)
(***************************************************************************)
LEMMA TextSets ==
  /\ Proposals \subseteq Texts /\ Imports \subseteq Texts /\ Stores \subseteq Texts
  /\ Proposals \cap Imports = {} /\ Proposals \cap Stores = {} /\ Imports \cap Stores = {}
  /\ Nothing \notin Texts /\ Nothing \notin Ids /\ Ids \cap Texts = {}
  /\ \A x \in Texts : IdOf[x] \in Ids
BY IdType, Distinct DEF Texts

LEMMA Start == Init => IInv
<1> SUFFICES ASSUME Init PROVE IInv
  OBVIOUS
<1>1. FileType
  BY DEF Init, FileType, NoIndex
<1>2. CallerType
  BY Empty, EmptySeq DEF Init, CallerType, Ats
<1>3. \A c \in Callers : at[c] = "idle" /\ on[c] = Nothing
  BY DEF Init
<1>4. \A i \in Proposals : queue[i] = <<>> /\ Len(queue[i]) = 0
  BY DEF Init
<1>5. ASSUME NEW i \in Proposals PROVE QueueOK(i)
  <2>1. \A k \in 1..Len(queue[i]) : FALSE
    BY <1>4
  <2> QED
    BY <1>3, <2>1, TextSets DEF QueueOK, Past
<1>6. AboutInv /\ OpenInv
  BY <1>3 DEF AboutInv, AboutOK, OpenInv, OpenOK, Past
<1>7. GoneInv
  BY DEF Init, GoneInv
<1> QED
  BY <1>1, <1>2, <1>5, <1>6, <1>7, Parts DEF CallerInv, QueueInv

LEMMA StepOK ==
  ASSUME IInv, NEW c \in Callers, Step(c)
  PROVE  IInv'
<1> DEFINE Snap == [Ids -> Texts \cup {Nothing}]
<1>1. FileType /\ CallerType /\ AboutOK(c)
  BY Parts DEF CallerInv, AboutInv
<1>2. at[c] \in Past /\ on[c] \in Proposals => queue[on[c]] # <<>> /\ queue[on[c]][1] = c
  BY FirstOfQueue
<1>3. snap[c] \in Snap /\ snap \in [Callers -> Snap]
  BY <1>1 DEF CallerType
<1>4. \A l : Goto(c, l) => at'[c] = l
  BY <1>1 DEF Goto, CallerType
<1>5. CASE PutRead(c)
  <2>1. FileType' /\ UNCHANGED <<prop, rejected>> /\ at[c] \in Past
    BY <1>1, <1>5 DEF PutRead, FileType, files, Past
  <2>2. CASE Return(c)
    BY <1>2, <2>1, <2>2, AnswerStep
  <2>3. CASE snap' = [snap EXCEPT ![c] = index] /\ Goto(c, "file") /\ UNCHANGED <<on, queue>>
    <3>1. snap' \in [Callers -> Snap]
      BY <1>1, <1>3, <2>3 DEF FileType
    <3>2. AboutOK(c)' /\ "file" \in Ats
      BY <1>1, <1>4, <1>5, <2>3 DEF PutRead, AboutOK, Ats
    <3> QED
      BY <2>1, <2>3, <3>1, <3>2, GoStep
  <2> QED
    BY <1>5, <2>2, <2>3 DEF PutRead
<1>6. CASE PutFile(c)
  <2>1. /\ Goto(c, "index") /\ UNCHANGED <<on, queue, prop, rejected>> /\ at[c] \in Past
        /\ snap' \in [Callers -> Snap] /\ on[c] \in Texts
    BY <1>1, <1>3, <1>6 DEF PutFile, Past, AboutOK
  <2>2. FileType'
    BY <1>1, <1>6, <2>1 DEF PutFile, FileType
  <2>3. AboutOK(c)' /\ "index" \in Ats
    BY <1>4, <2>1 DEF AboutOK, Ats
  <2> QED
    BY <2>1, <2>2, <2>3, GoStep
<1>7. CASE PutIndex(c)
  <2>1. /\ UNCHANGED <<prop, rejected>> /\ at[c] \in Past /\ on[c] \in Texts
        /\ index' = [snap[c] EXCEPT ![IdOf[on[c]]] = on[c]]
    BY <1>1, <1>7 DEF PutIndex, Past, AboutOK
  <2>2. FileType'
    BY <1>1, <1>3, <1>7, <2>1 DEF PutIndex, FileType
  <2>3. CASE on[c] \in Proposals
    <3>1. Goto(c, "status") /\ UNCHANGED <<on, snap, queue>>
      BY <1>7, <2>3, TextSets DEF PutIndex
    <3>2. AboutOK(c)' /\ "status" \in Ats /\ snap' \in [Callers -> Snap]
      BY <1>3, <1>4, <2>3, <3>1 DEF AboutOK, Ats
    <3> QED
      BY <2>1, <2>2, <3>1, <3>2, GoStep
  <2>4. CASE on[c] \in Imports
    <3>1. Goto(c, "unquarantine") /\ UNCHANGED <<on, snap, queue>>
      BY <1>7, <2>4, TextSets DEF PutIndex
    <3>2. AboutOK(c)' /\ "unquarantine" \in Ats /\ snap' \in [Callers -> Snap]
      BY <1>3, <1>4, <2>4, <3>1 DEF AboutOK, Ats
    <3> QED
      BY <2>1, <2>2, <3>1, <3>2, GoStep
  <2>5. CASE on[c] \notin Proposals \cup Imports
    <3>1. Return(c)
      BY <1>7, <2>5 DEF PutIndex
    <3> QED
      BY <2>1, <2>2, <2>5, <3>1, AnswerStep
  <2> QED
    BY <2>3, <2>4, <2>5
<1>8. CASE Approve(c)
  BY <1>8, TurnStep DEF Approve
<1>9. CASE ApproveStatus(c)
  <2>1. prop' = [prop EXCEPT ![on[c]] = "approved"] /\ UNCHANGED rejected
    BY <1>9 DEF ApproveStatus
  <2> QED
    BY <1>9, <2>1, VerdictStep DEF ApproveStatus
<1>10. CASE Reject(c)
  BY <1>10, TurnStep DEF Reject
<1>11. CASE RejectUnlink(c)
  <2>1. prop' = [prop EXCEPT ![on[c]] = "gone"] /\ rejected' = rejected \cup {on[c]}
    BY <1>11 DEF RejectUnlink
  <2> QED
    BY <1>11, <2>1, VerdictStep DEF RejectUnlink
<1>12. CASE Unquarantine(c)
  <2>1. Return(c) /\ UNCHANGED <<prop, rejected>> /\ on[c] \in Imports
    BY <1>1, <1>12 DEF Unquarantine, AboutOK
  <2>2. FileType'
    BY <1>1, <1>12, <2>1, Bounds DEF Unquarantine, FileType, Fault
  <2> QED
    BY <2>1, <2>2, TextSets, AnswerStep
<1>13. CASE DeleteFile(c)
  <2>1. /\ Goto(c, "deleting") /\ UNCHANGED <<on, queue, prop, rejected>>
        /\ snap' \in [Callers -> Snap] /\ on[c] \in Ids
    BY <1>1, <1>3, <1>13 DEF DeleteFile, AboutOK
  <2>2. FileType'
    BY <1>1, <1>13, <2>1 DEF DeleteFile, FileType
  <2>3. AboutOK(c)' /\ "deleting" \in Ats
    BY <1>4, <2>1 DEF AboutOK, Ats
  <2> QED
    BY <2>1, <2>2, <2>3, GoStep DEF Past
<1>14. CASE DeleteIndex(c)
  <2>1. /\ Goto(c, "tombstone") /\ UNCHANGED <<on, queue, prop, rejected>>
        /\ snap' \in [Callers -> Snap] /\ on[c] \in Ids
    BY <1>1, <1>3, <1>14 DEF DeleteIndex, AboutOK
  <2>2. FileType'
    BY <1>1, <1>3, <1>14, <2>1 DEF DeleteIndex, FileType
  <2>3. AboutOK(c)' /\ "tombstone" \in Ats
    BY <1>4, <2>1 DEF AboutOK, Ats
  <2> QED
    BY <2>1, <2>2, <2>3, GoStep DEF Past
<1>15. CASE DeleteTombstone(c)
  <2>1. Return(c) /\ UNCHANGED <<prop, rejected>> /\ on[c] \in Ids
    BY <1>1, <1>15 DEF DeleteTombstone, AboutOK
  <2>2. FileType'
    BY <1>1, <1>15, <2>1 DEF DeleteTombstone, FileType
  <2>3. on[c] \notin Proposals
    BY <2>1, TextSets
  <2> QED
    BY <2>1, <2>2, <2>3, AnswerStep
<1>16. CASE WriteFails(c)
  <2>1. Return(c) /\ UNCHANGED <<prop, rejected>> /\ at[c] \in Writing
    BY <1>16 DEF WriteFails, files
  <2>2. FileType'
    BY <1>1, <1>16, Bounds DEF WriteFails, FileType, files, Fault
  <2>3. on[c] \in Proposals => at[c] \in Past
    BY <1>1, <2>1, TextSets DEF AboutOK, Writing, Past
  <2> QED
    BY <1>2, <2>1, <2>2, <2>3, AnswerStep
<1> QED
  BY <1>5, <1>6, <1>7, <1>8, <1>9, <1>10, <1>11, <1>12, <1>13, <1>14, <1>15, <1>16 DEF Step

LEMMA RequestOK ==
  ASSUME IInv, NEW c \in Callers, Request(c)
  PROVE  IInv'
<1> DEFINE Snap == [Ids -> Texts \cup {Nothing}]
<1>1. FileType /\ CallerType
  BY Parts DEF CallerInv
<1>2. snap \in [Callers -> Snap] /\ index \in Snap
  BY <1>1 DEF CallerType, FileType
<1>3. \A l : Goto(c, l) => at'[c] = l
  BY <1>1 DEF Goto, CallerType
<1>4. \A x : on' = [on EXCEPT ![c] = x] => on'[c] = x
  BY <1>1 DEF CallerType
<1>5. ASSUME NEW i \in Proposals, ApproveCall(c, i)
      PROVE  IInv'
  BY <1>5, EnterStep DEF ApproveCall
<1>6. ASSUME NEW i \in Proposals, RejectCall(c, i)
      PROVE  IInv'
  BY <1>6, EnterStep DEF RejectCall
<1>7. ASSUME NEW x \in Imports \cup Stores, at[c] = "idle", Goto(c, "put"),
             on' = [on EXCEPT ![c] = x], UNCHANGED <<files, rejected, snap, queue, booting, faults>>
      PROVE  IInv'
  <2>1. x \in Texts /\ x \notin Proposals
    BY TextSets
  <2>2. AboutOK(c)' /\ "put" \in Ats /\ snap' \in [Callers -> Snap]
    BY <1>2, <1>3, <1>4, <1>7, <2>1 DEF AboutOK, Ats
  <2> QED
    BY <1>7, <2>1, <2>2, BeginStep
<1>8. ASSUME NEW d \in Ids, DeleteCall(c, d)
      PROVE  IInv'
  <2>1. d \notin Proposals /\ d \in Texts \cup Ids
    BY TextSets
  <2>2. /\ at[c] = "idle" /\ Goto(c, "delete") /\ on' = [on EXCEPT ![c] = d]
        /\ UNCHANGED <<files, rejected, queue, booting, faults>>
    BY <1>8 DEF DeleteCall
  <2>3. AboutOK(c)' /\ "delete" \in Ats /\ snap' \in [Callers -> Snap]
    BY <1>2, <1>3, <1>4, <1>8, <2>2 DEF AboutOK, Ats, DeleteCall
  <2> QED
    BY <2>1, <2>2, <2>3, BeginStep
<1> QED
  BY <1>5, <1>6, <1>7, <1>8 DEF Request, ApproveQuarantine, Store

\* Proposals and imports arrive, an import is discarded, the sweep runs, all stops.
LEMMA OtherOK ==
  ASSUME IInv, \/ \E i \in Proposals : Propose(i)
               \/ \E m \in Imports : Import(m) \/ RejectQuarantine(m)
               \/ SweepFiles \/ SweepIndex \/ Crash
  PROVE  IInv'
<1>1. FileType /\ CallerInv /\ OpenInv /\ GoneInv
  BY Parts
<1>2. ASSUME UNCHANGED <<at, on, snap, queue>>
      PROVE  CallerInv'
  BY <1>1, <1>2 DEF CallerInv, CallerType, AboutInv, AboutOK, QueueInv, QueueOK
<1>3. ASSUME NEW i \in Proposals, Propose(i) PROVE IInv'
  <2>1. FileType'
    BY <1>1, <1>3 DEF Propose, FileType
  <2>2. OpenInv'
    BY <1>1, <1>3 DEF Propose, OpenInv, OpenOK, FileType
  <2>3. GoneInv'
    BY <1>1, <1>3 DEF Propose, GoneInv, FileType
  <2> QED
    BY <1>2, <1>3, <2>1, <2>2, <2>3, Parts DEF Propose
<1>4. ASSUME NEW m \in Imports, Import(m) PROVE IInv'
  <2>1. FileType'
    BY <1>1, <1>4 DEF Import, FileType
  <2> QED
    BY <1>1, <1>2, <1>4, <2>1, Parts DEF Import, OpenInv, OpenOK, GoneInv
<1>5. ASSUME NEW m \in Imports, RejectQuarantine(m) PROVE IInv'
  <2>1. FileType' /\ GoneInv'
    BY <1>1, <1>5, TextSets DEF RejectQuarantine, FileType, GoneInv
  <2> QED
    BY <1>1, <1>2, <1>5, <2>1, Parts DEF RejectQuarantine, OpenInv, OpenOK
<1>6. CASE SweepFiles \/ SweepIndex
  <2>1. FileType'
    BY <1>1, <1>6 DEF SweepFiles, SweepIndex, FileType
  <2> QED
    BY <1>1, <1>2, <1>6, <2>1, Parts DEF SweepFiles, SweepIndex, OpenInv, OpenOK, GoneInv
<1>7. CASE Crash
  <2>1. FileType' /\ GoneInv'
    BY <1>1, <1>7, Bounds DEF Crash, Fault, FileType, GoneInv, files
  <2>2. CallerType'
    BY <1>7, Empty, EmptySeq DEF Crash, CallerType, Ats
  <2>3. \A c \in Callers : at'[c] = "idle" /\ on'[c] = Nothing
    BY <1>7 DEF Crash
  <2>4. ASSUME NEW i \in Proposals PROVE QueueOK(i)'
    <3>1. queue'[i] = <<>> /\ Len(queue'[i]) = 0
      BY <1>7, EmptySeq DEF Crash
    <3>2. \A k \in 1..Len(queue'[i]) : FALSE
      BY <3>1
    <3> QED
      BY <2>3, <3>2, TextSets DEF QueueOK, Past
  <2>5. AboutInv' /\ OpenInv'
    BY <2>3 DEF AboutInv, AboutOK, OpenInv, OpenOK, Past
  <2> QED
    BY <2>1, <2>2, <2>4, <2>5, Parts DEF CallerInv, QueueInv
<1> QED
  BY <1>3, <1>4, <1>5, <1>6, <1>7

LEMMA Inductive == Spec => []IInv
<1>1. IInv /\ [Next]_vars => IInv'
  <2> SUFFICES ASSUME IInv, [Next]_vars PROVE IInv'
    OBVIOUS
  <2>1. CASE UNCHANGED vars
    <3>1. FileType' /\ CallerInv' /\ OpenInv' /\ GoneInv'
      BY <2>1, Parts DEF vars, files, FileType, CallerInv, CallerType, AboutInv, AboutOK, QueueInv,
                         QueueOK, OpenInv, OpenOK, GoneInv
    <3> QED
      BY <3>1, Parts
  <2> QED
    BY <2>1, StepOK, RequestOK, OtherOK DEF Next
<1> QED
  BY <1>1, Start, PTL DEF Spec

\* Only the write of a text by a request that holds its proposal puts it in the store.
LEMMA OneWriter ==
  ASSUME IInv, [Next]_vars, NEW i \in Proposals, NEW d \in Ids, enc'[d] = i, enc[d] # i
  PROVE  prop[i] = "pending" /\ i \notin rejected
<1>1. FileType /\ GoneInv /\ i # Nothing /\ OpenInv
  BY Parts, TextSets
<1>2. PICK c \in Callers : PutFile(c)
  BY <1>1 DEF Next, vars, files, Step, Request, PutRead, PutIndex, Approve, ApproveStatus, Reject,
              RejectUnlink, Unquarantine, DeleteFile, DeleteIndex, DeleteTombstone, WriteFails,
              ApproveCall, RejectCall, ApproveQuarantine, Store, DeleteCall, Propose, Import,
              RejectQuarantine, SweepFiles, SweepIndex, Crash, FileType
<1>3. on[c] = i /\ at[c] \in Past
  BY <1>1, <1>2 DEF PutFile, FileType, Past
<1> QED
  BY <1>1, <1>3 DEF OpenInv, OpenOK, GoneInv

\* A verdict is final: a rejected text is not stored afterwards, an approved one not again
\* (consent.mjs under its keyed mutex, with the status of the proposal as its nonce).
THEOREM VerdictsAreFinal == Spec => VerdictsHold
<1>1. IInv => TypeOK
  BY DEF IInv
<1>2. ASSUME IInv, [Next]_vars
      PROVE  [\A i \in Proposals, d \in Ids :
                (i \in rejected \/ prop[i] = "approved") /\ enc'[d] = i => enc[d] = i]_vars
  BY <1>2, OneWriter
<1> QED
  BY <1>1, <1>2, Inductive, PTL DEF Spec, VerdictsHold
============================================================================
