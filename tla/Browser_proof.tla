---------------------------- MODULE Browser_proof ----------------------------
(***************************************************************************)
(* Proofs about the owner's browser, for any number of tabs.               *)
(* Conversations: the index names what is there, the store is a register   *)
(* of versions, and what a tab deleted it does not create again.           *)
(* BrowserSession: an ended session is not put back, a tab that keeps one  *)
(* alive has a timer or a renewal, and a live one ends for a reason.       *)
(***************************************************************************)
EXTENDS Conversations, BrowserSession, SequenceTheorems, TLAPS

(***************************************************************************)
(* Conversations: the inductive invariant.                                 *)
(***************************************************************************)
\* A request is of its kind, and a save that is heard the write its tab waits for.
RequestOK(r) ==
  /\ r.n \in 0..Len(content)
  /\ r.op = "save" => r.n # 0
  /\ r.op = "remove" => r.n = 0
  /\ r.op = "save" /\ r.heard => Working(r.tab, "sent")

\* Two saves are of two versions, and a tab waits for one; it has one delete under way.
Distinct ==
  /\ \A r, s \in requests :
       /\ r.op = "save" /\ s.op = "save"
       /\ r.n = s.n \/ (r.heard /\ s.heard /\ r.tab = s.tab)
       => r = s
  /\ \A r, s \in requests : r.op = "remove" /\ s.op = "remove" /\ r.tab = s.tab => r = s

\* What a request found in the index: the version it started from, or one to delete.
Fits(r) == (r.op = "save" => r.base = index) /\ (r.op = "remove" => index # 0)

\* One request is between its two writes: its blob is in place, and the index is still
\* what it found.
Between ==
  /\ \A r \in requests : r.step = "index" => blob = r.n /\ Fits(r)
  /\ \A r, s \in requests : r.step = "index" /\ s.step = "index" => r = s

RequestInv == (\A r \in requests : RequestOK(r)) /\ Distinct /\ Between

\* The messages of a record are those of a version that was sealed.
RecordInv == \A t \in Tabs : record[t].text \in 0..Len(content)

\* Only an answer says that a request went through.
AnswerInv == \A r \in requests : r.ok => r.step = "done"

IInv == TypeOK /\ RequestInv /\ RecordInv /\ AnswerInv

(***************************************************************************)
(* Conversations: types.                                                   *)
(***************************************************************************)
AgentType ==
  /\ content \in Seq(SUBSET Messages) /\ Len(content) <= MaxSeals
  /\ index \in 0..Len(content) /\ blob \in 0..Len(content) /\ requests \subseteq Requests
RecordType == record \in [Tabs -> Records]
ThreadType ==
  /\ thread \in [Tabs -> SUBSET Messages] /\ said \in 0..MaxSaid
  /\ deleted \in [Tabs -> SUBSET Messages]
FlagType == dirty \in [Tabs -> BOOLEAN] /\ removed \in [Tabs -> BOOLEAN] /\ loaded \in [Tabs -> BOOLEAN]
QueueType == queue \in [Tabs -> Seq(Jobs)]

LEMMA Types ==
  /\ TypeOK <=> AgentType /\ RecordType /\ ThreadType /\ FlagType /\ QueueType
  /\ TypeOK' <=> AgentType' /\ RecordType' /\ ThreadType' /\ FlagType' /\ QueueType'
<1>1. TypeOK <=> AgentType /\ RecordType /\ ThreadType /\ FlagType /\ QueueType
  BY DEF TypeOK, AgentType, RecordType, ThreadType, FlagType, QueueType
<1>2. TypeOK' <=> AgentType' /\ RecordType' /\ ThreadType' /\ FlagType' /\ QueueType'
  BY DEF TypeOK, AgentType, RecordType, ThreadType, FlagType, QueueType
<1> QED
  BY <1>1, <1>2

LEMMA TextType ==
  ASSUME AgentType, NEW n \in 0..Len(content)
  PROVE  Text(n) \in SUBSET Messages
BY DEF AgentType, Text

LEMMA ShaType ==
  ASSUME NEW n \in Versions
  PROVE  Sha(n) \in Records /\ Sha(n).sha = n /\ Sha(n).text = n /\ ~Sha(n).locked
BY Bounds DEF Sha, NoRecord, Records, Versions

LEMMA NumberType ==
  ASSUME AgentType, NEW n \in 0..Len(content)
  PROVE  n \in Versions /\ Len(content) \in Nat
BY Bounds DEF AgentType, Versions

\* Queues grow at the end and shrink at the front.
LEMMA EnqueueType ==
  ASSUME QueueType, ThreadType', NEW t \in Tabs, NEW kind \in {"save", "patch"}, Enqueue(t, kind)
  PROVE  QueueType'
<1> DEFINE text == IF kind = "save" THEN thread'[t] ELSE {}
           job == [step |-> "wait", kind |-> kind, text |-> text]
<1>1. job \in Jobs
  BY DEF ThreadType, Jobs
<1>2. queue' = [queue EXCEPT ![t] = Append(queue[t], job)]
  BY DEF Enqueue
<1>3. Append(queue[t], job) \in Seq(Jobs)
  BY <1>1, AppendProperties DEF QueueType
<1> HIDE DEF job
<1> QED
  BY <1>2, <1>3 DEF QueueType

LEMMA DoneType ==
  ASSUME QueueType, NEW t \in Tabs, queue[t] # <<>>, Done(t)
  PROVE  QueueType'
<1>1. Tail(queue[t]) \in Seq(Jobs)
  BY HeadTailProperties DEF QueueType
<1> QED
  BY <1>1 DEF QueueType, Done

LEMMA ToType ==
  ASSUME requests \subseteq Requests, NEW r, NEW s \in Requests, To(r, s)
  PROVE  requests' \subseteq Requests
BY DEF To

\* What only tabs change keeps the agent's types, and the other way round.
LEMMA AgentKept ==
  ASSUME AgentType, UNCHANGED <<content, index, blob, requests>>
  PROVE  AgentType'
BY DEF AgentType

LEMMA FlagsKept ==
  ASSUME FlagType, UNCHANGED <<dirty, removed, loaded>>
  PROVE  FlagType'
BY DEF FlagType

LEMMA RecordsKept ==
  ASSUME RecordType, UNCHANGED record
  PROVE  RecordType'
BY DEF RecordType

LEMMA ThreadsKept ==
  ASSUME ThreadType, UNCHANGED <<thread, said, deleted>>
  PROVE  ThreadType'
BY DEF ThreadType

LEMMA QueuesKept ==
  ASSUME QueueType, UNCHANGED queue
  PROVE  QueueType'
BY DEF QueueType

\* What the tabs do without the agent.
LEMMA ChatType ==
  ASSUME IInv, NEW t \in Tabs, Say(t) \/ SaveAgain(t) \/ Patch(t) \/ NotSealed(t)
  PROVE  TypeOK'
<1>1. AgentType /\ RecordType /\ ThreadType /\ FlagType /\ QueueType
  BY Types DEF IInv
<1>2. AgentType' /\ RecordType'
  BY <1>1, AgentKept, RecordsKept DEF Say, SaveAgain, Patch, NotSealed, server
<1>3. ThreadType' /\ FlagType'
  <2>1. CASE Say(t)
    <3>1. said + 1 \in Messages /\ said + 1 \in 0..MaxSaid
      BY <1>1, <2>1, Bounds DEF ThreadType, Say, Messages
    <3> QED
      BY <1>1, <2>1, <3>1 DEF ThreadType, FlagType, Say
  <2>2. CASE SaveAgain(t) \/ Patch(t) \/ NotSealed(t)
    BY <1>1, <2>2, ThreadsKept, FlagsKept DEF SaveAgain, Patch, NotSealed, chat
  <2> QED
    BY <2>1, <2>2
<1>4. QueueType'
  <2>1. CASE Enqueue(t, "save") \/ Enqueue(t, "patch")
    BY <1>1, <1>3, <2>1, EnqueueType
  <2>2. CASE NotSealed(t)
    BY <1>1, <2>2, DoneType DEF NotSealed, Working
  <2>3. CASE UNCHANGED queue
    BY <1>1, <2>3, QueuesKept
  <2> QED
    BY <2>1, <2>2, <2>3 DEF Say, SaveAgain, Patch
<1> QED
  BY <1>2, <1>3, <1>4, Types

LEMMA LoadType ==
  ASSUME IInv, NEW t \in Tabs, Read(t) \/ NotRead(t)
  PROVE  TypeOK'
<1>1. AgentType /\ RecordType /\ ThreadType /\ FlagType /\ QueueType
  BY Types DEF IInv
<1>2. AgentType' /\ QueueType'
  BY <1>1, AgentKept, QueuesKept DEF Read, NotRead, server
<1>3. index \in Versions /\ 0 \in Versions /\ index \in 0..Len(content)
  BY <1>1, NumberType, Bounds DEF AgentType, Versions
<1>4. Sha(index) \in Records /\ [sha |-> index, text |-> 0, locked |-> TRUE] \in Records
  BY <1>3, ShaType DEF Records
<1>5. RecordType'
  <2>1. CASE Read(t)
    BY <1>1, <1>3, <1>4, <2>1 DEF Read, RecordType
  <2>2. CASE NotRead(t)
    BY <1>1, <1>4, <2>2 DEF NotRead, RecordType
  <2> QED
    BY <2>1, <2>2
<1>7. FlagType'
  BY <1>1 DEF Read, NotRead, FlagType, chat
<1>6. ThreadType'
  <2>1. Text(index) \in SUBSET Messages
    BY <1>1, <1>3, TextType
  <2> QED
    BY <1>1, <2>1 DEF Read, NotRead, ThreadType, chat
<1> QED
  BY <1>2, <1>5, <1>6, <1>7, Types

LEMMA SealType ==
  ASSUME IInv, NEW t \in Tabs, Seal(t)
  PROVE  TypeOK'
<1>1. AgentType /\ RecordType /\ ThreadType /\ FlagType /\ QueueType
  BY Types DEF IInv
<1>2. RecordType' /\ ThreadType' /\ FlagType'
  BY <1>1, RecordsKept, ThreadsKept, FlagsKept DEF Seal, chat
<1>3. queue[t] \in Seq(Jobs) /\ queue[t] # <<>> /\ Job(t) = queue[t][1] /\ 1 \in DOMAIN queue[t]
  BY <1>1 DEF Seal, Working, Job, QueueType
<1>4. Job(t) \in Jobs
  BY <1>3, ElementOfSeq
<1>5. QueueType'
  <2> DEFINE q == [queue[t] EXCEPT ![1] = [queue[t][1] EXCEPT !.step = "sent"]]
  <2>1. [queue[t][1] EXCEPT !.step = "sent"] \in Jobs
    BY <1>3, <1>4 DEF Jobs
  <2>2. q \in Seq(Jobs)
    BY <1>3, <2>1, ExceptSeq
  <2>3. queue' = [queue EXCEPT ![t] = q]
    BY DEF Seal
  <2> HIDE DEF q
  <2> QED
    BY <1>1, <2>2, <2>3 DEF QueueType
<1>6. AgentType'
  <2> DEFINE text == IF Job(t).kind = "save" THEN Job(t).text ELSE Text(record[t].text)
             r == [tab |-> t, op |-> "save", base |-> record[t].sha,
                   n |-> Len(content) + 1, step |-> "sent", ok |-> FALSE, heard |-> TRUE]
  <2>1. text \in SUBSET Messages
    BY <1>1, <1>4, TextType DEF IInv, RecordInv, Jobs
  <2>2. Append(content, text) \in Seq(SUBSET Messages) /\ Len(Append(content, text)) = Len(content) + 1
    BY <1>1, <2>1, AppendProperties DEF AgentType
  <2>3. Len(content) + 1 \in Versions /\ record[t].sha \in Versions /\ Len(content) \in Nat
    BY <1>1, Bounds DEF Seal, AgentType, Versions, RecordType, Records
  <2>4. r \in Requests
    BY <2>3 DEF Requests
  <2>5. content' = Append(content, text) /\ requests' = requests \cup {r}
    BY DEF Seal
  <2> HIDE DEF text, r
  <2> QED
    BY <1>1, <2>2, <2>3, <2>4, <2>5, Bounds DEF AgentType, Seal, Versions
<1> QED
  BY <1>2, <1>5, <1>6, Types

LEMMA RemoveType ==
  ASSUME IInv, NEW t \in Tabs, Remove(t)
  PROVE  TypeOK'
<1>1. AgentType /\ RecordType /\ ThreadType /\ FlagType /\ QueueType
  BY Types DEF IInv
<1>2. RecordType' /\ ThreadType' /\ FlagType' /\ QueueType'
  BY <1>1, RecordsKept, ThreadsKept, FlagsKept, QueuesKept DEF Remove, library, chat
<1>3. [tab |-> t, op |-> "remove", base |-> 0, n |-> 0,
       step |-> "sent", ok |-> FALSE, heard |-> TRUE] \in Requests
  BY Bounds DEF Requests, Versions
<1>4. AgentType'
  BY <1>1, <1>3 DEF AgentType, Remove
<1> QED
  BY <1>2, <1>4, Types

\* An answer that is waited for finds its write at the head of the queue.
LEMMA HeardType ==
  ASSUME IInv, NEW r \in requests, r.op = "save", r.heard, Done(r.tab)
  PROVE  QueueType'
<1>1. QueueType /\ requests \subseteq Requests
  BY Types DEF IInv, AgentType
<1>2. r.tab \in Tabs /\ queue[r.tab] # <<>>
  BY <1>1 DEF IInv, RequestInv, RequestOK, Working, Requests
<1> QED
  BY <1>1, <1>2, DoneType

LEMMA AnswerType ==
  ASSUME IInv, NEW r \in requests, Answer(r)
  PROVE  TypeOK'
<1>1. AgentType /\ RecordType /\ ThreadType /\ FlagType /\ QueueType /\ r \in Requests
  BY Types DEF IInv, AgentType
<1>2. AgentType'
  BY <1>1 DEF AgentType, Answer
<1> DEFINE t == r.tab
<1>3. t \in Tabs /\ r.n \in Versions /\ r.heard
  BY <1>1 DEF Requests, Answer
<1>4. CASE Saved(t, r)
  <2>1. Sha(r.n) \in Records
    BY <1>3, ShaType
  <2>2. RecordType'
    BY <1>1, <1>3, <1>4, <2>1 DEF Saved, RecordType
  <2>3. ThreadType' /\ FlagType'
    BY <1>1, <1>4, ThreadsKept, FlagsKept DEF Saved, chat
  <2>4. QueueType'
    BY <1>3, <1>4, HeardType DEF Saved
  <2> QED
    BY <1>2, <2>2, <2>3, <2>4, Types
<1>5. CASE NotSaved(t, r)
  <2>1. RecordType' /\ ThreadType' /\ FlagType'
    BY <1>1, <1>5, RecordsKept, ThreadsKept, FlagsKept DEF NotSaved, chat
  <2>2. QueueType'
    BY <1>3, <1>5, HeardType DEF NotSaved
  <2> QED
    BY <1>2, <2>1, <2>2, Types
<1>6. CASE Removed(t, r)
  <2>1. NoRecord \in Records
    BY Bounds DEF NoRecord, Records, Versions
  <2>2. RecordType' /\ QueueType'
    BY <1>1, <1>6, <2>1 DEF Removed, RecordType, QueueType
  <2>3. FlagType'
    <3>1. removed' \in [Tabs -> BOOLEAN] /\ loaded' \in [Tabs -> BOOLEAN]
      BY <1>1, <1>6 DEF Removed, FlagType
    <3>2. record[t].locked \in BOOLEAN
      BY <1>1, <1>3 DEF RecordType, Records
    <3>3. dirty' \in [Tabs -> BOOLEAN]
      BY <1>1, <1>3, <1>6, <3>2 DEF Removed, FlagType
    <3> QED
      BY <3>1, <3>3 DEF FlagType
  <2>4. Text(record[t].text) \in SUBSET Messages
    BY <1>1, <1>3, TextType DEF IInv, RecordInv
  <2>5. Forgotten(t) \cup Text(record[t].text) \in SUBSET Messages /\ thread[t] \ Forgotten(t) \in SUBSET Messages
    BY <1>1, <1>3, <2>4 DEF Forgotten, ThreadType
  <2>6. ThreadType'
    BY <1>1, <1>3, <1>6, <2>5 DEF Removed, ThreadType
  <2> QED
    BY <1>2, <2>2, <2>3, <2>6, Types
<1>7. CASE NotRemoved(t, r)
  BY <1>1, <1>2, <1>7, RecordsKept, ThreadsKept, FlagsKept, QueuesKept, Types
     DEF NotRemoved, library, chat
<1> QED
  BY <1>4, <1>5, <1>6, <1>7 DEF Answer

LEMMA GiveUpType ==
  ASSUME IInv, NEW r \in requests, GiveUp(r)
  PROVE  TypeOK'
<1>1. AgentType /\ RecordType /\ ThreadType /\ FlagType /\ QueueType /\ r \in Requests
  BY Types DEF IInv, AgentType
<1>2. RecordType' /\ ThreadType' /\ FlagType'
  BY <1>1, RecordsKept, ThreadsKept, FlagsKept DEF GiveUp, chat
<1>3. [r EXCEPT !.heard = FALSE] \in Requests
  BY <1>1 DEF Requests
<1>4. AgentType'
  BY <1>1, <1>3 DEF AgentType, GiveUp
<1>5. QueueType'
  BY <1>1, HeardType, QueuesKept DEF GiveUp
<1> QED
  BY <1>2, <1>4, <1>5, Types

LEMMA SignInType ==
  ASSUME IInv, NEW t \in Tabs, NEW signedOut \in BOOLEAN, SignIn(t, signedOut)
  PROVE  TypeOK'
<1>1. AgentType /\ RecordType /\ ThreadType /\ FlagType /\ QueueType
  BY Types DEF IInv
<1>2. \A r \in requests : [r EXCEPT !.heard = FALSE] \in Requests
  BY <1>1 DEF AgentType, Requests
<1>3. requests' \subseteq Requests
  BY <1>1, <1>2 DEF AgentType, SignIn
<1>4. AgentType'
  BY <1>1, <1>3 DEF AgentType, SignIn
<1>5. RecordType'
  BY <1>1, Bounds DEF SignIn, RecordType, NoRecord, Records, Versions
<1>6. ThreadType'
  BY <1>1 DEF SignIn, ThreadType
<1>7. FlagType'
  BY <1>1 DEF SignIn, FlagType
<1>8. QueueType'
  <2>1. <<>> \in Seq(Jobs)
    OBVIOUS
  <2> QED
    BY <1>1, <2>1 DEF SignIn, QueueType
<1> QED
  BY <1>4, <1>5, <1>6, <1>7, <1>8, Types

LEMMA ServeType ==
  ASSUME IInv, NEW r \in requests, Serve(r)
  PROVE  TypeOK'
<1>1. AgentType /\ RecordType /\ ThreadType /\ FlagType /\ QueueType /\ r \in Requests
  BY Types DEF IInv, AgentType
<1>2. RecordType' /\ ThreadType' /\ FlagType' /\ QueueType'
  BY <1>1, RecordsKept, ThreadsKept, FlagsKept, QueuesKept DEF Serve, library, chat
<1>3. /\ [r EXCEPT !.step = "done"] \in Requests
      /\ [r EXCEPT !.step = "index"] \in Requests
      /\ [r EXCEPT !.step = "done", !.ok = TRUE] \in Requests
  BY <1>1 DEF Requests
<1>4. requests' \subseteq Requests
  <2>1. \E s \in Requests : To(r, s)
    BY <1>3 DEF Serve, Upsert, Unlink, WriteIndex, Fails
  <2> QED
    BY <1>1, <2>1, ToType DEF AgentType
<1>5. r.n \in 0..Len(content) /\ 0 \in 0..Len(content)
  BY <1>1 DEF IInv, RequestInv, RequestOK, AgentType
<1>6. index' \in 0..Len(content) /\ blob' \in 0..Len(content) /\ content' = content
  BY <1>1, <1>5 DEF Serve, Upsert, Unlink, WriteIndex, Fails, AgentType
<1> QED
  BY <1>1, <1>2, <1>4, <1>6, Types DEF AgentType

LEMMA TypeStep ==
  ASSUME IInv, [Next]_vars
  PROVE  TypeOK'
<1>1. CASE UNCHANGED vars
  BY <1>1 DEF IInv, vars, server, library, chat, TypeOK
<1>2. CASE Next
  BY <1>2, ChatType, LoadType, SealType, RemoveType, AnswerType, GiveUpType, SignInType, ServeType
     DEF Next
<1> QED
  BY <1>1, <1>2

(***************************************************************************)
(* Conversations: requests.                                                *)
(***************************************************************************)
\* What is left of a request in a later one: at most its step and who waits change.
Like(s, r) ==
  /\ s.tab = r.tab /\ s.op = r.op /\ s.base = r.base /\ s.n = r.n
  /\ s.heard => r.heard

LEMMA Images ==
  ASSUME IInv, [Next]_vars, NEW F,
         requests' \subseteq {F[r] : r \in requests}, \A r \in requests : Like(F[r], r),
         Len(content') = Len(content),
         \A s \in requests' : s.op = "save" /\ s.heard => Working(s.tab, "sent")',
         Between'
  PROVE  RequestInv'
<1>1. \A r \in requests : r.tab \in Tabs /\ RequestOK(r)
  BY Types DEF IInv, AgentType, RequestInv, Requests
<1>2. ASSUME NEW s \in requests'
      PROVE  RequestOK(s)'
  <2>1. PICK r \in requests : s = F[r] /\ Like(s, r)
    OBVIOUS
  <2>2. r.tab \in Tabs /\ RequestOK(r) 
    BY <1>1
  <2> QED
    BY <2>1, <2>2 DEF Like, RequestOK
<1>3. Distinct'
  <2> SUFFICES ASSUME NEW s1 \in requests', NEW s2 \in requests',
                      \/ /\ s1.op = "save" /\ s2.op = "save"
                         /\ s1.n = s2.n \/ (s1.heard /\ s2.heard /\ s1.tab = s2.tab)
                      \/ s1.op = "remove" /\ s2.op = "remove" /\ s1.tab = s2.tab
               PROVE  s1 = s2
    BY DEF Distinct
  <2>1. PICK r1 \in requests : s1 = F[r1] /\ Like(s1, r1)
    OBVIOUS
  <2>2. PICK r2 \in requests : s2 = F[r2] /\ Like(s2, r2)
    OBVIOUS
  <2>3. r1 = r2
    BY <2>1, <2>2 DEF Like, IInv, RequestInv, Distinct
  <2> QED
    BY <2>1, <2>2, <2>3
<1> QED
  BY <1>2, <1>3 DEF RequestInv

LEMMA BetweenKept ==
  ASSUME IInv, NEW F,
         requests' \subseteq {F[r] : r \in requests},
         \A r \in requests : Like(F[r], r) /\ (F[r].step = "index" => r.step = "index"),
         UNCHANGED <<index, blob>>
  PROVE  Between'
<1>1. Between
  BY DEF IInv, RequestInv
<1>2. ASSUME NEW s \in requests', s.step = "index"
      PROVE  \E r \in requests : s = F[r] /\ Like(s, r) /\ r.step = "index"
  BY <1>2
<1>3. ASSUME NEW s \in requests', s.step = "index"
      PROVE  blob' = s.n /\ Fits(s)'
  BY <1>1, <1>2, <1>3 DEF Between, Like, Fits
<1>4. ASSUME NEW s1 \in requests', NEW s2 \in requests', s1.step = "index", s2.step = "index"
      PROVE  s1 = s2
  <2>1. PICK r1 \in requests : s1 = F[r1] /\ r1.step = "index"
    BY <1>2, <1>4
  <2>2. PICK r2 \in requests : s2 = F[r2] /\ r2.step = "index"
    BY <1>2, <1>4
  <2> QED
    BY <1>1, <2>1, <2>2 DEF Between
<1> QED
  BY <1>3, <1>4 DEF Between

\* The write a tab waits for stays at the head when others join the queue.
LEMMA HeadKept ==
  ASSUME IInv, NEW t \in Tabs, NEW kind \in {"save", "patch"}, Enqueue(t, kind),
         NEW s \in requests, s.op = "save", s.heard
  PROVE  Working(s.tab, "sent")'
<1>1. queue \in [Tabs -> Seq(Jobs)] /\ s.tab \in Tabs
  BY Types DEF IInv, QueueType, AgentType, Requests
<1>2. Working(s.tab, "sent")
  BY DEF IInv, RequestInv, RequestOK
<1>3. CASE s.tab # t
  BY <1>1, <1>2, <1>3 DEF Enqueue, Working, Job
<1>4. CASE s.tab = t
  <2>1. PICK job : queue' = [queue EXCEPT ![t] = Append(queue[t], job)]
    BY DEF Enqueue
  <2>2. queue'[t] = Append(queue[t], job) /\ queue[t] \in Seq(Jobs) /\ queue[t] # <<>>
    BY <1>1, <1>2, <1>4, <2>1 DEF Working
  <2>3. Append(queue[t], job) # <<>> /\ Head(Append(queue[t], job)) = Head(queue[t])
    BY <2>2
  <2> QED
    BY <1>2, <1>4, <2>2, <2>3 DEF Working, Job
<1> QED
  BY <1>3, <1>4

\* A write that waits is none the tab waits for.
LEMMA WaitsForNone ==
  ASSUME IInv, NEW t \in Tabs, Working(t, "wait"), NEW s \in requests, s.op = "save", s.heard
  PROVE  s.tab # t
BY DEF IInv, RequestInv, RequestOK, Working

LEMMA NoRequests ==
  ASSUME IInv, [Next]_vars, UNCHANGED <<content, server>>,
         \A s \in requests : s.op = "save" /\ s.heard => Working(s.tab, "sent")'
  PROVE  RequestInv'
<1> DEFINE F == [r \in requests |-> r]
<1>1. requests' \subseteq {F[r] : r \in requests}
  BY DEF server
<1>2. \A r \in requests : F[r] = r /\ Like(F[r], r)
  BY DEF Like
<1>3. UNCHANGED <<index, blob>> /\ Len(content') = Len(content) /\ requests' = requests
  BY DEF server
<1> HIDE DEF F
<1>4. Between'
  BY <1>1, <1>2, <1>3, BetweenKept
<1> QED
  BY <1>1, <1>2, <1>3, <1>4, Images

LEMMA ChatRequests ==
  ASSUME IInv, [Next]_vars, NEW t \in Tabs,
         Say(t) \/ SaveAgain(t) \/ Patch(t) \/ Read(t) \/ NotRead(t) \/ NotSealed(t)
  PROVE  RequestInv'
<1>1. UNCHANGED <<content, server>>
  BY DEF Say, SaveAgain, Patch, Read, NotRead, NotSealed
<1>2. ASSUME NEW s \in requests, s.op = "save", s.heard
      PROVE  Working(s.tab, "sent")'
  <2>1. Working(s.tab, "sent") /\ s.tab \in Tabs /\ queue \in [Tabs -> Seq(Jobs)]
    BY <1>2, Types DEF IInv, RequestInv, RequestOK, AgentType, Requests, QueueType
  <2>2. CASE Enqueue(t, "save") \/ Enqueue(t, "patch")
    BY <1>2, <2>2, HeadKept
  <2>3. CASE UNCHANGED queue
    BY <2>1, <2>3 DEF Working, Job
  <2>4. CASE NotSealed(t)
    <3>1. s.tab # t
      BY <1>2, <2>4, WaitsForNone DEF NotSealed
    <3> QED
      BY <2>1, <2>4, <3>1 DEF NotSealed, Done, Working, Job
  <2> QED
    BY <2>2, <2>3, <2>4 DEF Say, SaveAgain, Patch, Read, NotRead
<1> QED
  BY <1>1, <1>2, NoRequests

LEMMA SealRequests ==
  ASSUME IInv, [Next]_vars, NEW t \in Tabs, Seal(t)
  PROVE  RequestInv'
<1>0. PICK new : new = [tab |-> t, op |-> "save", base |-> record[t].sha,
                        n |-> Len(content) + 1, step |-> "sent", ok |-> FALSE, heard |-> TRUE]
  OBVIOUS
<1>1. /\ \A s \in requests : RequestOK(s) /\ s.tab \in Tabs
      /\ queue \in [Tabs -> Seq(Jobs)] /\ Len(content) \in Nat
      /\ Distinct /\ Between
  BY Types DEF IInv, RequestInv, AgentType, Requests, QueueType
<1>2. requests' = requests \cup {new} /\ UNCHANGED <<index, blob>>
  BY <1>0 DEF Seal
<1>3. Len(content') = Len(content) + 1
  BY <1>1, Types DEF Seal, IInv, AgentType
<1>4. \A s \in requests : s.op = "save" /\ s.heard => s.tab # t
  BY WaitsForNone DEF Seal
<1>5. ASSUME NEW s \in requests
      PROVE  RequestOK(s)'
  <2>1. s.op = "save" /\ s.heard => Working(s.tab, "sent")'
    BY <1>1, <1>4 DEF RequestOK, Seal, Working, Job
  <2> QED
    BY <1>1, <1>2, <1>3, <2>1 DEF RequestOK
<1>6. RequestOK(new)'
  <2>1. Working(t, "sent")'
    <3>1. queue[t] # <<>> /\ queue[t] \in Seq(Jobs) /\ 1 \in DOMAIN queue[t] /\ queue[t][1] \in Jobs
      BY <1>1, ElementOfSeq DEF Seal, Working
    <3> DEFINE q == [queue[t] EXCEPT ![1] = [queue[t][1] EXCEPT !.step = "sent"]]
    <3>2. queue'[t] = q
      BY <1>1 DEF Seal
    <3>3. q \in Seq(Jobs) /\ Len(q) = Len(queue[t]) /\ q[1].step = "sent"
      BY <3>1, ExceptSeq DEF Jobs
    <3> HIDE DEF q
    <3>4. q # <<>> /\ Head(q) = q[1]
      BY <3>1, <3>3
    <3> QED
      BY <3>2, <3>3, <3>4 DEF Working, Job
  <2> QED
    BY <1>0, <1>1, <1>2, <1>3, <2>1 DEF RequestOK
<1>7. Distinct'
  <2>1. \A s \in requests : s.op = "save" => s.n # new.n /\ ~(s.heard /\ s.tab = new.tab)
    BY <1>0, <1>1, <1>4 DEF RequestOK
  <2>2. new.op = "save" /\ \A s \in requests' : s \in requests \/ s = new
    BY <1>0, <1>2
  <2> QED
    BY <1>1, <2>1, <2>2 DEF Distinct
<1>8. Between'
  <2>1. \A s \in requests' : s.step = "index" => s \in requests
    BY <1>0, <1>2
  <2>2. \A s \in requests : Fits(s)' <=> Fits(s)
    BY <1>2 DEF Fits
  <2> QED
    BY <1>1, <1>2, <2>1, <2>2 DEF Between
<1> QED
  BY <1>2, <1>5, <1>6, <1>7, <1>8 DEF RequestInv

LEMMA RemoveRequests ==
  ASSUME IInv, [Next]_vars, NEW t \in Tabs, Remove(t)
  PROVE  RequestInv'
<1>0. PICK new : new = [tab |-> t, op |-> "remove", base |-> 0, n |-> 0,
                        step |-> "sent", ok |-> FALSE, heard |-> TRUE]
  OBVIOUS
<1>1. /\ \A s \in requests : RequestOK(s)
      /\ Distinct /\ Between /\ Len(content) \in Nat
  BY Types DEF IInv, RequestInv, AgentType
<1>2. requests' = requests \cup {new} /\ UNCHANGED <<content, index, blob, queue>>
  BY <1>0 DEF Remove, library
<1>3. \A s \in requests' : RequestOK(s)'
  BY <1>0, <1>1, <1>2 DEF RequestOK, Working, Job
<1>4. \A s \in requests : ~(s.tab = t /\ s.op = "remove")
  BY DEF Remove
<1>5. new.op = "remove" /\ new.tab = t /\ new.step = "sent" /\ \A s \in requests' : s \in requests \/ s = new
  BY <1>0, <1>2
<1>6. Distinct'
  BY <1>1, <1>4, <1>5 DEF Distinct
<1>7. Between'
  <2>1. \A s \in requests : Fits(s)' <=> Fits(s)
    BY <1>2 DEF Fits
  <2> QED
    BY <1>1, <1>2, <1>5, <2>1 DEF Between
<1> QED
  BY <1>3, <1>6, <1>7 DEF RequestInv

\* The head goes with the save that was waited for: the tab waits for no other.
LEMMA DoneRequests ==
  ASSUME IInv, NEW r \in requests, (r.op = "save" /\ r.heard /\ Done(r.tab)) \/ UNCHANGED queue,
         NEW s \in requests, s # r, s.op = "save", s.heard
  PROVE  Working(s.tab, "sent")'
<1>1. Working(s.tab, "sent") /\ s.tab \in Tabs /\ queue \in [Tabs -> Seq(Jobs)]
  BY Types DEF IInv, RequestInv, RequestOK, AgentType, Requests, QueueType
<1>2. CASE UNCHANGED queue
  BY <1>1, <1>2 DEF Working, Job
<1>3. CASE r.op = "save" /\ r.heard /\ Done(r.tab)
  <2>1. s.tab # r.tab
    BY <1>3 DEF IInv, RequestInv, Distinct
  <2> QED
    BY <1>1, <1>3, <2>1 DEF Done, Working, Job
<1> QED
  BY <1>2, <1>3

LEMMA AnswerRequests ==
  ASSUME IInv, [Next]_vars, NEW r \in requests, Answer(r)
  PROVE  RequestInv'
<1> DEFINE F == [q \in requests |-> q]
<1>1. requests' \subseteq {F[q] : q \in requests} /\ requests' = requests \ {r}
  BY DEF Answer
<1>2. \A q \in requests : F[q] = q /\ Like(F[q], q)
  BY DEF Like
<1> HIDE DEF F
<1>3. UNCHANGED <<content, index, blob>>
  BY DEF Answer
<1>4. Between'
  BY <1>1, <1>2, <1>3, BetweenKept
<1>5. (r.op = "save" /\ r.heard /\ Done(r.tab)) \/ UNCHANGED queue
  BY DEF Answer, Saved, NotSaved, Removed, NotRemoved, library
<1>6. \A s \in requests' : s.op = "save" /\ s.heard => Working(s.tab, "sent")'
  BY <1>1, <1>5, DoneRequests
<1> QED
  BY <1>1, <1>2, <1>3, <1>4, <1>6, Images

LEMMA GiveUpRequests ==
  ASSUME IInv, [Next]_vars, NEW r \in requests, GiveUp(r)
  PROVE  RequestInv'
<1> DEFINE F == [q \in requests |-> IF q = r THEN [r EXCEPT !.heard = FALSE] ELSE q]
<1>1. requests' \subseteq {F[q] : q \in requests}
  BY DEF GiveUp
<1>2. \A q \in requests : q \in Requests
  BY Types DEF IInv, AgentType
<1>3. \A q \in requests : Like(F[q], q) /\ F[q].step = q.step
  BY <1>2 DEF Like, Requests
<1>4. \A q \in requests : F[q].heard => q # r /\ F[q] = q
  BY <1>2 DEF Requests
<1> HIDE DEF F
<1>5. UNCHANGED <<content, index, blob>>
  BY DEF GiveUp
<1>6. Between'
  BY <1>1, <1>3, <1>5, BetweenKept
<1>7. (r.op = "save" /\ r.heard /\ Done(r.tab)) \/ UNCHANGED queue
  BY DEF GiveUp
<1>8. \A s \in requests' : s.op = "save" /\ s.heard => Working(s.tab, "sent")'
  BY <1>1, <1>4, <1>7, DoneRequests
<1> QED
  BY <1>1, <1>3, <1>5, <1>6, <1>8, Images

LEMMA SignInRequests ==
  ASSUME IInv, [Next]_vars, NEW t \in Tabs, NEW signedOut \in BOOLEAN, SignIn(t, signedOut)
  PROVE  RequestInv'
<1> DEFINE F == [q \in requests |-> IF q.tab = t THEN [q EXCEPT !.heard = FALSE] ELSE q]
<1>1. requests' \subseteq {F[q] : q \in requests}
  BY DEF SignIn
<1>2. \A q \in requests : q \in Requests /\ RequestOK(q)
  BY Types DEF IInv, AgentType, RequestInv
<1>3. \A q \in requests : Like(F[q], q) /\ F[q].step = q.step
  BY <1>2 DEF Like, Requests
<1>4. \A q \in requests : F[q].heard => q.tab # t /\ F[q] = q
  BY <1>2 DEF Requests
<1> HIDE DEF F
<1>5. UNCHANGED <<content, index, blob>>
  BY DEF SignIn
<1>6. Between'
  BY <1>1, <1>3, <1>5, BetweenKept
<1>7. ASSUME NEW s \in requests', s.op = "save", s.heard
      PROVE  Working(s.tab, "sent")'
  <2>1. s \in requests /\ s.tab # t
    BY <1>1, <1>4, <1>7
  <2>2. Working(s.tab, "sent") /\ s.tab \in Tabs /\ queue \in [Tabs -> Seq(Jobs)]
    BY <1>2, <1>7, <2>1, Types DEF IInv, RequestOK, Requests, QueueType
  <2> QED
    BY <2>1, <2>2 DEF SignIn, Working, Job
<1> QED
  BY <1>1, <1>3, <1>5, <1>6, <1>7, Images

LEMMA ServeRequests ==
  ASSUME IInv, [Next]_vars, NEW r \in requests, Serve(r)
  PROVE  RequestInv'
<1>1. \A q \in requests : q \in Requests
  BY Types DEF IInv, AgentType
<1>2. Between /\ UNCHANGED <<content, queue>>
  BY DEF IInv, RequestInv, Serve, library
<1>3. PICK s : /\ To(r, s)
               /\ Like(s, r)
               /\ \/ s.step = "done" /\ (UNCHANGED <<index, blob>> \/ WriteIndex(r))
                  \/ s.step = "index" /\ blob' = r.n /\ index' = index
                     /\ Fits(r) /\ Alone
  <2>1. CASE Fails(r)
    BY <1>1, <2>1 DEF Fails, Like, Requests
  <2>2. CASE WriteIndex(r)
    <3> DEFINE u == [r EXCEPT !.step = "done", !.ok = TRUE]
    <3>1. To(r, u)
      BY <2>2 DEF WriteIndex
    <3>2. Like(u, r) /\ u.step = "done"
      BY <1>1 DEF Like, Requests
    <3> QED
      BY <2>2, <3>1, <3>2
  <2>3. CASE Upsert(r)
    <3>1. CASE Conflicts(r)
      BY <1>1, <2>3, <3>1 DEF Upsert, Like, Requests
    <3>2. CASE ~Conflicts(r)
      <4> DEFINE u == [r EXCEPT !.step = "index"]
      <4>1. To(r, u) /\ blob' = r.n /\ index' = index /\ r.base = index /\ Alone
        BY <2>3, <3>2 DEF Upsert, Conflicts
      <4>2. Like(u, r) /\ u.step = "index"
        BY <1>1 DEF Like, Requests
      <4> QED
        BY <2>3, <4>1, <4>2 DEF Fits, Upsert
    <3> QED
      BY <3>1, <3>2
  <2>4. CASE Unlink(r)
    <3>1. CASE index = 0
      BY <1>1, <2>4, <3>1 DEF Unlink, Like, Requests
    <3>2. CASE index # 0
      <4> DEFINE u == [r EXCEPT !.step = "index"]
      <4>1. To(r, u) /\ blob' = 0 /\ index' = index /\ r.op = "remove" /\ Alone
        BY <2>4, <3>2 DEF Unlink
      <4>2. Like(u, r) /\ u.step = "index"
        BY <1>1 DEF Like, Requests
      <4>3. r.n = 0
        BY <4>1 DEF IInv, RequestInv, RequestOK
      <4> QED
        BY <2>4, <3>2, <4>1, <4>2, <4>3 DEF Fits
    <3> QED
      BY <3>1, <3>2
  <2> QED
    BY <2>1, <2>2, <2>3, <2>4 DEF Serve
<1> DEFINE F == [q \in requests |-> IF q = r THEN s ELSE q]
<1>4. requests' \subseteq {F[q] : q \in requests}
  BY <1>3 DEF To
<1>5. \A q \in requests : Like(F[q], q) /\ (q # r => F[q] = q) /\ F[r] = s
  BY <1>3 DEF Like
<1> HIDE DEF F
<1>6. Between'
  <2>1. CASE s.step = "done" /\ UNCHANGED <<index, blob>>
    <3>1. \A q \in requests : F[q].step = "index" => q.step = "index"
      BY <1>5, <2>1
    <3> QED
      BY <1>4, <1>5, <2>1, <3>1, BetweenKept
  <2>2. CASE s.step = "done" /\ WriteIndex(r)
    <3>1. \A q \in requests' : q.step # "index"
      BY <1>2, <1>3, <2>2 DEF Between, WriteIndex, To
    <3> QED
      BY <3>1 DEF Between
  <2>3. CASE s.step = "index" /\ blob' = r.n /\ index' = index
             /\ Fits(r) /\ Alone
    <3>1. \A q \in requests' : q.step = "index" => q = s
      BY <1>3, <2>3 DEF Alone, To
    <3>2. blob' = s.n /\ Fits(s)'
      BY <1>3, <2>3 DEF Like, Fits
    <3> QED
      BY <3>1, <3>2 DEF Between
  <2> QED
    BY <1>3, <2>1, <2>2, <2>3
<1>7. ASSUME NEW u \in requests', u.op = "save", u.heard
      PROVE  Working(u.tab, "sent")'
  <2>1. PICK q \in requests : Like(u, q)
    BY <1>4, <1>5
  <2>2. Working(u.tab, "sent")
    BY <1>7, <2>1 DEF Like, IInv, RequestInv, RequestOK
  <2> QED
    BY <1>2, <2>2 DEF Working, Job
<1> QED
  BY <1>2, <1>4, <1>5, <1>6, <1>7, Images

LEMMA RequestStep ==
  ASSUME IInv, [Next]_vars
  PROVE  RequestInv'
<1>1. CASE UNCHANGED vars
  <2>1. UNCHANGED <<content, server>> /\ UNCHANGED queue
    BY <1>1 DEF vars, library
  <2>2. \A s \in requests : s.op = "save" /\ s.heard => Working(s.tab, "sent")'
    BY <2>1 DEF IInv, RequestInv, RequestOK, Working, Job
  <2> QED
    BY <2>1, <2>2, NoRequests
<1>2. CASE Next
  BY <1>2, ChatRequests, SealRequests, RemoveRequests, AnswerRequests, GiveUpRequests,
     SignInRequests, ServeRequests
     DEF Next
<1> QED
  BY <1>1, <1>2

(***************************************************************************)
(* Conversations: records.                                                 *)
(***************************************************************************)
\* A record that was not read or saved stays, or is forgotten.
LEMMA RecordsLikeBefore ==
  ASSUME IInv, [Next]_vars, Len(content') >= Len(content),
         \A t \in Tabs : \/ record'[t] \in {record[t], NoRecord}
                         \/ record'[t].text = 0 /\ record'[t].locked
  PROVE  RecordInv'
<1>1. Len(content') \in Nat
  BY TypeStep, Types DEF AgentType
<1>2. ASSUME NEW t \in Tabs
      PROVE  record'[t].text \in 0..Len(content')
  <2>1. record[t].text \in 0..Len(content) /\ NoRecord.text = 0
    BY DEF IInv, RecordInv, NoRecord
  <2> QED
    BY <1>1, <2>1
<1> QED
  BY <1>2 DEF RecordInv

\* A version that is read or saved was sealed.
LEMMA RecordsSealed ==
  ASSUME IInv, NEW t \in Tabs, NEW n \in 0..Len(content),
         record' = [record EXCEPT ![t] = Sha(n)], content' = content
  PROVE  RecordInv'
<1>1. RecordType /\ AgentType /\ n \in Versions
  BY Types, NumberType DEF IInv
<1>2. Sha(n).sha = n /\ Sha(n).text = n
  BY <1>1, ShaType
<1> QED
  BY <1>1, <1>2 DEF IInv, RecordInv, RecordType

LEMMA RecordStep ==
  ASSUME IInv, [Next]_vars
  PROVE  RecordInv'
<1>1. RecordType /\ AgentType /\ content' \in Seq(SUBSET Messages)
  BY TypeStep, Types DEF IInv, AgentType
<1>2. CASE \E t \in Tabs : Read(t)
  <2>1. index \in 0..Len(content)
    BY <1>1 DEF AgentType
  <2> QED
    BY <1>2, <2>1, RecordsSealed DEF Read
<1>3. CASE \E r \in requests : Answer(r) /\ Saved(r.tab, r)
  <2>1. PICK r \in requests : Answer(r) /\ Saved(r.tab, r)
    BY <1>3
  <2>2. r.tab \in Tabs /\ r.n \in 0..Len(content)
    BY <1>1 DEF IInv, RequestInv, RequestOK, AgentType, Requests
  <2> QED
    BY <2>1, <2>2, RecordsSealed DEF Answer, Saved
<1>4. CASE UNCHANGED <<content, record>>
  BY <1>1, <1>4, RecordsLikeBefore DEF AgentType
<1>5. CASE \E t \in Tabs : Seal(t)
  <2>1. Len(content') = Len(content) + 1 /\ Len(content) \in Nat
    BY <1>1, <1>5 DEF Seal, AgentType
  <2>2. record' = record
    BY <1>5 DEF Seal
  <2> QED
    BY <2>1, <2>2, RecordsLikeBefore
<1>6. CASE content' = content /\ \E t \in Tabs : record' = [record EXCEPT ![t] = NoRecord]
  <2>1. Len(content') >= Len(content) /\ \A u \in Tabs : record'[u] \in {record[u], NoRecord}
    BY <1>1, <1>6 DEF RecordType, AgentType
  <2> QED
    BY <2>1, RecordsLikeBefore
<1>7. CASE \E t \in Tabs : NotRead(t) /\ index # 0
  <2>1. Len(content') >= Len(content)
        /\ \A u \in Tabs : record'[u] = record[u] \/ (record'[u].text = 0 /\ record'[u].locked)
    BY <1>1, <1>7 DEF RecordType, AgentType, NotRead
  <2> QED
    BY <2>1, RecordsLikeBefore
<1> QED
  <2>1. CASE UNCHANGED vars
    BY <1>4, <2>1 DEF vars, library
  <2>2. CASE \E t \in Tabs : \/ Say(t) \/ SaveAgain(t) \/ Patch(t) \/ Remove(t) \/ Read(t)
                             \/ NotRead(t) \/ Seal(t) \/ NotSealed(t)
    BY <1>2, <1>4, <1>5, <1>7, <2>2
       DEF Say, SaveAgain, Patch, Remove, NotRead, NotSealed, library
  <2>3. CASE \E t \in Tabs : \E b \in BOOLEAN : SignIn(t, b)
    BY <1>6, <2>3 DEF SignIn
  <2>4. CASE \E r \in requests : Answer(r)
    <3>1. PICK r \in requests : Answer(r)
      BY <2>4
    <3>2. r.tab \in Tabs
      BY <1>1 DEF AgentType, Requests
    <3> QED
      BY <1>3, <1>4, <1>6, <3>1, <3>2 DEF Answer, NotSaved, Removed, NotRemoved, library
  <2>5. CASE \E r \in requests : GiveUp(r) \/ Serve(r)
    BY <1>4, <2>5 DEF GiveUp, Serve, library
  <2> QED
    BY <2>1, <2>2, <2>3, <2>4, <2>5 DEF Next

LEMMA AnswerStep ==
  ASSUME IInv, [Next]_vars
  PROVE  AnswerInv'
<1>1. \A q \in requests : q \in Requests /\ (q.ok => q.step = "done")
  BY Types DEF IInv, AgentType, AnswerInv
<1>2. CASE \E t \in Tabs : Seal(t) \/ Remove(t)
  BY <1>1, <1>2 DEF Seal, Remove, AnswerInv
<1>3. CASE \E t \in Tabs : \E b \in BOOLEAN : SignIn(t, b)
  BY <1>1, <1>3 DEF SignIn, AnswerInv, Requests
<1>4. CASE \E r \in requests : Answer(r) \/ GiveUp(r)
  BY <1>1, <1>4 DEF Answer, GiveUp, AnswerInv, Requests
<1>5. ASSUME NEW r \in requests, Serve(r)
      PROVE  AnswerInv'
  <2>1. r \in Requests /\ (r.ok => r.step = "done")
    BY <1>1
  <2>2. CASE Upsert(r) \/ Unlink(r)
    <3>1. ~r.ok /\ (To(r, [r EXCEPT !.step = "done"]) \/ To(r, [r EXCEPT !.step = "index"]))
      BY <2>1, <2>2 DEF Upsert, Unlink
    <3> QED
      BY <1>1, <2>1, <3>1 DEF To, AnswerInv, Requests
  <2>3. CASE WriteIndex(r) \/ Fails(r)
    BY <1>1, <2>1, <2>3 DEF WriteIndex, Fails, To, AnswerInv, Requests
  <2> QED
    BY <1>5, <2>2, <2>3 DEF Serve
<1>6. CASE UNCHANGED requests
  BY <1>6 DEF IInv, AnswerInv
<1>7. CASE \E t \in Tabs : Say(t) \/ SaveAgain(t) \/ Patch(t) \/ Read(t) \/ NotRead(t) \/ NotSealed(t)
  BY <1>6, <1>7 DEF Say, SaveAgain, Patch, Read, NotRead, NotSealed, server
<1> QED
  BY <1>2, <1>3, <1>4, <1>5, <1>6, <1>7 DEF Next, vars, server

(***************************************************************************)
(* Conversations: deletions.  A tab deletes what it has a record of, and   *)
(* keeps a record until it is told that the conversation is gone; so every *)
(* save it still waits for by then names a stored version, and none is     *)
(* sealed after.                                                           *)
(***************************************************************************)
Removing(t) == \E s \in requests : s.tab = t /\ s.op = "remove" /\ s.heard

Deleting(t) == removed[t] \/ Removing(t)

DeleteInv ==
  /\ \A t \in Tabs : Removing(t) => record[t].sha # 0 \/ removed[t]
  /\ \A r \in requests : r.op = "save" /\ r.heard /\ Deleting(r.tab) => r.base # 0
  /\ \A t \in Tabs : deleted[t] # {} => removed[t]

\* A step that sends nothing new, and forgets a record only together with the delete
\* that is waited for.
LEMMA DeleteKept ==
  ASSUME IInv, DeleteInv,
         \A s \in requests' : \E r \in requests : Like(s, r),
         \A t \in Tabs : removed'[t] => Deleting(t),
         \A t \in Tabs : deleted'[t] # {} => removed'[t],
         \A t \in Tabs : \/ removed'[t] \/ ~Removing(t)'
                         \/ ~removed[t] /\ (record[t].sha # 0 => record'[t].sha # 0)
  PROVE  DeleteInv'
<1>1. ASSUME NEW t \in Tabs, Removing(t)' PROVE Removing(t)
  BY <1>1 DEF Removing, Like
<1>2. ASSUME NEW t \in Tabs, Deleting(t)' PROVE Deleting(t)
  BY <1>1, <1>2 DEF Deleting
<1>3. ASSUME NEW t \in Tabs, Removing(t)' PROVE record'[t].sha # 0 \/ removed'[t]
  BY <1>1, <1>3 DEF DeleteInv
<1>4. ASSUME NEW s \in requests', s.op = "save", s.heard, Deleting(s.tab)' PROVE s.base # 0
  <2>1. PICK r \in requests : Like(s, r)
    BY <1>4
  <2>2. r.tab \in Tabs
    BY Types DEF IInv, AgentType, Requests
  <2>3. Deleting(r.tab)
    BY <1>2, <1>4, <2>1, <2>2 DEF Like
  <2> QED
    BY <1>4, <2>1, <2>3 DEF Like, DeleteInv
<1> QED
  BY <1>3, <1>4 DEF DeleteInv

\* The tab's own steps that send nothing.
LEMMA DeleteTab ==
  ASSUME IInv, DeleteInv, NEW t \in Tabs,
         Say(t) \/ SaveAgain(t) \/ Patch(t) \/ Read(t) \/ NotRead(t) \/ NotSealed(t)
  PROVE  DeleteInv'
<1>1. UNCHANGED <<requests, removed, deleted>>
  BY DEF Say, SaveAgain, Patch, Read, NotRead, NotSealed, server
<1>2. \A u \in Tabs : record[u].sha # 0 => record'[u].sha # 0
  <2>1. CASE record' = record
    BY <2>1
  <2>2. CASE Read(t)
    <3>1. Sha(index).sha # 0 /\ record' = [record EXCEPT ![t] = Sha(index)]
      BY <2>2 DEF Read, Sha
    <3> QED
      BY <3>1, Types DEF IInv, RecordType
  <2>3. CASE NotRead(t) /\ index # 0
    <3>1. record' = [record EXCEPT ![t] = [sha |-> index, text |-> 0, locked |-> TRUE]]
      BY <2>3 DEF NotRead
    <3> QED
      BY <2>3, <3>1, Types DEF IInv, RecordType
  <2> QED
    BY <2>1, <2>2, <2>3 DEF Say, SaveAgain, Patch, NotRead, NotSealed
<1>3. \A s \in requests' : \E r \in requests : Like(s, r)
  BY <1>1 DEF Like
<1>4. \A u \in Tabs : (removed'[u] => Deleting(u)) /\ (deleted'[u] # {} => removed'[u])
  BY <1>1 DEF Deleting, DeleteInv
<1> QED
  BY <1>1, <1>2, <1>3, <1>4, DeleteKept

\* A save is sealed from the record, and not after the delete.
LEMMA DeleteSeal ==
  ASSUME IInv, DeleteInv, NEW t \in Tabs, Seal(t)
  PROVE  DeleteInv'
<1>0. PICK new : new = [tab |-> t, op |-> "save", base |-> record[t].sha,
                        n |-> Len(content) + 1, step |-> "sent", ok |-> FALSE, heard |-> TRUE]
  OBVIOUS
<1>1. /\ requests' = requests \cup {new} /\ new.op = "save" /\ new.tab = t
      /\ new.base = record[t].sha
  BY <1>0 DEF Seal
<1>2. UNCHANGED <<record, removed, deleted>> /\ ~removed[t]
  BY DEF Seal, Gone
<1>3. \A u \in Tabs : Removing(u)' <=> Removing(u)
  BY <1>1 DEF Removing
<1>4. \A u \in Tabs : Deleting(u)' <=> Deleting(u)
  BY <1>2, <1>3 DEF Deleting
<1>5. \A r \in requests : r.tab \in Tabs
  BY Types DEF IInv, AgentType, Requests
<1>6. Deleting(t) => new.base # 0
  BY <1>1, <1>2 DEF DeleteInv, Deleting
<1>7. ASSUME NEW r \in requests', r.op = "save", r.heard, Deleting(r.tab)' PROVE r.base # 0
  BY <1>1, <1>4, <1>5, <1>6, <1>7 DEF DeleteInv
<1> QED
  BY <1>2, <1>3, <1>7 DEF DeleteInv

\* A delete is sent when no write of the tab waits or is waited for.
LEMMA DeleteSend ==
  ASSUME IInv, DeleteInv, NEW t \in Tabs, Remove(t)
  PROVE  DeleteInv'
<1>0. PICK new : new = [tab |-> t, op |-> "remove", base |-> 0, n |-> 0,
                        step |-> "sent", ok |-> FALSE, heard |-> TRUE]
  OBVIOUS
<1>1. requests' = requests \cup {new} /\ new.op = "remove" /\ new.tab = t
  BY <1>0 DEF Remove
<1>2. UNCHANGED <<record, removed, deleted>> /\ record[t].sha # 0 /\ queue[t] = <<>>
  BY DEF Remove, library
<1>3. \A u \in Tabs \ {t} : (Removing(u)' <=> Removing(u)) /\ (Deleting(u)' <=> Deleting(u))
  BY <1>1, <1>2 DEF Removing, Deleting
<1>4. \A r \in requests : r.tab \in Tabs /\ (r.op = "save" /\ r.heard => r.tab # t)
  BY <1>2, Types DEF IInv, AgentType, Requests, RequestInv, RequestOK, Working
<1>5. ASSUME NEW r \in requests', r.op = "save", r.heard, Deleting(r.tab)' PROVE r.base # 0
  BY <1>1, <1>3, <1>4, <1>5 DEF DeleteInv
<1> QED
  BY <1>2, <1>3, <1>5 DEF DeleteInv

\* An answer: a save leaves a record, a delete that went through leaves none.
LEMMA DeleteAnswer ==
  ASSUME IInv, DeleteInv, NEW r \in requests, Answer(r)
  PROVE  DeleteInv'
<1>1. r.tab \in Tabs /\ r \in Requests /\ RequestOK(r) /\ r.heard
  BY Types DEF IInv, AgentType, Requests, RequestInv, Answer
<1>2. \A s \in requests' : \E q \in requests : Like(s, q)
  BY DEF Answer, Like
<1>3. CASE Removed(r.tab, r)
  <2>1. /\ removed' = [removed EXCEPT ![r.tab] = TRUE] /\ record' = [record EXCEPT ![r.tab] = NoRecord]
        /\ deleted' = [deleted EXCEPT ![r.tab] = deleted[r.tab] \cup Forgotten(r.tab) \cup Text(record[r.tab].text)]
        /\ Removing(r.tab)
    BY <1>1, <1>3 DEF Removed, Removing
  <2>2. removed \in [Tabs -> BOOLEAN] /\ deleted \in [Tabs -> SUBSET Messages]
        /\ record \in [Tabs -> Records]
    BY Types DEF IInv, FlagType, ThreadType, RecordType
  <2>3. \A t \in Tabs : removed'[t] => Deleting(t)
    BY <2>1, <2>2 DEF Deleting
  <2>4. \A t \in Tabs : deleted'[t] # {} => removed'[t]
    BY <2>1, <2>2 DEF DeleteInv
  <2>5. \A t \in Tabs : \/ removed'[t]
                        \/ ~removed[t] /\ (record[t].sha # 0 => record'[t].sha # 0)
    BY <2>1, <2>2
  <2> QED
    BY <1>2, <2>3, <2>4, <2>5, DeleteKept
<1>4. CASE Saved(r.tab, r) \/ NotSaved(r.tab, r) \/ NotRemoved(r.tab, r)
  <2>1. UNCHANGED <<removed, deleted>>
    BY <1>4 DEF Saved, NotSaved, NotRemoved, library
  <2>2. \A t \in Tabs : record[t].sha # 0 => record'[t].sha # 0
    <3>1. CASE record' = record
      BY <3>1
    <3>2. CASE Saved(r.tab, r)
      <4>1. Sha(r.n).sha # 0 /\ record' = [record EXCEPT ![r.tab] = Sha(r.n)]
        BY <1>1, <3>2 DEF Saved, Sha, RequestOK
      <4> QED
        BY <4>1, Types DEF IInv, RecordType
    <3> QED
      BY <1>4, <3>1, <3>2 DEF NotSaved, NotRemoved, library
  <2> QED
    BY <1>2, <2>1, <2>2, DeleteKept DEF Deleting, DeleteInv
<1> QED
  BY <1>3, <1>4 DEF Answer

\* A sign-in waits for nothing that was sent before.
LEMMA DeleteSignIn ==
  ASSUME IInv, DeleteInv, NEW t \in Tabs, NEW signedOut \in BOOLEAN, SignIn(t, signedOut)
  PROVE  DeleteInv'
<1>1. \A q \in requests : q \in Requests
  BY Types DEF IInv, AgentType
<1>2. \A s \in requests' : \E q \in requests : Like(s, q) /\ (q.tab = t => ~s.heard)
  BY <1>1 DEF SignIn, Like, Requests
<1>3. /\ removed' = [removed EXCEPT ![t] = FALSE] /\ deleted' = [deleted EXCEPT ![t] = {}]
      /\ record' = [record EXCEPT ![t] = NoRecord]
  BY DEF SignIn
<1>4. removed \in [Tabs -> BOOLEAN] /\ deleted \in [Tabs -> SUBSET Messages]
      /\ record \in [Tabs -> Records]
  BY Types DEF IInv, FlagType, ThreadType, RecordType
<1>5. ~Removing(t)'
  BY <1>2 DEF Removing, Like
<1>6. \A u \in Tabs : (removed'[u] => Deleting(u)) /\ (deleted'[u] # {} => removed'[u])
  BY <1>3, <1>4 DEF Deleting, DeleteInv
<1>7. \A u \in Tabs : \/ removed'[u] \/ ~Removing(u)'
                      \/ ~removed[u] /\ (record[u].sha # 0 => record'[u].sha # 0)
  BY <1>3, <1>4, <1>5
<1> QED
  BY <1>2, <1>6, <1>7, DeleteKept

\* The agent, or a tab that stops waiting.
LEMMA DeleteServe ==
  ASSUME IInv, DeleteInv, NEW r \in requests, Serve(r) \/ GiveUp(r)
  PROVE  DeleteInv'
<1>1. r \in Requests
  BY Types DEF IInv, AgentType
<1>2. \A s \in requests' : s \in requests \/ Like(s, r)
  <2>1. CASE Serve(r)
    <3>1. To(r, [r EXCEPT !.step = "done"]) \/ To(r, [r EXCEPT !.step = "index"])
          \/ To(r, [r EXCEPT !.step = "done", !.ok = TRUE])
      BY <2>1 DEF Serve, Upsert, Unlink, WriteIndex, Fails
    <3>2. /\ Like([r EXCEPT !.step = "done"], r) /\ Like([r EXCEPT !.step = "index"], r)
          /\ Like([r EXCEPT !.step = "done", !.ok = TRUE], r)
      BY <1>1 DEF Like, Requests
    <3> QED
      BY <3>1, <3>2 DEF To
  <2>2. CASE GiveUp(r)
    BY <1>1, <2>2 DEF GiveUp, Like, Requests
  <2> QED
    BY <2>1, <2>2
<1>3. UNCHANGED <<record, removed, deleted>>
  BY DEF Serve, GiveUp, library
<1>4. \A s \in requests' : \E q \in requests : Like(s, q)
  BY <1>2 DEF Like
<1> QED
  BY <1>3, <1>4, DeleteKept DEF Deleting, DeleteInv

LEMMA DeleteStep ==
  ASSUME IInv, DeleteInv, [Next]_vars
  PROVE  DeleteInv'
<1>1. CASE UNCHANGED vars
  BY <1>1 DEF vars, server, library, DeleteInv, Deleting, Removing
<1>2. CASE Next
  BY <1>2, DeleteTab, DeleteSeal, DeleteSend, DeleteAnswer, DeleteSignIn, DeleteServe DEF Next
<1> QED
  BY <1>1, <1>2

(***************************************************************************)
(* Conversations: theorems.                                                *)
(***************************************************************************)
LEMMA Start == Init => IInv
<1> SUFFICES ASSUME Init PROVE IInv
  OBVIOUS
<1>1. content = <<>> /\ Len(content) = 0 /\ requests = {}
  BY DEF Init
<1>2. TypeOK
  BY <1>1, Bounds DEF Init, TypeOK, NoRecord, Records, Versions
<1>3. RequestInv
  BY <1>1 DEF RequestInv, Distinct, Between
<1>4. RecordInv
  <2>1. \A t \in Tabs : record[t].text = 0
    BY DEF Init, NoRecord
  <2>2. 0 \in 0..Len(content)
    BY <1>1
  <2> QED
    BY <2>1, <2>2 DEF RecordInv
<1>5. AnswerInv
  BY <1>1 DEF AnswerInv
<1> QED
  BY <1>2, <1>3, <1>4, <1>5 DEF IInv

LEMMA Inductive == Spec => []IInv
<1>1. IInv /\ [Next]_vars => IInv'
  BY TypeStep, RequestStep, RecordStep, AnswerStep DEF IInv
<1> QED
  BY <1>1, Start, PTL DEF Spec

\* The agent's requests do not mix (serialize): one that is about to name a blob in the
\* index has its own there, whatever the tabs do and whatever else is under way.
THEOREM RequestsDoNotMix == Spec => []IndexNamesBlob
<1>1. IInv => IndexNamesBlob
  BY DEF IInv, RequestInv, Between, IndexNamesBlob
<1> QED
  BY <1>1, Inductive, PTL

LEMMA Deletions == Spec => [](IInv /\ DeleteInv)
<1>1. Init => DeleteInv
  BY DEF Init, DeleteInv, Removing
<1>2. IInv /\ DeleteInv /\ [Next]_vars => DeleteInv'
  BY DeleteStep
<1> QED
  BY <1>1, <1>2, Inductive, PTL DEF Spec

\* No write of a tab creates again what the tab has deleted: one that was waiting is
\* refused by the library (removed), one under way by the agent (409), in every order of
\* saves, deletes, loads, sign-ins and failures of the agent.
THEOREM DeletionStands == Spec => DeletedStays
<1>1. ASSUME IInv, DeleteInv, [Next]_vars, NEW r \in requests,
             r.op = "save", r.heard, index = 0, index' = r.n
      PROVE  Text(r.n) \cap deleted[r.tab] = {}
  <2>1. RequestOK(r) /\ Distinct /\ Between /\ r.tab \in Tabs
    BY <1>1, Types DEF IInv, RequestInv, AgentType, Requests
  <2>2. PICK w \in requests : WriteIndex(w)
    BY <1>1, <2>1 DEF RequestOK, Next, vars, server, Say, SaveAgain, Patch, Remove, Read, NotRead,
                      Seal, NotSealed, SignIn, Answer, GiveUp, Serve, Upsert, Unlink, Fails
  <2>3. w.n = r.n /\ r.n # 0 /\ w.step = "index" /\ w \in Requests /\ RequestOK(w)
    BY <1>1, <2>1, <2>2, Types DEF WriteIndex, RequestOK, IInv, AgentType, RequestInv
  <2>4. w.op = "save"
    BY <2>3 DEF Requests, RequestOK
  <2>5. w = r
    BY <1>1, <2>1, <2>3, <2>4 DEF Distinct
  <2>6. r.base = 0
    BY <1>1, <2>1, <2>3, <2>5 DEF Between, Fits
  <2>7. ~removed[r.tab]
    BY <1>1, <2>6 DEF DeleteInv, Deleting
  <2> QED
    BY <1>1, <2>1, <2>7 DEF DeleteInv
<1>2. IInv /\ DeleteInv /\ [Next]_vars
      => [\A r \in requests :
            r.op = "save" /\ r.heard /\ index = 0 /\ index' = r.n => Text(r.n) \cap deleted[r.tab] = {}]_vars
  BY <1>1
<1> QED
  BY <1>2, Deletions, PTL DEF Spec, DeletedStays

(***************************************************************************)
(* Conversations: the refinement.  A save takes effect when the index is   *)
(* written.  A request and its call are one to one, so that replacing the  *)
(* one replaces the other and no more.                                     *)
(***************************************************************************)
Under == {CallOf(r) : r \in requests}

LEMMA OneToOne ==
  ASSUME IInv, NEW q \in requests, NEW r \in requests, CallOf(q) = CallOf(r)
  PROVE  q = r
<1>1. q.op = r.op /\ q.n = r.n /\ q.tab = r.tab
  BY DEF CallOf
<1>2. r.op \in {"save", "remove"}
  BY Types DEF IInv, AgentType, Requests
<1> QED
  BY <1>1, <1>2 DEF IInv, RequestInv, Distinct

LEMMA CallBecomes ==
  ASSUME IInv, NEW r \in requests, NEW S, requests' = (requests \ {r}) \cup S
  PROVE  Under' = (Under \ {CallOf(r)}) \cup {CallOf(s) : s \in S}
<1>1. \A q \in requests : q = r <=> CallOf(q) = CallOf(r)
  BY OneToOne
<1> QED
  BY <1>1 DEF Under

\* Marking a request marks its call (SMT compares records with Booleans only under an IF).
LEMMA CallMarked ==
  ASSUME NEW r \in Requests, NEW ok \in BOOLEAN
  PROVE  /\ CallOf([r EXCEPT !.step = "done", !.ok = ok]) = [CallOf(r) EXCEPT !.done = TRUE, !.ok = ok]
         /\ CallOf([r EXCEPT !.heard = FALSE]) = [CallOf(r) EXCEPT !.heard = FALSE]
<1>1. \A b \in BOOLEAN : (IF b THEN CallOf([r EXCEPT !.heard = FALSE]) ELSE r)
                         = IF b THEN [CallOf(r) EXCEPT !.heard = FALSE] ELSE r
  BY DEF CallOf, Requests
<1>2. \A b \in BOOLEAN : (IF b THEN CallOf([r EXCEPT !.step = "done", !.ok = ok]) ELSE r)
                         = IF b THEN [CallOf(r) EXCEPT !.done = TRUE, !.ok = ok] ELSE r
  BY DEF CallOf, Requests
<1> QED
  BY <1>1, <1>2, Zenon

\* An answer of the agent.
LEMMA AnswerBecomes ==
  ASSUME IInv, NEW r \in requests, NEW ok \in BOOLEAN, To(r, [r EXCEPT !.step = "done", !.ok = ok])
  PROVE  Sealed!Ends(CallOf(r), ok)
<1> DEFINE s == [r EXCEPT !.step = "done", !.ok = ok]
           S == IF r.heard THEN {s} ELSE {}
<1>1. r \in Requests
  BY Types DEF IInv, AgentType
<1>2. CallOf(s) = [CallOf(r) EXCEPT !.done = TRUE, !.ok = ok]
  BY <1>1, CallMarked
<1>3. requests' = (requests \ {r}) \cup S
  BY <1>1 DEF To, Requests
<1>4. CallOf(r).heard = r.heard
  BY DEF CallOf
<1> HIDE DEF s
<1>5. {CallOf(x) : x \in S} = IF r.heard THEN {CallOf(s)} ELSE {}
  OBVIOUS
<1> HIDE DEF S
<1>6. Under' = (Under \ {CallOf(r)}) \cup {CallOf(x) : x \in S}
  BY <1>3, CallBecomes
<1> QED
  BY <1>2, <1>4, <1>5, <1>6 DEF Sealed!Ends, Sealed!Becomes, Under

\* What the agent does: refuse, fail, write the blob, or name it in the index.
LEMMA ServeImplements ==
  ASSUME IInv, NEW r \in requests, Serve(r)
  PROVE  Sealed!Take(CallOf(r)) \/ Sealed!Refuse(CallOf(r)) \/ UNCHANGED Sealed!vars
<1>1. r \in Requests /\ (r.ok => r.step = "done")
  BY Types DEF IInv, AgentType, AnswerInv
<1>2. UNCHANGED <<Len(content), Known>>
  BY DEF Serve, library, Known
<1>3. /\ CallOf(r).done <=> r.step = "done"
      /\ CallOf(r).op = r.op /\ CallOf(r).base = r.base /\ CallOf(r).n = r.n
  BY DEF CallOf
<1>4. CASE index' = index /\ r.step # "done" /\ To(r, [r EXCEPT !.step = "done"])
  <2>1. [r EXCEPT !.step = "done"] = [r EXCEPT !.step = "done", !.ok = FALSE]
    BY <1>1, <1>4 DEF Requests
  <2>2. Sealed!Ends(CallOf(r), FALSE)
    BY <1>4, <2>1, AnswerBecomes
  <2> QED
    BY <1>2, <1>3, <1>4, <2>2 DEF Sealed!Refuse
<1>5. CASE index' = index /\ r.step # "done" /\ To(r, [r EXCEPT !.step = "index"])
  <2> DEFINE s == [r EXCEPT !.step = "index"]
  <2>1. s.step = "index" /\ CallOf(s) = CallOf(r)
    BY <1>1, <1>5 DEF Requests, CallOf
  <2>2. requests' = (requests \ {r}) \cup {s}
    BY <1>5, <2>1 DEF To
  <2> HIDE DEF s
  <2>3. Under' = (Under \ {CallOf(r)}) \cup {CallOf(x) : x \in {s}}
    BY <2>2, CallBecomes
  <2>4. Under' = Under
    BY <2>1, <2>3 DEF Under
  <2> QED
    BY <1>2, <1>5, <2>4 DEF Sealed!vars, Under
<1>6. CASE WriteIndex(r)
  <2>1. Sealed!Ends(CallOf(r), TRUE)
    BY <1>6, AnswerBecomes DEF WriteIndex
  <2>2. r.step = "index" /\ index' = r.n /\ Fits(r)
    BY <1>6 DEF WriteIndex, IInv, RequestInv, Between
  <2> QED
    BY <1>2, <1>3, <2>1, <2>2 DEF Sealed!Take, Fits
<1> QED
  BY <1>4, <1>5, <1>6 DEF Serve, Upsert, Unlink, Fails

\* What a tab knows changes only with its record.
LEMMA KnownChanges ==
  ASSUME IInv, NEW t \in Tabs, NEW new, record' = [record EXCEPT ![t] = new],
         NEW what, what = IF new.locked THEN {} ELSE {new.sha}
  PROVE  Known' = [Known EXCEPT ![t] = what]
BY Types DEF IInv, RecordType, Known

LEMMA LoadImplements ==
  ASSUME IInv, NEW t \in Tabs, Read(t) \/ NotRead(t)
  PROVE  Sealed!Load(t) \/ UNCHANGED Sealed!vars
<1>1. index \in Versions
  BY Types, NumberType DEF IInv, AgentType
<1>2. UNCHANGED <<index, Len(content), Under>>
  BY DEF Read, NotRead, server, Under
<1>3. CASE record' = [record EXCEPT ![t] = Sha(index)]
  <2>1. {index} = IF Sha(index).locked THEN {} ELSE {Sha(index).sha}
    BY <1>1, ShaType
  <2>2. Known' = [Known EXCEPT ![t] = {index}]
    BY <1>3, <2>1, KnownChanges
  <2> QED
    BY <1>2, <2>2 DEF Sealed!Load, Under
<1>4. CASE index # 0 /\ record' = [record EXCEPT ![t] = [sha |-> index, text |-> 0, locked |-> TRUE]]
  <2> DEFINE row == [sha |-> index, text |-> 0, locked |-> TRUE]
  <2>0. {} = IF row.locked THEN {} ELSE {row.sha}
    OBVIOUS
  <2> HIDE DEF row
  <2>1. Known' = [Known EXCEPT ![t] = {}]
    BY <1>4, <2>0, KnownChanges DEF row
  <2> QED
    BY <1>2, <1>4, <2>1 DEF Sealed!Load, Under
<1>5. CASE record' = record
  BY <1>2, <1>5 DEF Known, Sealed!vars, Under
<1> QED
  BY <1>3, <1>4, <1>5 DEF Read, NotRead

\* A save or a delete is sent.
LEMMA SendImplements ==
  ASSUME IInv, NEW t \in Tabs, Seal(t) \/ Remove(t)
  PROVE  Sealed!Save(t) \/ Sealed!Delete(t)
<1>1. UNCHANGED <<index, Known>>
  BY DEF Seal, Remove, library, Known
<1>2. \A c \in Under : \E r \in requests : c = CallOf(r) /\ c.tab = r.tab /\ c.op = r.op /\ c.heard = r.heard
  BY DEF Under, CallOf
<1>3. Known[t] = IF record[t].locked THEN {} ELSE {record[t].sha}
  BY DEF Known
<1>4. CASE Seal(t)
  <2> DEFINE r == [tab |-> t, op |-> "save", base |-> record[t].sha,
                   n |-> Len(content) + 1, step |-> "sent", ok |-> FALSE, heard |-> TRUE]
             c == [tab |-> t, op |-> "save", base |-> record[t].sha, n |-> Len(content) + 1,
                   done |-> FALSE, ok |-> FALSE, heard |-> TRUE]
  <2>1. CallOf(r) = c
    BY DEF CallOf
  <2>2. requests' = requests \cup {r}
    BY <1>4 DEF Seal
  <2>3. Under' = Under \cup {c}
    BY <2>1, <2>2 DEF Under
  <2>4. Len(content') = Len(content) + 1
    BY <1>4, Types DEF Seal, IInv, AgentType
  <2>5. ~Sealed!Waiting(t)
    BY <1>2, <1>4, WaitsForNone DEF Sealed!Waiting, Seal, Under
  <2>6. record[t].sha \in Known[t]
    BY <1>3, <1>4 DEF Seal
  <2> QED
    BY <1>1, <2>3, <2>4, <2>5, <2>6 DEF Sealed!Save, Sealed!Call, Under
<1>5. CASE Remove(t)
  <2> DEFINE r == [tab |-> t, op |-> "remove", base |-> 0, n |-> 0,
                   step |-> "sent", ok |-> FALSE, heard |-> TRUE]
             c == [tab |-> t, op |-> "remove", base |-> 0, n |-> 0,
                   done |-> FALSE, ok |-> FALSE, heard |-> TRUE]
  <2>1. CallOf(r) = c
    BY DEF CallOf
  <2>2. requests' = requests \cup {r}
    BY <1>5 DEF Remove
  <2>3. Under' = Under \cup {c}
    BY <2>1, <2>2 DEF Under
  <2>4. ~Sealed!UnderWay(t, "remove")
    BY <1>2, <1>5 DEF Sealed!UnderWay, Remove, Under
  <2>5. Known[t] # {0}
    BY <1>3, <1>5 DEF Remove
  <2> QED
    BY <1>1, <1>5, <2>3, <2>4, <2>5 DEF Sealed!Delete, Sealed!Call, Under, Remove
<1> QED
  BY <1>4, <1>5

LEMMA HearImplements ==
  ASSUME IInv, NEW r \in requests, Answer(r)
  PROVE  Sealed!Answer(CallOf(r))
<1>1. r \in Requests /\ r.tab \in Tabs /\ r.n \in Versions
  BY Types DEF IInv, AgentType, Requests
<1>2. RequestOK(r)
  BY DEF IInv, RequestInv
<1>3. UNCHANGED <<index, Len(content)>> /\ requests' = (requests \ {r}) \cup {}
  BY DEF Answer
<1>4. Under' = (Under \ {CallOf(r)}) \cup {CallOf(x) : x \in {}}
  BY <1>3, CallBecomes
<1>5. Sealed!Becomes(CallOf(r), {})
  BY <1>4 DEF Sealed!Becomes, Under
<1>6. /\ CallOf(r).done /\ CallOf(r).heard
      /\ CallOf(r).ok = r.ok /\ CallOf(r).tab = r.tab /\ CallOf(r).n = r.n
  BY DEF Answer, CallOf
<1>7. Known' = IF r.ok THEN [Known EXCEPT ![r.tab] = {r.n}] ELSE Known
  <2>1. CASE Saved(r.tab, r)
    <3>1. {r.n} = IF Sha(r.n).locked THEN {} ELSE {Sha(r.n).sha}
      BY <1>1, ShaType
    <3>2. r.ok /\ record' = [record EXCEPT ![r.tab] = Sha(r.n)]
      BY <2>1 DEF Saved
    <3>3. Known' = [Known EXCEPT ![r.tab] = {r.n}]
      BY <1>1, <3>1, <3>2, KnownChanges
    <3> QED
      BY <3>2, <3>3
  <2>2. CASE Removed(r.tab, r)
    <3>1. {r.n} = IF NoRecord.locked THEN {} ELSE {NoRecord.sha}
      BY <1>2, <2>2 DEF Removed, RequestOK, NoRecord
    <3>2. r.ok /\ record' = [record EXCEPT ![r.tab] = NoRecord]
      BY <2>2 DEF Removed
    <3>3. Known' = [Known EXCEPT ![r.tab] = {r.n}]
      BY <1>1, <3>1, <3>2, KnownChanges
    <3> QED
      BY <3>2, <3>3
  <2>3. CASE NotSaved(r.tab, r) \/ NotRemoved(r.tab, r)
    BY <2>3 DEF NotSaved, NotRemoved, library, Known
  <2> QED
    BY <2>1, <2>2, <2>3 DEF Answer
<1> QED
  BY <1>3, <1>5, <1>6, <1>7 DEF Sealed!Answer

LEMMA GiveUpImplements ==
  ASSUME IInv, NEW r \in requests, GiveUp(r)
  PROVE  Sealed!GiveUp(CallOf(r))
<1> DEFINE s == [r EXCEPT !.heard = FALSE]
           S == IF r.step = "done" THEN {} ELSE {s}
<1>1. r \in Requests
  BY Types DEF IInv, AgentType
<1>2. CallOf(s) = [CallOf(r) EXCEPT !.heard = FALSE]
  BY <1>1, CallMarked
<1>3. requests' = (requests \ {r}) \cup S
  BY DEF GiveUp
<1> HIDE DEF s
<1>4. {CallOf(x) : x \in S} = IF r.step = "done" THEN {} ELSE {CallOf(s)}
  OBVIOUS
<1> HIDE DEF S
<1>5. Under' = (Under \ {CallOf(r)}) \cup {CallOf(x) : x \in S}
  BY <1>3, CallBecomes
<1>6. (CallOf(r).done <=> r.step = "done") /\ CallOf(r).heard
  BY DEF CallOf, GiveUp
<1>7. UNCHANGED <<index, Len(content), Known>>
  BY DEF GiveUp, Known
<1> QED
  BY <1>2, <1>4, <1>5, <1>6, <1>7 DEF Sealed!GiveUp, Sealed!Becomes, Under

LEMMA SignInImplements ==
  ASSUME IInv, NEW t \in Tabs, NEW signedOut \in BOOLEAN, SignIn(t, signedOut)
  PROVE  Sealed!SignIn(t)
<1> DEFINE F(r) == IF r.tab = t THEN [r EXCEPT !.heard = FALSE] ELSE r
           G(c) == IF c.tab = t THEN [c EXCEPT !.heard = FALSE] ELSE c
           kept == {s \in requests : s.tab # t \/ s.step # "done"}
           left == {d \in Under : d.tab # t \/ ~d.done}
<1>1. \A r \in requests : CallOf(F(r)) = G(CallOf(r))
  BY Types DEF IInv, AgentType, Requests, CallOf
<1>2. requests' = {F(r) : r \in kept}
  BY DEF SignIn
<1>3. \A r \in requests : CallOf(r).tab = r.tab /\ (CallOf(r).done <=> r.step = "done")
  BY DEF CallOf
<1>4. left = {CallOf(r) : r \in kept}
  BY <1>3 DEF Under
<1>5. Under' = {CallOf(F(r)) : r \in kept}
  BY <1>2 DEF Under
<1>6. \A r \in kept : r \in requests
  OBVIOUS
<1> HIDE DEF F, G, kept, left
<1>7. Under' = {G(c) : c \in left}
  BY <1>1, <1>4, <1>5, <1>6
<1>8. {0} = IF NoRecord.locked THEN {} ELSE {NoRecord.sha}
  BY DEF NoRecord
<1>9. Known' = [Known EXCEPT ![t] = {0}]
  BY <1>8, KnownChanges DEF SignIn
<1> QED
  BY <1>7, <1>9 DEF SignIn, Sealed!SignIn, Under, G, left

LEMMA StepImplements ==
  ASSUME IInv, [Next]_vars
  PROVE  [Sealed!Next]_Sealed!vars
<1>1. CASE UNCHANGED <<content, index, requests, record>>
  BY <1>1 DEF Sealed!vars, Known
<1>2. CASE \E t \in Tabs : Say(t) \/ SaveAgain(t) \/ Patch(t) \/ NotSealed(t)
  BY <1>1, <1>2 DEF Say, SaveAgain, Patch, NotSealed, server
<1>3. CASE \E t \in Tabs : Read(t) \/ NotRead(t)
  BY <1>3, LoadImplements DEF Sealed!Next
<1>4. CASE \E t \in Tabs : Seal(t) \/ Remove(t)
  BY <1>4, SendImplements DEF Sealed!Next
<1>5. CASE \E t \in Tabs : \E b \in BOOLEAN : SignIn(t, b)
  BY <1>5, SignInImplements DEF Sealed!Next
<1>6. ASSUME NEW r \in requests, Answer(r) \/ GiveUp(r) \/ Serve(r)
      PROVE  [Sealed!Next]_Sealed!vars
  BY <1>6, HearImplements, GiveUpImplements, ServeImplements DEF Sealed!Next
<1> QED
  BY <1>1, <1>2, <1>3, <1>4, <1>5, <1>6 DEF Next, vars, server, library

\* Whatever the number of tabs, and however their requests interleave, come late, are given
\* up or fail half way: a save compares and replaces in one step, takes effect once, before
\* the answer that says so, and a refused one never does (expected_sha256, serialize).
THEOREM OneRegister == Spec => ImplementsRegister
<1>1. Init => Sealed!Init
  <2> SUFFICES ASSUME Init PROVE Sealed!Init
    OBVIOUS
  <2>1. index = 0 /\ Len(content) = 0 /\ requests = {}
    BY DEF Init
  <2>2. \A t \in Tabs : record[t].sha = 0 /\ ~record[t].locked
    BY DEF Init, NoRecord
  <2>3. Known = [t \in Tabs |-> {0}]
    BY <2>2 DEF Known
  <2> QED
    BY <2>1, <2>3 DEF Sealed!Init
<1>2. IInv /\ [Next]_vars => [Sealed!Next]_Sealed!vars
  BY StepImplements
<1> QED
  BY <1>1, <1>2, Inductive, PTL DEF Spec, ImplementsRegister, Sealed!Spec

(***************************************************************************)
(* BrowserSession: the inductive invariant.  A tab's renewals that may     *)
(* still store a token belong to a session the tab has not ended, and a    *)
(* tab that means to keep a session has a timer or a renewal.              *)
(***************************************************************************)
TimerInv ==
  \A t \in Tabs :
    /\ held[t] => armed[t] > 0
    /\ state[t] = "live" => armed[t] > 0
    /\ state[t] = "refreshing" => Refreshing(t) # {}

CurrentInv == \A t \in Tabs : \A c \in calls[t] : c.kind = "refresh" /\ c.current => ~ended[t]

SessionInv == SessionTypeOK /\ TimerInv /\ CurrentInv /\ SignedOutStays

(***************************************************************************)
(* BrowserSession: calls in flight: what marking them does.              *)
(***************************************************************************)
\* c is d, perhaps with its marks taken off and its attempt abandoned.
Marked(c, d) == (c.kind = "refresh" <=> d.kind = "refresh") /\ (c.current => d.current)

From(new, old) == new \in SUBSET Calls /\ \A c \in new : \E d \in old : Marked(c, d)

Renews(cs) == \E c \in cs : c.kind = "refresh"

LEMMA RenewsRefreshing ==
  /\ \A t \in Tabs : Renews(calls[t]) <=> Refreshing(t) # {}
  /\ \A t \in Tabs : Renews(calls'[t]) <=> Refreshing(t)' # {}
BY DEF Renews, Refreshing

LEMMA SomeCalls ==
  ASSUME NEW cs \in SUBSET Calls, NEW some \in SUBSET cs
  PROVE  From(some, cs)
BY DEF From, Marked

LEMMA FromFrom ==
  ASSUME NEW a, NEW b, NEW c, From(a, b), From(b, c)
  PROVE  From(a, c)
BY DEF From, Marked

LEMMA OutdatedCalls ==
  ASSUME NEW cs \in SUBSET Calls
  PROVE  From(Outdated(cs), cs) /\ (Renews(cs) => Renews(Outdated(cs)))
<1>1. \A d \in cs : [d EXCEPT !.same = FALSE] \in Calls /\ Marked([d EXCEPT !.same = FALSE], d)
  BY DEF Calls, Marked
<1>2. \A c \in Outdated(cs) : \E d \in cs : c = [d EXCEPT !.same = FALSE]
  BY DEF Outdated
<1>3. \A d \in cs : [d EXCEPT !.same = FALSE] \in Outdated(cs)
  BY DEF Outdated
<1>4. From(Outdated(cs), cs)
  BY <1>1, <1>2 DEF From
<1>5. Renews(cs) => Renews(Outdated(cs))
  BY <1>1, <1>3 DEF Renews, Marked
<1> QED
  BY <1>4, <1>5

LEMMA SupersededCalls ==
  ASSUME NEW cs \in SUBSET Calls
  PROVE  /\ From(Superseded(cs), cs) /\ (Renews(cs) => Renews(Superseded(cs)))
         /\ \A c \in Superseded(cs) : ~c.current
<1> DEFINE Off(d) == [d EXCEPT !.current = FALSE, !.same = FALSE]
<1>1. \A d \in cs : Off(d) \in Calls /\ Marked(Off(d), d) /\ ~Off(d).current
  BY DEF Calls, Marked
<1>2. Superseded(cs) = {Off(d) : d \in cs}
  BY DEF Superseded
<1> HIDE DEF Off
<1>4. From(Superseded(cs), cs)
  BY <1>1, <1>2 DEF From
<1>5. Renews(cs) => Renews(Superseded(cs))
  BY <1>1, <1>2 DEF Renews, Marked
<1> QED
  BY <1>1, <1>2, <1>4, <1>5

LEMMA RetiredCalls ==
  ASSUME NEW cs \in SUBSET Calls, NEW gone
  PROVE  /\ From(Retired(cs, gone), cs) /\ (Renews(cs \ gone) => Renews(Retired(cs, gone)))
         /\ \A c \in Retired(cs, gone) : ~c.current
<1> DEFINE Late(d) == [d EXCEPT !.kind = IF d.kind = "verify" THEN "late" ELSE d.kind]
           late == {Late(d) : d \in cs \ gone}
<1>1. \A d \in cs : Late(d) \in Calls /\ Marked(Late(d), d)
  BY DEF Calls, Marked
<1>2. Retired(cs, gone) = Superseded(late)
  BY DEF Retired
<1> HIDE DEF Late
<1>3. late \in SUBSET Calls /\ From(late, cs) /\ (Renews(cs \ gone) => Renews(late))
  BY <1>1 DEF From, Renews, Marked
<1> HIDE DEF late
<1> QED
  BY <1>2, <1>3, SupersededCalls, FromFrom

(***************************************************************************)
(* BrowserSession: calls in flight: what every step does to them.        *)
(***************************************************************************)
\* The calls of each tab come from those it had, and renewals are not lost.
CallsFrom == calls' \in [Tabs -> SUBSET Calls] /\ \A u \in Tabs : From(calls'[u], calls[u])

LEMMA SendCalls ==
  ASSUME SessionTypeOK, NEW t \in Tabs, NEW kind \in {"verify", "refresh", "api"}, NEW n \in Nat,
         Send(t, kind, n)
  PROVE  /\ calls' \in [Tabs -> SUBSET Calls]
         /\ \A u \in Tabs : Renews(calls[u]) => Renews(calls'[u])
         /\ \A u \in Tabs : \A x \in calls'[u] : x \in calls[u] \/ (u = t /\ x.kind = kind)
         /\ kind = "refresh" => Renews(calls'[t])
<1> DEFINE new == [kind |-> kind, current |-> TRUE, same |-> HasToken, n |-> n]
<1>1. new \in Calls /\ new.kind = kind
  BY DEF Calls, HasToken
<1>2. calls' = [calls EXCEPT ![t] = calls[t] \cup {new}]
  BY DEF Send
<1> HIDE DEF new
<1> QED
  BY <1>1, <1>2 DEF SessionTypeOK, Renews

LEMMA AnsweredCalls ==
  ASSUME SessionTypeOK, NEW t \in Tabs, NEW c \in calls[t], Answered(t, c)
  PROVE  CallsFrom /\ \A u \in Tabs : u # t \/ c.kind # "refresh" => (Renews(calls[u]) => Renews(calls'[u]))
<1>1. /\ calls' \in [Tabs -> SUBSET Calls] /\ calls \in [Tabs -> SUBSET Calls]
      /\ calls'[t] = calls[t] \ {c} /\ \A u \in Tabs \ {t} : calls'[u] = calls[u]
  BY DEF SessionTypeOK, Answered
<1>2. \A u \in Tabs : From(calls'[u], calls[u])
  BY <1>1, SomeCalls
<1> QED
  BY <1>1, <1>2 DEF CallsFrom, Renews

LEMMA EndAttemptCalls ==
  ASSUME SessionTypeOK, NEW t \in Tabs, NEW gone, EndAttempt(t, gone),
         \A c \in gone : c.kind # "refresh"
  PROVE  CallsFrom /\ \A u \in Tabs : Renews(calls[u]) => Renews(calls'[u])
<1>1. calls' = [calls EXCEPT ![t] = Retired(calls[t], gone)] /\ calls \in [Tabs -> SUBSET Calls]
  BY DEF SessionTypeOK, EndAttempt
<1>2. /\ From(Retired(calls[t], gone), calls[t])
      /\ Renews(calls[t] \ gone) => Renews(Retired(calls[t], gone))
  BY <1>1, RetiredCalls
<1>3. Renews(calls[t]) => Renews(calls[t] \ gone)
  BY DEF Renews
<1>4. \A u \in Tabs : From(calls[u], calls[u])
  BY <1>1, SomeCalls
<1> QED
  BY <1>1, <1>2, <1>3, <1>4 DEF CallsFrom, From

\* The token is another one, or none, and some answers of one tab are in.
LEMMA OutdatedEverywhere ==
  ASSUME SessionTypeOK, NEW t \in Tabs, NEW left, From(left, calls[t]),
         calls' = [u \in Tabs |-> calls'[u]], calls'[t] = Outdated(left),
         \A u \in Tabs \ {t} : calls'[u] = Outdated(calls[u])
  PROVE  /\ CallsFrom
         /\ \A u \in Tabs \ {t} : Renews(calls[u]) => Renews(calls'[u])
         /\ Renews(left) => Renews(calls'[t])
         /\ (\A c \in left : ~c.current) => \A c \in calls'[t] : ~c.current
<1>1. left \in SUBSET Calls /\ calls \in [Tabs -> SUBSET Calls]
  BY DEF SessionTypeOK, From
<1>2. /\ From(Outdated(left), calls[t]) /\ (Renews(left) => Renews(Outdated(left)))
      /\ From(Outdated(left), left)
  BY <1>1, OutdatedCalls, FromFrom
<1>3. \A u \in Tabs : /\ From(Outdated(calls[u]), calls[u])
                      /\ Renews(calls[u]) => Renews(Outdated(calls[u]))
  BY <1>1, OutdatedCalls
<1>5. calls' \in [Tabs -> SUBSET Calls]
  <2>1. \A u \in Tabs : calls'[u] \in SUBSET Calls
    BY <1>2, <1>3 DEF From
  <2> QED
    BY <2>1
<1>6. (\A c \in left : ~c.current) => \A c \in Outdated(left) : ~c.current
  BY <1>2 DEF From, Marked
<1> QED
  BY <1>2, <1>3, <1>5, <1>6 DEF CallsFrom

LEMMA ForgetCalls ==
  ASSUME SessionTypeOK, NEW t \in Tabs, NEW gone, Forget(t, gone)
  PROVE  /\ CallsFrom
         /\ \A u \in Tabs \ {t} : Renews(calls[u]) => Renews(calls'[u])
         /\ \A c \in calls'[t] : ~c.current
<1> DEFINE left == Superseded(calls[t] \ gone)
<1>1. calls[t] \in SUBSET Calls /\ calls[t] \ gone \in SUBSET Calls
  BY DEF SessionTypeOK
<1>2. From(left, calls[t]) /\ \A c \in left : ~c.current
  BY <1>1, SomeCalls, SupersededCalls, FromFrom
<1>3. calls' = [u \in Tabs |-> calls'[u]] /\ calls'[t] = Outdated(left)
      /\ \A u \in Tabs \ {t} : calls'[u] = Outdated(calls[u])
  BY DEF Forget
<1> HIDE DEF left
<1> QED
  BY <1>2, <1>3, OutdatedEverywhere

LEMMA RetiredEverywhere ==
  ASSUME SessionTypeOK, NEW t \in Tabs, NEW c \in calls[t], c.kind # "refresh",
         calls' = [u \in Tabs |-> Outdated(IF u = t THEN Retired(calls[u], {c}) ELSE calls[u])]
  PROVE  CallsFrom /\ \A u \in Tabs : Renews(calls[u]) => Renews(calls'[u])
<1> DEFINE left == Retired(calls[t], {c})
<1>1. calls[t] \in SUBSET Calls
  BY DEF SessionTypeOK
<1>2. From(left, calls[t]) /\ (Renews(calls[t] \ {c}) => Renews(left))
  BY <1>1, RetiredCalls
<1>3. Renews(calls[t]) => Renews(calls[t] \ {c})
  BY DEF Renews
<1>4. calls' = [u \in Tabs |-> calls'[u]] /\ calls'[t] = Outdated(left)
      /\ \A u \in Tabs \ {t} : calls'[u] = Outdated(calls[u])
  OBVIOUS
<1> HIDE DEF left
<1> QED
  BY <1>2, <1>3, <1>4, OutdatedEverywhere

LEMMA AnsweredEverywhere ==
  ASSUME SessionTypeOK, NEW t \in Tabs, NEW c \in calls[t],
         calls' = [u \in Tabs |-> Outdated(calls[u] \ (IF u = t THEN {c} ELSE {}))]
  PROVE  /\ CallsFrom
         /\ \A u \in Tabs : u # t \/ c.kind # "refresh" => (Renews(calls[u]) => Renews(calls'[u]))
<1> DEFINE left == calls[t] \ {c}
<1>1. calls[t] \in SUBSET Calls
  BY DEF SessionTypeOK
<1>2. From(left, calls[t])
  BY <1>1, SomeCalls
<1>3. c.kind # "refresh" => (Renews(calls[t]) => Renews(left))
  BY DEF Renews
<1>4. \A u \in Tabs \ {t} : calls[u] \ {} = calls[u]
  OBVIOUS
<1>5. calls' = [u \in Tabs |-> calls'[u]] /\ calls'[t] = Outdated(left)
      /\ \A u \in Tabs \ {t} : calls'[u] = Outdated(calls[u])
  BY <1>4
<1> HIDE DEF left
<1> QED
  BY <1>2, <1>3, <1>5, OutdatedEverywhere

(***************************************************************************)
(* BrowserSession: types, timers and marks, one piece at a time.         *)
(***************************************************************************)
RestType ==
  /\ stored \in Classes /\ marker \in BOOLEAN /\ inbox \in [Tabs -> 0..MaxEvents]
  /\ attempt \in [Tabs -> {"idle", "signer", "verify"}]
  /\ screen \in [Tabs -> {"login", "app"}] /\ ended \in [Tabs -> BOOLEAN]
CallsType == calls \in [Tabs -> SUBSET Calls]
RenewalType ==
  /\ state \in [Tabs -> {"anonymous", "live", "refreshing"}]
  /\ armed \in [Tabs -> Nat] /\ held \in [Tabs -> BOOLEAN]

LEMMA SessionTypes ==
  /\ SessionTypeOK <=> RestType /\ CallsType /\ RenewalType
  /\ SessionTypeOK' <=> RestType' /\ CallsType' /\ RenewalType'
<1>1. SessionTypeOK <=> RestType /\ CallsType /\ RenewalType
  BY DEF SessionTypeOK, RestType, CallsType, RenewalType
<1>2. SessionTypeOK' <=> RestType' /\ CallsType' /\ RenewalType'
  BY DEF SessionTypeOK, RestType, CallsType, RenewalType
<1> QED
  BY <1>1, <1>2

LEMMA ToldType ==
  ASSUME RestType, NEW t \in Tabs, NEW n \in Nat
  PROVE  Told(t, n) \in [Tabs -> 0..MaxEvents] /\ Told(t, n)[t] = inbox[t]
<1>1. MaxEvents \in Nat /\ \A u \in Tabs : inbox[u] \in 0..MaxEvents
  BY SessionBounds DEF RestType
<1>2. ASSUME NEW u \in Tabs
      PROVE  (IF u = t \/ inbox[u] + n <= MaxEvents
                THEN inbox[u] + (IF u = t THEN 0 ELSE n) ELSE MaxEvents) \in 0..MaxEvents
  <2>1. inbox[u] \in 0..MaxEvents
    BY <1>1
  <2>2. CASE u = t
    BY <1>1, <2>1, <2>2
  <2>3. CASE u # t
    BY <1>1, <2>1, <2>3
  <2> QED
    BY <2>2, <2>3
<1>3. Told(t, n) \in [Tabs -> 0..MaxEvents]
  BY <1>2 DEF Told
<1>4. Told(t, n)[t] = inbox[t]
  BY <1>1 DEF Told
<1> QED
  BY <1>3, <1>4

LEMMA ClearedType == Cleared \in Nat /\ Cleared + 1 \in Nat
BY DEF Cleared

LEMMA StoppedType ==
  ASSUME RenewalType, TimerInv, NEW t \in Tabs
  PROVE  Stopped(t) \in Nat /\ Stopped(t) + 1 \in Nat /\ Stopped(t) + 1 > 0
BY DEF RenewalType, TimerInv, Stopped

\* The loop of one tab is set, those of the others are left alone.
LEMMA TimersSet ==
  ASSUME RenewalType, TimerInv, NEW t \in Tabs, NEW k \in Nat, NEW h \in BOOLEAN,
         NEW s \in {"anonymous", "live", "refreshing"}, Timers(t, k, h, s),
         h \/ s = "live" => k > 0, s = "refreshing" => Renews(calls'[t]),
         \A u \in Tabs \ {t} : Renews(calls[u]) => Renews(calls'[u])
  PROVE  RenewalType' /\ TimerInv'
<1>1. RenewalType'
  BY DEF RenewalType, Timers
<1>2. /\ armed'[t] = k /\ held'[t] = h /\ state'[t] = s
      /\ \A u \in Tabs \ {t} : armed'[u] = armed[u] /\ held'[u] = held[u] /\ state'[u] = state[u]
  BY DEF RenewalType, Timers
<1>3. \A u \in Tabs : /\ held'[u] => armed'[u] > 0
                      /\ state'[u] = "live" => armed'[u] > 0
                      /\ state'[u] = "refreshing" => Renews(calls'[u])
  BY <1>2, RenewsRefreshing DEF TimerInv
<1> QED
  BY <1>1, <1>3, RenewsRefreshing DEF TimerInv

LEMMA TimersStay ==
  ASSUME RenewalType, TimerInv, UNCHANGED renewal,
         \A u \in Tabs : Renews(calls[u]) => Renews(calls'[u])
  PROVE  RenewalType' /\ TimerInv'
<1>1. RenewalType'
  BY DEF RenewalType, renewal
<1>2. \A u \in Tabs : /\ held'[u] => armed'[u] > 0
                      /\ state'[u] = "live" => armed'[u] > 0
                      /\ state'[u] = "refreshing" => Renews(calls'[u])
  BY RenewsRefreshing DEF TimerInv, renewal
<1> QED
  BY <1>1, <1>2, RenewsRefreshing DEF TimerInv

LEMMA LoopStopped ==
  ASSUME RenewalType, TimerInv, NEW t \in Tabs, StopRefresh(t),
         \A u \in Tabs \ {t} : Renews(calls[u]) => Renews(calls'[u])
  PROVE  RenewalType' /\ TimerInv'
BY TimersSet, StoppedType DEF StopRefresh

LEMMA LoopStarted ==
  ASSUME RenewalType, TimerInv, NEW t \in Tabs, StartRefresh(t),
         \A u \in Tabs \ {t} : Renews(calls[u]) => Renews(calls'[u])
  PROVE  RenewalType' /\ TimerInv'
BY TimersSet, StoppedType DEF StartRefresh

LEMMA LoopArmed ==
  ASSUME RenewalType, TimerInv, NEW t \in Tabs, Arm(t),
         \A u \in Tabs \ {t} : Renews(calls[u]) => Renews(calls'[u])
  PROVE  RenewalType' /\ TimerInv'
<1>1. armed[t] + 1 \in Nat /\ armed[t] + 1 > 0
  BY DEF RenewalType
<1> QED
  BY <1>1, TimersSet DEF Arm

\* Renewals that may store a token are those of before, of sessions not ended since.
LEMMA CurrentFrom ==
  ASSUME CurrentInv, CallsFrom,
         \A u \in Tabs : ended'[u] => ended[u] \/ \A c \in calls'[u] : ~c.current
  PROVE  CurrentInv'
BY DEF CurrentInv, CallsFrom, From, Marked

LEMMA CallsFromType ==
  ASSUME CallsFrom
  PROVE  CallsType'
BY DEF CallsFrom, CallsType

LEMMA CallsStay ==
  ASSUME CallsType, UNCHANGED calls
  PROVE  CallsFrom /\ \A u \in Tabs : Renews(calls[u]) => Renews(calls'[u])
BY SomeCalls DEF CallsType, CallsFrom

(***************************************************************************)
(* BrowserSession: every step preserves the invariant.                   *)
(***************************************************************************)
\* A tab ends its session, whatever made it do so.
LEMMA ForgetStep ==
  ASSUME SessionInv, NEW t \in Tabs, NEW gone, Forget(t, gone), UNCHANGED attempt,
         inbox' \in [Tabs -> 0..MaxEvents],
         \/ StopRefresh(t)
         \/ armed[t] > 0 /\ Timers(t, armed[t] - 1, FALSE, "anonymous")
  PROVE  SessionInv'
<1> USE DEF SessionInv
<1>1. RestType /\ CallsType /\ RenewalType
  BY SessionTypes
<1>2. /\ CallsFrom /\ \A c \in calls'[t] : ~c.current
      /\ \A u \in Tabs \ {t} : Renews(calls[u]) => Renews(calls'[u])
  BY ForgetCalls
<1>3. RestType'
  BY <1>1 DEF RestType, Forget, Classes
<1>4. RenewalType' /\ TimerInv'
  <2>1. CASE StopRefresh(t)
    BY <1>1, <1>2, <2>1, LoopStopped
  <2>2. CASE armed[t] > 0 /\ Timers(t, armed[t] - 1, FALSE, "anonymous")
    <3>1. armed[t] - 1 \in Nat
      BY <1>1, <2>2 DEF RenewalType
    <3> QED
      BY <1>1, <1>2, <2>2, <3>1, TimersSet
  <2> QED
    BY <2>1, <2>2
<1>5. CurrentInv'
  <2>1. \A u \in Tabs : ended'[u] => ended[u] \/ \A c \in calls'[u] : ~c.current
    BY <1>1, <1>2 DEF Forget, RestType
  <2> QED
    BY <1>2, <2>1, CurrentFrom
<1>6. SignedOutStays'
  BY DEF Forget, SignedOutStays, HasToken
<1> QED
  BY <1>2, <1>3, <1>4, <1>5, <1>6, CallsFromType, SessionTypes

\* Steps of a tab that end no session.
LEMMA TabStep ==
  ASSUME SessionInv, NEW t \in Tabs,
         StartLogin(t) \/ Verify(t) \/ Abandon(t) \/ Navigate(t) \/ TickWaits(t)
         \/ TickRefreshes(t) \/ Request(t)
  PROVE  SessionInv'
<1> USE DEF SessionInv
<1>1. RestType /\ CallsType /\ RenewalType
  BY SessionTypes
<1>2. CASE StartLogin(t)
  <2>1. RestType'
    BY <1>1, <1>2 DEF StartLogin, RestType, storage
  <2>2. UNCHANGED <<calls, renewal, ended, stored>>
    BY <1>2 DEF StartLogin, storage
  <2>3. CurrentInv'
    BY <2>2 DEF CurrentInv
  <2>4. SignedOutStays'
    BY <2>2 DEF SignedOutStays, HasToken
  <2> QED
    BY <1>1, <2>1, <2>2, <2>3, <2>4, CallsStay, CallsFromType, TimersStay, SessionTypes
<1>3. CASE Verify(t) \/ Request(t)
  <2>1. RestType'
    BY <1>1, <1>3 DEF Verify, Request, RestType, storage
  <2>2. /\ UNCHANGED <<renewal, ended, stored>>
        /\ Send(t, "verify", 0) \/ Send(t, "api", 0)
    BY <1>3 DEF Verify, Request, storage
  <2>3. /\ CallsType' /\ \A u \in Tabs : Renews(calls[u]) => Renews(calls'[u])
        /\ \A u \in Tabs : \A x \in calls'[u] : x \in calls[u] \/ x.kind \in {"verify", "api"}
    BY <2>2, SendCalls DEF CallsType
  <2>4. CurrentInv'
    BY <2>2, <2>3 DEF CurrentInv
  <2>5. SignedOutStays'
    BY <2>2 DEF SignedOutStays, HasToken
  <2> QED
    BY <1>1, <2>1, <2>2, <2>3, <2>4, <2>5, TimersStay, SessionTypes
<1>4. CASE Abandon(t)
  <2>1. RestType'
    BY <1>1, <1>4 DEF Abandon, EndAttempt, RestType, storage
  <2>2. UNCHANGED <<renewal, ended, stored>> /\ EndAttempt(t, {})
    BY <1>4 DEF Abandon, storage
  <2>3. CallsFrom /\ \A u \in Tabs : Renews(calls[u]) => Renews(calls'[u])
    BY <2>2, EndAttemptCalls
  <2>4. CurrentInv'
    BY <2>2, <2>3, CurrentFrom
  <2>5. SignedOutStays'
    BY <2>2 DEF SignedOutStays, HasToken
  <2> QED
    BY <1>1, <2>1, <2>2, <2>3, <2>4, <2>5, CallsFromType, TimersStay, SessionTypes
<1>5. CASE Navigate(t)
  <2>1. RestType'
    <3>1. Told(t, Cleared) \in [Tabs -> 0..MaxEvents]
      BY <1>1, ToldType, ClearedType
    <3> QED
      BY <1>1, <1>5, <3>1 DEF Navigate, RestType
  <2>2. /\ UNCHANGED <<calls, stored>>
        /\ \/ StartRefresh(t) /\ ended' = [ended EXCEPT ![t] = FALSE]
           \/ UNCHANGED <<renewal, ended>>
    BY <1>5 DEF Navigate
  <2>3. CallsFrom /\ \A u \in Tabs : Renews(calls[u]) => Renews(calls'[u])
    BY <1>1, <2>2, CallsStay
  <2>4. \A u \in Tabs : ended'[u] => ended[u]
    BY <1>1, <2>2 DEF RestType
  <2>5. RenewalType' /\ TimerInv'
    BY <1>1, <2>2, <2>3, LoopStarted, TimersStay
  <2>6. CurrentInv'
    BY <2>3, <2>4, CurrentFrom
  <2>7. SignedOutStays'
    BY <2>2, <2>4 DEF SignedOutStays, HasToken
  <2> QED
    BY <2>1, <2>3, <2>5, <2>6, <2>7, CallsFromType, SessionTypes
<1>6. CASE TickWaits(t)
  <2>1. UNCHANGED <<stored, marker, inbox, attempt, calls, screen, ended>> /\ armed[t] > 0
    BY <1>6 DEF TickWaits, storage
  <2>2. RestType'
    BY <1>1, <2>1 DEF RestType
  <2>3. CallsFrom /\ \A u \in Tabs : Renews(calls[u]) => Renews(calls'[u])
    BY <1>1, <2>1, CallsStay
  <2>4. state[t] = "refreshing" => Renews(calls'[t])
    BY <2>1, RenewsRefreshing DEF TimerInv
  <2>5. armed[t] \in Nat /\ armed[t] - 1 \in Nat
    BY <1>1, <2>1 DEF RenewalType
  <2>6. PICK k \in Nat, h \in BOOLEAN, s \in {"anonymous", "live", "refreshing"} :
          /\ Timers(t, k, h, s) /\ (h \/ s = "live" => k > 0)
          /\ s = "refreshing" => state[t] = "refreshing"
    BY <1>6, <2>1, <2>5 DEF TickWaits
  <2>7. RenewalType' /\ TimerInv'
    BY <1>1, <2>3, <2>4, <2>6, TimersSet
  <2>8. CurrentInv' /\ SignedOutStays'
    BY <2>1 DEF CurrentInv, SignedOutStays, HasToken
  <2> QED
    BY <2>2, <2>3, <2>7, <2>8, CallsFromType, SessionTypes
<1>7. CASE TickRefreshes(t)
  <2>1. PICK n \in 1..Loops[t] : Send(t, "refresh", n)
    BY <1>7 DEF TickRefreshes
  <2>2. /\ UNCHANGED <<stored, marker, inbox, attempt, screen>>
        /\ ended' = [ended EXCEPT ![t] = FALSE] /\ armed[t] > 0
        /\ Timers(t, armed[t] - 1, FALSE, "refreshing")
    BY <1>7 DEF TickRefreshes, storage
  <2>3. RestType' /\ ended'[t] = FALSE /\ \A u \in Tabs \ {t} : ended'[u] = ended[u]
    BY <1>1, <2>2 DEF RestType
  <2>4. n \in Nat
    BY SessionBounds
  <2>5. /\ CallsType' /\ Renews(calls'[t])
        /\ \A u \in Tabs : Renews(calls[u]) => Renews(calls'[u])
        /\ \A u \in Tabs : \A x \in calls'[u] : x \in calls[u] \/ u = t
    BY <2>1, <2>4, SendCalls DEF CallsType
  <2>6. armed[t] - 1 \in Nat
    BY <1>1, <2>2 DEF RenewalType
  <2>7. RenewalType' /\ TimerInv'
    BY <1>1, <2>2, <2>5, <2>6, TimersSet
  <2>8. CurrentInv'
    BY <2>3, <2>5 DEF CurrentInv
  <2>9. SignedOutStays'
    BY <2>3 DEF SignedOutStays
  <2> QED
    BY <2>3, <2>5, <2>7, <2>8, <2>9, SessionTypes
<1> QED
  BY <1>2, <1>3, <1>4, <1>5, <1>6, <1>7

\* A sign-out, one heard of, or a token found expired.
LEMMA EndStep ==
  ASSUME SessionInv, NEW t \in Tabs, SignOut(t) \/ StorageEvent(t) \/ TickExpired(t)
  PROVE  SessionInv'
<1>1. RestType
  BY SessionTypes DEF SessionInv
<1>2. /\ Told(t, Cleared + 1) \in [Tabs -> 0..MaxEvents]
      /\ Told(t, Cleared) \in [Tabs -> 0..MaxEvents] /\ Told(t, Cleared)[t] = inbox[t]
  BY <1>1, ToldType, ClearedType
<1>3. CASE SignOut(t)
  BY <1>2, <1>3, ForgetStep DEF SignOut, EndSession
<1>4. CASE TickExpired(t)
  BY <1>2, <1>4, ForgetStep DEF TickExpired
<1>5. CASE StorageEvent(t)
  <2>1. inbox' \in [Tabs -> 0..MaxEvents]
    <3>1. inbox' = [Told(t, Cleared) EXCEPT ![t] = inbox[t] - 1] /\ inbox[t] > 0
      BY <1>2, <1>5 DEF StorageEvent
    <3>2. inbox[t] - 1 \in 0..MaxEvents
      BY <1>1, <3>1, SessionBounds DEF RestType
    <3> QED
      BY <1>2, <3>1, <3>2
  <2> QED
    BY <1>5, <2>1, ForgetStep DEF StorageEvent
<1> QED
  BY <1>3, <1>4, <1>5

\* The answer to a sign-in, in time or not.
LEMMA SignInStep ==
  ASSUME SessionInv, NEW t \in Tabs, NEW c \in calls[t],
         SignedIn(t, c) \/ NotSignedIn(t, c) \/ SignInRefused(t, c) \/ LateAnswer(t, c)
  PROVE  SessionInv'
<1> USE DEF SessionInv
<1>1. RestType /\ CallsType /\ RenewalType
  BY SessionTypes
<1>2. CASE SignedIn(t, c)
  <2>1. RestType' /\ ended'[t] = FALSE /\ \A u \in Tabs : ended'[u] => ended[u]
    BY <1>1, <1>2 DEF SignedIn, RestType, Classes, Lives
  <2>2. CallsFrom /\ \A u \in Tabs : Renews(calls[u]) => Renews(calls'[u])
    BY <1>2, RetiredEverywhere DEF SignedIn
  <2>3. RenewalType' /\ TimerInv'
    BY <1>1, <1>2, <2>2, LoopStarted DEF SignedIn
  <2>4. CurrentInv'
    BY <2>1, <2>2, CurrentFrom
  <2>5. SignedOutStays'
    BY <2>1 DEF SignedOutStays
  <2> QED
    BY <2>1, <2>2, <2>3, <2>4, <2>5, CallsFromType, SessionTypes
<1>3. CASE NotSignedIn(t, c)
  <2>1. RestType'
    BY <1>1, <1>3 DEF NotSignedIn, EndAttempt, RestType, storage
  <2>2. UNCHANGED <<renewal, ended, stored>> /\ EndAttempt(t, {c}) /\ c.kind # "refresh"
    BY <1>3 DEF NotSignedIn, storage
  <2>3. CallsFrom /\ \A u \in Tabs : Renews(calls[u]) => Renews(calls'[u])
    BY <2>2, EndAttemptCalls
  <2>4. CurrentInv'
    BY <2>2, <2>3, CurrentFrom
  <2>5. SignedOutStays'
    BY <2>2 DEF SignedOutStays, HasToken
  <2> QED
    BY <1>1, <2>1, <2>2, <2>3, <2>4, <2>5, CallsFromType, TimersStay, SessionTypes
<1>4. CASE SignInRefused(t, c)
  <2>1. RestType' /\ UNCHANGED <<renewal, ended>> /\ stored' = "anonymous"
    BY <1>1, <1>4 DEF SignInRefused, RestType, Classes
  <2>2. CallsFrom /\ \A u \in Tabs : Renews(calls[u]) => Renews(calls'[u])
    BY <1>4, RetiredEverywhere DEF SignInRefused
  <2>3. CurrentInv'
    BY <2>1, <2>2, CurrentFrom
  <2>4. SignedOutStays'
    BY <2>1 DEF SignedOutStays, HasToken
  <2> QED
    BY <1>1, <2>1, <2>2, <2>3, <2>4, CallsFromType, TimersStay, SessionTypes
<1>5. CASE LateAnswer(t, c)
  <2>1. UNCHANGED <<stored, marker, inbox, attempt, renewal, screen, ended>>
        /\ Answered(t, c) /\ c.kind # "refresh"
    BY <1>5 DEF LateAnswer, storage
  <2>2. RestType'
    BY <1>1, <2>1 DEF RestType
  <2>3. CallsFrom /\ \A u \in Tabs : Renews(calls[u]) => Renews(calls'[u])
    BY <2>1, AnsweredCalls
  <2>4. CurrentInv'
    BY <2>1, <2>3, CurrentFrom
  <2>5. SignedOutStays'
    BY <2>1 DEF SignedOutStays, HasToken
  <2> QED
    BY <1>1, <2>1, <2>2, <2>3, <2>4, <2>5, CallsFromType, TimersStay, SessionTypes
<1> QED
  BY <1>2, <1>3, <1>4, <1>5

\* The answer to a renewal: what it does to the loop, and that a token is stored only
\* for a session the tab has not ended.
LEMMA RenewStep ==
  ASSUME SessionInv, NEW t \in Tabs, NEW c \in calls[t],
         RefreshMoot(t, c) \/ Refreshed(t, c) \/ RefreshFailed(t, c) \/ RefreshRefused(t, c)
         \/ OldRefreshRefused(t, c)
  PROVE  SessionInv'
<1> USE DEF SessionInv
<1>1. RestType /\ CallsType /\ RenewalType
  BY SessionTypes
<1>2. CASE EndSession(t, {c}) /\ UNCHANGED attempt
  <2>1. Told(t, Cleared + 1) \in [Tabs -> 0..MaxEvents]
    BY <1>1, ToldType, ClearedType
  <2> QED
    BY <1>2, <2>1, ForgetStep DEF EndSession
\* Answered, and the loop stopped or armed.
<1>3. CASE /\ Answered(t, c)
           /\ StopRefresh(t) \/ Arm(t)
           /\ UNCHANGED <<stored, marker, inbox, attempt, screen, ended>>
  <2>1. RestType'
    BY <1>1, <1>3 DEF RestType
  <2>2. CallsFrom /\ \A u \in Tabs \ {t} : Renews(calls[u]) => Renews(calls'[u])
    BY <1>3, AnsweredCalls
  <2>3. RenewalType' /\ TimerInv'
    BY <1>1, <1>3, <2>2, LoopStopped, LoopArmed
  <2>4. CurrentInv'
    BY <1>3, <2>2, CurrentFrom
  <2>5. SignedOutStays'
    BY <1>3 DEF SignedOutStays, HasToken
  <2> QED
    BY <2>1, <2>2, <2>3, <2>4, <2>5, CallsFromType, SessionTypes
\* The token is another one, or none.
<1>4. CASE /\ calls' = [u \in Tabs |-> Outdated(calls[u] \ (IF u = t THEN {c} ELSE {}))]
           /\ UNCHANGED <<marker, inbox, attempt, screen, ended>>
           /\ \/ stored' = "active" /\ Arm(t) /\ c.kind = "refresh" /\ c.current
              \/ stored' = "anonymous" /\ StopRefresh(t)
  <2>1. RestType'
    BY <1>1, <1>4 DEF RestType, Classes, Lives
  <2>2. CallsFrom /\ \A u \in Tabs \ {t} : Renews(calls[u]) => Renews(calls'[u])
    BY <1>4, AnsweredEverywhere
  <2>3. RenewalType' /\ TimerInv'
    BY <1>1, <1>4, <2>2, LoopStopped, LoopArmed
  <2>4. CurrentInv'
    BY <1>4, <2>2, CurrentFrom
  <2>5. SignedOutStays'
    BY <1>4 DEF SignedOutStays, HasToken, CurrentInv
  <2> QED
    BY <2>1, <2>2, <2>3, <2>4, <2>5, CallsFromType, SessionTypes
<1>5. CASE RefreshMoot(t, c)
  BY <1>3, <1>5 DEF RefreshMoot, storage
<1>6. CASE Refreshed(t, c)
  BY <1>4, <1>6 DEF Refreshed
<1>7. CASE RefreshFailed(t, c)
  BY <1>2, <1>3, <1>7 DEF RefreshFailed, storage
<1>8. CASE RefreshRefused(t, c)
  BY <1>4, <1>8 DEF RefreshRefused
<1>9. CASE OldRefreshRefused(t, c)
  BY <1>2, <1>9 DEF OldRefreshRefused
<1> QED
  BY <1>5, <1>6, <1>7, <1>8, <1>9

\* Other answers.
LEMMA OtherStep ==
  ASSUME SessionInv, NEW t \in Tabs, NEW c \in calls[t],
         RequestAnswered(t, c) \/ RequestRefused(t, c)
  PROVE  SessionInv'
<1> USE DEF SessionInv
<1>1. RestType /\ CallsType /\ RenewalType
  BY SessionTypes
<1>2. /\ UNCHANGED <<marker, inbox, attempt, renewal, screen, ended>> /\ c.kind # "refresh"
      /\ stored' \in {stored, "anonymous"}
  BY DEF RequestAnswered, RequestRefused, storage
<1>3. RestType'
  BY <1>1, <1>2 DEF RestType, Classes
<1>4. CallsFrom /\ \A u \in Tabs : Renews(calls[u]) => Renews(calls'[u])
  BY <1>2, AnsweredCalls, AnsweredEverywhere DEF RequestAnswered, RequestRefused
<1>5. CurrentInv'
  BY <1>2, <1>4, CurrentFrom
<1>6. SignedOutStays'
  BY <1>2 DEF SignedOutStays, HasToken
<1> QED
  BY <1>1, <1>2, <1>3, <1>4, <1>5, <1>6, CallsFromType, TimersStay, SessionTypes

LEMMA AgeStep ==
  ASSUME SessionInv, Age
  PROVE  SessionInv'
<1> USE DEF SessionInv
<1>1. RestType /\ CallsType /\ RenewalType
  BY SessionTypes
<1>2. /\ UNCHANGED <<marker, inbox, attempt, calls, renewal, screen, ended>>
      /\ stored' \in {"expiring", "expired"} /\ stored # "anonymous"
  BY DEF Age, Live
<1>3. RestType'
  BY <1>1, <1>2 DEF RestType, Classes, Lives
<1>4. CurrentInv' /\ SignedOutStays'
  BY <1>2 DEF CurrentInv, SignedOutStays, HasToken
<1> QED
  BY <1>1, <1>2, <1>3, <1>4, CallsStay, CallsFromType, TimersStay, SessionTypes

LEMMA SessionStep == SessionInv /\ [SessionNext]_sessionVars => SessionInv'
<1> SUFFICES ASSUME SessionInv, [SessionNext]_sessionVars PROVE SessionInv'
  OBVIOUS
<1>1. CASE UNCHANGED sessionVars
  <2>1. UNCHANGED <<stored, marker, inbox, attempt, calls, renewal, screen, ended>>
    BY <1>1 DEF sessionVars, storage
  <2>2. RestType /\ CallsType /\ RenewalType
    BY SessionTypes DEF SessionInv
  <2>3. RestType' /\ CallsType'
    BY <2>1, <2>2 DEF RestType, CallsType
  <2>4. RenewalType' /\ TimerInv'
    BY <2>1, <2>2, CallsStay, TimersStay DEF SessionInv
  <2>5. CurrentInv' /\ SignedOutStays'
    BY <2>1 DEF SessionInv, CurrentInv, SignedOutStays, HasToken
  <2> QED
    BY <2>3, <2>4, <2>5, SessionTypes DEF SessionInv
<1>2. CASE SessionNext
  BY <1>2, TabStep, EndStep, SignInStep, RenewStep, OtherStep, AgeStep
     DEF SessionNext, Tick, Reply
<1> QED
  BY <1>1, <1>2

LEMMA SessionStart == SessionInit => SessionInv
<1> SUFFICES ASSUME SessionInit PROVE SessionInv
  OBVIOUS
<1>1. RestType
  <2>1. 0 \in 0..MaxEvents
    BY SessionBounds
  <2>2. inbox \in [Tabs -> 0..MaxEvents]
    BY <2>1 DEF SessionInit
  <2> QED
    BY <2>2 DEF SessionInit, RestType, Classes
<1>2. CallsType /\ RenewalType
  BY DEF SessionInit, CallsType, RenewalType
<1>3. TimerInv /\ CurrentInv /\ SignedOutStays
  BY DEF SessionInit, TimerInv, CurrentInv, SignedOutStays, HasToken
<1> QED
  BY <1>1, <1>2, <1>3, SessionTypes DEF SessionInv

LEMMA SessionInductive == SessionSpec => []SessionInv
BY SessionStart, SessionStep, PTL DEF SessionSpec

\* Once every tab has ended its session, no answer that was in flight in any of them
\* puts one back (invalidateAuthWrites), for any number of tabs and renewal loops.
THEOREM SignedOutForGood == SessionSpec => []SignedOutStays
<1>1. SessionInv => SignedOutStays
  BY DEF SessionInv
<1> QED
  BY <1>1, SessionInductive, PTL

\* A tab that means to keep a session alive has a timer armed or a renewal under way,
\* however navigations, sign-ins, sign-outs and late answers start and stop its loop.
THEOREM LoopAlive == SessionSpec => []RenewalPending
<1>1. SessionInv => RenewalPending
  <2>1. SessionInv => \A t \in Tabs : state[t] \in {"anonymous", "live", "refreshing"}
    BY DEF SessionInv, SessionTypeOK
  <2> QED
    BY <2>1 DEF SessionInv, TimerInv, RenewalPending
<1> QED
  BY <1>1, SessionInductive, PTL

\* A live session ends only for one of the reasons the code means: no late 401, no
\* abandoned sign-in, navigation or stray timer ends it.
THEOREM EndsForReason == SessionSpec => EndedForReason
<1> DEFINE Reason == \E t \in Tabs :
         \/ SignOut(t) \/ StorageEvent(t)
         \/ \E c \in calls[t] : SignInRefused(t, c) \/ RefreshRefused(t, c) \/ OldRefreshRefused(t, c)
<1>1. ASSUME [SessionNext]_sessionVars, Live, stored' = "anonymous"
      PROVE  Reason
  <2>1. stored' # stored
    BY <1>1 DEF Live
  <2>2. CASE Age
    BY <1>1, <2>2 DEF Age
  <2>3. ASSUME NEW t \in Tabs,
               \/ StartLogin(t) \/ Verify(t) \/ Abandon(t) \/ Navigate(t) \/ Tick(t) \/ Request(t)
        PROVE  FALSE
    BY <1>1, <2>1, <2>3 DEF StartLogin, Verify, Abandon, Navigate, Tick, TickExpired, TickWaits,
      TickRefreshes, Request, storage, Live
  <2>4. ASSUME NEW t \in Tabs, NEW c \in calls[t],
               \/ SignedIn(t, c) \/ NotSignedIn(t, c) \/ LateAnswer(t, c) \/ RefreshMoot(t, c)
               \/ Refreshed(t, c) \/ RefreshFailed(t, c) \/ RequestAnswered(t, c)
               \/ RequestRefused(t, c)
        PROVE  FALSE
    BY <1>1, <2>1, <2>4 DEF SignedIn, NotSignedIn, LateAnswer, RefreshMoot, Refreshed,
      RefreshFailed, EndSession, Forget, RequestAnswered, RequestRefused, RefusalClears,
      storage, Live, HasToken
  <2>5. ~UNCHANGED sessionVars
    BY <2>1 DEF sessionVars, storage
  <2> HIDE DEF Reason
  <2>6. ASSUME NEW t \in Tabs, SignOut(t) \/ StorageEvent(t) PROVE Reason
    BY <2>6 DEF Reason
  <2>7. ASSUME NEW t \in Tabs, NEW c \in calls[t],
               SignInRefused(t, c) \/ RefreshRefused(t, c) \/ OldRefreshRefused(t, c)
        PROVE  Reason
    BY <2>7 DEF Reason
  <2> QED
    BY <1>1, <2>2, <2>3, <2>4, <2>5, <2>6, <2>7 DEF SessionNext, Reply
<1>2. [SessionNext]_sessionVars => [Live /\ stored' = "anonymous" => Reason]_sessionVars
  BY <1>1
<1> QED
  BY <1>2, PTL DEF SessionSpec, EndedForReason
=============================================================================
