-------------------------- MODULE Onboarding_proof --------------------------
(***************************************************************************)
(* Proofs about Onboarding: one request at a time claims a quote, and a    *)
(* quote whose payment is under way or done is forgotten only when its key *)
(* was stored or the owner has it so, for any number of requests and       *)
(* quotes.                                                                 *)
(***************************************************************************)
EXTENDS Onboarding, SequenceTheorems, TLAPS

InLine(r) == tasks[r].op \in {"pay", "recover"}
Claiming(r) == InLine(r) /\ tasks[r].step # "queued"
Quoting(r) == tasks[r].op = "put" /\ tasks[r].file = "routstr_pending"

\* Those in line are the requests that pay or recover, each once, and only the
\* first of them is past the mutex.
LineInv ==
  /\ \A r \in Requests : InLine(r) <=> \E i \in 1..Len(line) : line[i] = r
  /\ \A i, j \in 1..Len(line) : line[i] = line[j] => i = j
  /\ \A r \in Requests : Claiming(r) => line[1] = r

\* What a request has in hand at each step.
TaskOK(r) ==
  /\ InLine(r) => tasks[r].step \in {"queued", "read", "sent", "paid", "remote", "write", "remove"}
  /\ Claiming(r) => tasks[r].file = "routstr_key" /\ tasks[r].value \in Quotes
  /\ Claiming(r) /\ tasks[r].step = "remove" => tasks[r].value \in claimed
  /\ InLine(r) /\ ~Claiming(r) => tasks[r].file = None
  /\ tasks[r].op = "put" => /\ tasks[r].step \in {"remote", "write"}
                            /\ tasks[r].file \in Records /\ tasks[r].value \in Values[tasks[r].file]
  /\ tasks[r].op = "idle" => tasks[r] = Idle
  /\ tasks[r].op = "disconnect" => tasks[r].file = None /\ tasks[r].step = "remove"

TaskInv == \A r \in Requests : TaskOK(r)

\* A quote is put on record once, by one request, and before anybody pays it.  So one
\* that has replaced the quote of a claim under way has not been paid.
QuoteInv ==
  /\ \A r \in Requests : Quoting(r) =>
       /\ invoice[tasks[r].value] \in {"open", "expired"}
       /\ disk["routstr_pending"] # tasks[r].value
       /\ \A u \in Requests : Quoting(u) /\ tasks[u].value = tasks[r].value => u = r
       /\ \A u \in Requests : Claiming(u) => tasks[u].value # tasks[r].value
  /\ \A r \in Requests : Claiming(r) =>
       /\ invoice[tasks[r].value] # "none"
       /\ \A q \in Quotes : disk["routstr_pending"] = q /\ q # tasks[r].value
                            => invoice[q] \in {"open", "expired"}
  /\ \A q \in Quotes : disk["routstr_pending"] = q => invoice[q] # "none"

IInv == TypeOK /\ LineInv /\ TaskInv /\ QuoteInv

(***************************************************************************)
(* Types.                                                                  *)
(***************************************************************************)
LEMMA ValueSets ==
  /\ Values["nwc"] = {"pays", "receives"}
  /\ Values["routstr_key"] = Quotes \cup {Own}
  /\ Values["routstr_pending"] = Quotes
BY DEF Values

TaskValues == (UNION {Values[f] : f \in Records}) \cup {None}

LEMMA ValuesType == \A f \in Records : Values[f] \subseteq TaskValues
BY DEF TaskValues

Steps == {"done", "remote", "queued", "read", "sent", "paid", "write", "remove"}

LEMMA TasksType ==
  Tasks = [op : {"idle", "put", "disconnect", "pay", "recover"}, file : Records \cup {None},
           value : TaskValues, step : Steps]
BY DEF Tasks, TaskValues, Steps

DiskType == DOMAIN disk = Records /\ \A f \in Records : disk[f] \in Values[f] \cup {None, Torn}
InvoiceType == invoice \in [Quotes -> {"none", "open", "sent", "paid", "expired"}]
TaskType == tasks \in [Requests -> Tasks]
LineType == line \in Seq(Requests)

LEMMA Types ==
  /\ TypeOK <=> DiskType /\ InvoiceType /\ TaskType /\ LineType /\ claimed \subseteq Quotes
  /\ TypeOK' <=> DiskType' /\ InvoiceType' /\ TaskType' /\ LineType' /\ claimed' \subseteq Quotes
<1>1. TypeOK <=> DiskType /\ InvoiceType /\ TaskType /\ LineType /\ claimed \subseteq Quotes
  BY DEF TypeOK, DiskType, InvoiceType, TaskType, LineType
<1>2. TypeOK' <=> DiskType' /\ InvoiceType' /\ TaskType' /\ LineType' /\ claimed' \subseteq Quotes
  BY DEF TypeOK, DiskType, InvoiceType, TaskType, LineType
<1> QED
  BY <1>1, <1>2

\* A request that begins, goes on or leaves keeps the type of the requests.
LEMMA BeginType ==
  ASSUME TaskType, NEW r \in Requests, NEW t \in Tasks, Begin(r, t)
  PROVE  TaskType'
BY DEF TaskType, Begin

LEMMA GoType ==
  ASSUME TaskType, NEW r \in Requests, NEW s \in Steps, Go(r, s)
  PROVE  TaskType'
BY TasksType DEF TaskType, Go

LEMMA IdleType == Idle \in Tasks
BY TasksType DEF Idle, Steps, TaskValues

LEMMA LeaveType ==
  ASSUME TaskType, LineType, NEW r \in Requests, Leave(r)
  PROVE  TaskType' /\ LineType'
BY IdleType, HeadTailProperties DEF TaskType, LineType, Leave

LEMMA PutType ==
  ASSUME NEW f \in Records, NEW v \in Values[f]
  PROVE  Put(f, v) \in Tasks
BY TasksType, ValuesType DEF Put, Steps

\* One record changes, to a value of its own.
LEMMA DiskStep ==
  ASSUME DiskType, NEW f \in Records, NEW v \in Values[f] \cup {None, Torn},
         disk' = [disk EXCEPT ![f] = v]
  PROVE  DiskType'
BY DEF DiskType

\* Every step keeps the types.
LEMMA TypeStep ==
  ASSUME TypeOK, LineInv, TaskInv, [Next]_vars
  PROVE  TypeOK'
<1> USE Types
<1>1. ASSUME NEW r \in Requests, WalletConnect(r) PROVE TypeOK'
  <2>1. PICK v \in Values["nwc"] : Begin(r, Put("nwc", v))
    BY <1>1 DEF WalletConnect
  <2>2. TaskType'
    BY <2>1, PutType, BeginType DEF Records
  <2> QED
    BY <1>1, <2>2 DEF WalletConnect, DiskType, InvoiceType, LineType
<1>2. ASSUME WalletDisconnect PROVE TypeOK'
  BY <1>2, DiskStep DEF WalletDisconnect, Records, InvoiceType, TaskType, LineType
<1>3. ASSUME NEW r \in Requests, RoutstrKey(r) \/ RoutstrExportKey(r) PROVE TypeOK'
  <2>1. \E v \in Values["routstr_key"] : Begin(r, Put("routstr_key", v))
    BY <1>3, ValueSets DEF RoutstrKey, RoutstrExportKey
  <2>2. TaskType'
    BY <2>1, PutType, BeginType DEF Records
  <2> QED
    BY <1>3, <2>2 DEF RoutstrKey, RoutstrExportKey, DiskType, InvoiceType, LineType
<1>4. ASSUME NEW r \in Requests, RoutstrQuote(r) PROVE TypeOK'
  <2>1. PICK q \in Quotes : /\ invoice' = [invoice EXCEPT ![q] = "open"]
                            /\ Begin(r, Put("routstr_pending", q)) \/ UNCHANGED tasks
    BY <1>4 DEF RoutstrQuote
  <2>2. TaskType'
    BY <2>1, PutType, BeginType, ValueSets DEF Records, TaskType
  <2> QED
    BY <1>4, <2>1, <2>2 DEF RoutstrQuote, DiskType, InvoiceType, LineType
<1>5. ASSUME NEW r \in Requests, RoutstrDisconnect(r) PROVE TypeOK'
  <2>1. [Idle EXCEPT !.op = "disconnect", !.step = "remove"] \in Tasks
    BY IdleType, TasksType DEF Steps
  <2>2. TaskType'
    BY <1>5, <2>1, BeginType DEF RoutstrDisconnect
  <2>3. DiskType'
    BY <1>5, DiskStep DEF RoutstrDisconnect, Records
  <2> QED
    BY <1>5, <2>2, <2>3 DEF RoutstrDisconnect, InvoiceType, LineType
<1>6. ASSUME NEW r \in Requests, DisconnectPending(r) PROVE TypeOK'
  <2>1. TaskType' /\ LineType'
    BY <1>6, LeaveType DEF DisconnectPending
  <2>2. DiskType'
    BY <1>6, DiskStep DEF DisconnectPending, Records
  <2> QED
    BY <1>6, <2>1, <2>2 DEF DisconnectPending, InvoiceType
<1>7. ASSUME NEW r \in Requests, NEW op \in {"pay", "recover"}, Enqueue(r, op) PROVE TypeOK'
  <2>1. [Idle EXCEPT !.op = op, !.step = "queued"] \in Tasks
    BY IdleType, TasksType DEF Steps
  <2>2. TaskType'
    BY <1>7, <2>1, BeginType DEF Enqueue
  <2> QED
    BY <1>7, <2>2 DEF Enqueue, DiskType, InvoiceType, LineType
<1>8. ASSUME NEW r \in Requests, WriteStarts(r) PROVE TypeOK'
  <2>1. TaskType'
    BY <1>8, GoType DEF WriteStarts, Steps
  <2>2. DiskType'
    BY <1>8, DiskStep DEF WriteStarts
  <2> QED
    BY <1>8, <2>1, <2>2 DEF WriteStarts, InvoiceType, LineType
<1>9. ASSUME NEW r \in Requests, WriteEnds(r) PROVE TypeOK'
  <2>1. /\ tasks[r].file \in Records /\ tasks[r].value \in Values[tasks[r].file]
        /\ tasks[r].op # "put" => tasks[r].value \in Quotes
    BY <1>9, ValueSets DEF WriteEnds, TaskInv, TaskOK, Claiming, InLine, Idle, Records, TaskType, Tasks
  <2>2. DiskType'
    BY <1>9, <2>1, DiskStep DEF WriteEnds, Written
  <2>3. TaskType' /\ LineType' /\ claimed' \subseteq Quotes
    <3>1. CASE tasks[r].op = "put"
      BY <1>9, <3>1, LeaveType DEF WriteEnds
    <3>2. CASE tasks[r].op # "put"
      BY <1>9, <2>1, <3>2, GoType DEF WriteEnds, Steps, LineType
    <3> QED
      BY <3>1, <3>2
  <2> QED
    BY <1>9, <2>2, <2>3 DEF WriteEnds, InvoiceType
<1>10. ASSUME NEW r \in Requests,
              WriteFails(r) \/ Refused(r) \/ NotSent(r) \/ NotPaid(r) \/ NotClaimed(r)
       PROVE  TypeOK'
  <2>1. TaskType' /\ LineType'
    BY <1>10, LeaveType DEF WriteFails, Refused, NotSent, NotPaid, NotClaimed, LeaveFailed
  <2> QED
    BY <1>10, <2>1 DEF WriteFails, Refused, NotSent, NotPaid, NotClaimed, DiskType, InvoiceType
<1>11. ASSUME NEW r \in Requests, Enter(r) PROVE TypeOK'
  <2>1. disk["routstr_pending"] \in TaskValues
    BY <1>11, ValuesType, ValueSets DEF Enter, Records
  <2>2. TaskType'
    BY <1>11, <2>1, TasksType DEF Enter, TaskType, Records, Steps
  <2> QED
    BY <1>11, <2>2 DEF Enter, DiskType, InvoiceType, LineType
<1>12. ASSUME NEW r \in Requests, Send(r) PROVE TypeOK'
  <2>1. TaskType'
    BY <1>12, GoType DEF Send, Steps
  <2> QED
    BY <1>12, <2>1 DEF Send, DiskType, InvoiceType, LineType
<1>13. ASSUME NEW r \in Requests, Paid(r) \/ Claim(r) PROVE TypeOK'
  <2>1. TaskType'
    BY <1>13, GoType DEF Paid, Claim, Steps
  <2> QED
    BY <1>13, <2>1 DEF Paid, Claim, DiskType, InvoiceType, LineType
<1>14. ASSUME NEW r \in Requests, RemovePending(r) PROVE TypeOK'
  <2>1. TaskType' /\ LineType'
    BY <1>14, LeaveType DEF RemovePending
  <2>2. DiskType'
    BY <1>14, DiskStep DEF RemovePending, Records, DiskType
  <2> QED
    BY <1>14, <2>1, <2>2 DEF RemovePending, InvoiceType
<1>15. ASSUME NEW q \in Quotes, Lightning(q) PROVE TypeOK'
  BY <1>15 DEF Lightning, Moves, DiskType, InvoiceType, TaskType, LineType
<1>16. ASSUME Crash PROVE TypeOK'
  BY <1>16, IdleType DEF Crash, DiskType, InvoiceType, TaskType, LineType
<1>17. ASSUME UNCHANGED vars PROVE TypeOK'
  BY <1>17 DEF vars, DiskType, InvoiceType, TaskType, LineType
<1> QED
  BY <1>1, <1>2, <1>3, <1>4, <1>5, <1>6, <1>7, <1>8, <1>9, <1>10, <1>11, <1>12, <1>13, <1>14,
     <1>15, <1>16, <1>17 DEF Next, Ask, Continue, WalletTest

(***************************************************************************)
(* The mutex.                                                              *)
(***************************************************************************)
\* Nothing changes in line when nobody enters, leaves or gets past the mutex but its
\* first.
LEMMA LineKept ==
  ASSUME LineType, LineInv, line' = line,
         \A u \in Requests : (InLine(u))' <=> InLine(u),
         \A u \in Requests : (Claiming(u))' => Claiming(u) \/ line[1] = u
  PROVE  LineInv'
BY DEF LineInv

LEMMA Joins ==
  ASSUME LineType, LineInv, NEW r \in Requests, ~InLine(r), line' = Append(line, r),
         (InLine(r))' /\ ~(Claiming(r))',
         \A u \in Requests \ {r} : ((InLine(u))' <=> InLine(u)) /\ ((Claiming(u))' <=> Claiming(u))
  PROVE  LineInv'
<1>1. /\ Len(line) \in Nat /\ Len(line') = Len(line) + 1
      /\ line'[Len(line) + 1] = r
      /\ \A i \in 1..Len(line) : line'[i] = line[i] /\ line[i] \in Requests
  BY DEF LineType
<1>2. \A i \in 1..Len(line) : line[i] # r
  BY <1>1 DEF LineInv
<1>3. ASSUME NEW u \in Requests PROVE (InLine(u))' <=> \E i \in 1..Len(line') : line'[i] = u
  <2>1. CASE u = r
    BY <1>1, <2>1
  <2>2. CASE u # r
    <3>1. (InLine(u))' <=> \E i \in 1..Len(line) : line[i] = u
      BY <2>2 DEF LineInv
    <3> QED
      BY <1>1, <2>2, <3>1
  <2> QED
    BY <2>1, <2>2
<1>4. \A i, j \in 1..Len(line') : line'[i] = line'[j] => i = j
  BY <1>1, <1>2 DEF LineInv
<1>5. ASSUME NEW u \in Requests, (Claiming(u))' PROVE line'[1] = u
  <2>1. Claiming(u) /\ InLine(u)
    BY <1>5 DEF Claiming
  <2>2. \E i \in 1..Len(line) : line[i] = u
    BY <2>1 DEF LineInv
  <2> QED
    BY <1>1, <2>1, <2>2 DEF LineInv
<1> QED
  BY <1>3, <1>4, <1>5 DEF LineInv

LEMMA Leaves ==
  ASSUME TaskType, LineType, LineInv, NEW r \in Requests, Leave(r), InLine(r) => line[1] = r
  PROVE  LineInv' /\ (InLine(r) => line # <<>>)
<1>1. /\ tasks'[r] = Idle /\ \A u \in Requests \ {r} : tasks'[u] = tasks[u]
  BY DEF TaskType, Leave
<1>2. ~(InLine(r))' /\ ~(Claiming(r))'
  BY <1>1 DEF InLine, Claiming, Idle
<1>3. \A u \in Requests \ {r} : ((InLine(u))' <=> InLine(u)) /\ ((Claiming(u))' <=> Claiming(u))
  BY <1>1 DEF InLine, Claiming
<1>4. Len(line) \in Nat /\ (line # <<>> => Len(line) > 0 /\ Head(line) = line[1])
  BY HeadTailProperties, EmptySeq DEF LineType
<1>5. CASE ~InLine(r)
  <2>1. line' = line
    <3>1. \A i \in 1..Len(line) : line[i] # r
      BY <1>5 DEF LineInv
    <3> QED
      BY <1>4, <3>1 DEF Leave
  <2>2. (\A u \in Requests : (InLine(u))' <=> InLine(u))
        /\ \A u \in Requests : (Claiming(u))' => Claiming(u) \/ line[1] = u
    BY <1>2, <1>3, <1>5
  <2> QED
    BY <1>5, <2>1, <2>2, LineKept
<1>6. CASE InLine(r)
  <2>1. line # <<>>
    <3>1. \E i \in 1..Len(line) : line[i] = r
      BY <1>6 DEF LineInv
    <3> QED
      BY <1>4, <3>1
  <2>2. line' = Tail(line) /\ line[1] = r
    BY <1>4, <1>6, <2>1 DEF Leave
  <2>3. /\ Len(line') = Len(line) - 1
        /\ \A i \in 1..Len(line') : i + 1 \in 1..Len(line) /\ line'[i] = line[i + 1]
    BY <1>4, <2>1, <2>2, HeadTailProperties DEF LineType
  <2>4. \A i \in 1..Len(line') : line'[i] # r
    BY <1>4, <2>1, <2>2, <2>3 DEF LineInv
  <2>5. \A i, j \in 1..Len(line') : line'[i] = line'[j] => i = j
    BY <1>4, <2>3 DEF LineInv
  <2>6. ASSUME NEW u \in Requests PROVE (InLine(u))' <=> \E i \in 1..Len(line') : line'[i] = u
    <3>1. CASE u = r
      BY <1>2, <2>4, <3>1
    <3>2. CASE u # r
      <4>1. InLine(u) <=> \E i \in 1..Len(line) : line[i] = u
        BY DEF LineInv
      <4>2. ASSUME NEW i \in 1..Len(line), line[i] = u PROVE \E j \in 1..Len(line') : line'[j] = u
        <5>1. i - 1 \in 1..Len(line')
          BY <1>4, <2>2, <2>3, <3>2, <4>2
        <5>2. line'[i - 1] = u
          BY <2>3, <4>2, <5>1
        <5> QED
          BY <5>1, <5>2
      <4>3. ASSUME NEW j \in 1..Len(line'), line'[j] = u PROVE \E i \in 1..Len(line) : line[i] = u
        BY <2>3, <4>3
      <4> QED
        BY <1>3, <3>2, <4>1, <4>2, <4>3
    <3> QED
      BY <3>1, <3>2
  <2>7. \A u \in Requests : ~(Claiming(u))'
    BY <1>2, <1>3, <2>2 DEF LineInv
  <2> QED
    BY <2>1, <2>5, <2>6, <2>7 DEF LineInv
<1> QED
  BY <1>5, <1>6

LEMMA BeginFields ==
  ASSUME TaskType, NEW r \in Requests, NEW t, Begin(r, t)
  PROVE  tasks[r] = Idle /\ tasks'[r] = t /\ \A u \in Requests \ {r} : tasks'[u] = tasks[u]
BY DEF TaskType, Begin

LEMMA GoFields ==
  ASSUME TaskType, NEW r \in Requests, NEW s, Go(r, s)
  PROVE  /\ tasks'[r].op = tasks[r].op /\ tasks'[r].file = tasks[r].file
         /\ tasks'[r].value = tasks[r].value /\ tasks'[r].step = s
         /\ \A u \in Requests \ {r} : tasks'[u] = tasks[u]
BY TasksType DEF TaskType, Go

LEMMA LeaveFields ==
  ASSUME TaskType, NEW r \in Requests, Leave(r)
  PROVE  tasks'[r] = Idle /\ \A u \in Requests \ {r} : tasks'[u] = tasks[u]
BY DEF TaskType, Leave

\* A request that pays or recovers leaves from the head of the line.
LEMMA Departs ==
  ASSUME TypeOK, LineInv, TaskInv, NEW r \in Requests,
         \/ DisconnectPending(r) \/ WriteFails(r) \/ Refused(r) \/ NotSent(r) \/ NotPaid(r)
         \/ NotClaimed(r) \/ RemovePending(r)
         \/ WriteEnds(r) /\ tasks[r].op = "put"
  PROVE  Leave(r) /\ (InLine(r) => line[1] = r)
<1>1. Leave(r)
  BY DEF DisconnectPending, WriteFails, Refused, NotSent, NotPaid, NotClaimed, RemovePending,
         WriteEnds, LeaveFailed
<1>2. ASSUME InLine(r), tasks[r].step # "queued" PROVE line[1] = r
  BY <1>2 DEF LineInv, Claiming
<1>3. ASSUME InLine(r), Refused(r) PROVE line[1] = r
  <2>1. line # <<>>
    BY <1>3, EmptySeq DEF LineInv
  <2> QED
    BY <1>3, <2>1, HeadTailProperties, Types DEF Refused, MyTurn, LineType
<1>4. tasks[r].step = "queued" => Refused(r) \/ ~InLine(r)
  BY DEF DisconnectPending, WriteFails, NotSent, NotPaid, NotClaimed, RemovePending, WriteEnds,
         At, Asks, InLine
<1> QED
  BY <1>1, <1>2, <1>3, <1>4

LEMMA LineStep ==
  ASSUME TypeOK, LineInv, TaskInv, [Next]_vars
  PROVE  LineInv'
<1> USE Types
<1>0. ASSUME NEW r \in Requests, NEW t, Begin(r, t), t.op \in {"put", "disconnect"}, line' = line
      PROVE  LineInv'
  <2>1. \A u \in Requests : ((InLine(u))' <=> InLine(u)) /\ ((Claiming(u))' <=> Claiming(u))
    BY <1>0, BeginFields DEF InLine, Claiming, Idle
  <2> QED
    BY <1>0, <2>1, LineKept
<1>1. ASSUME NEW r \in Requests,
             WalletConnect(r) \/ RoutstrKey(r) \/ RoutstrExportKey(r) \/ RoutstrQuote(r)
             \/ RoutstrDisconnect(r)
      PROVE  LineInv'
  <2>1. line' = line
    BY <1>1 DEF WalletConnect, RoutstrKey, RoutstrExportKey, RoutstrQuote, RoutstrDisconnect
  <2>2. \A f, v : Put(f, v).op = "put"
    BY DEF Put
  <2>3. CASE tasks' = tasks
    BY <2>1, <2>3 DEF LineInv, InLine, Claiming
  <2>4. CASE \E f, v : Begin(r, Put(f, v))
    BY <1>0, <2>1, <2>2, <2>4
  <2>5. CASE RoutstrDisconnect(r)
    <3>1. [Idle EXCEPT !.op = "disconnect", !.step = "remove"].op = "disconnect"
      BY DEF Idle
    <3> QED
      BY <1>0, <2>1, <2>5, <3>1 DEF RoutstrDisconnect
  <2> QED
    BY <1>1, <2>3, <2>4, <2>5 DEF WalletConnect, RoutstrKey, RoutstrExportKey, RoutstrQuote
<1>2. ASSUME NEW r \in Requests, NEW op \in {"pay", "recover"}, Enqueue(r, op) PROVE LineInv'
  <2>1. /\ tasks[r] = Idle /\ tasks'[r].op = op /\ tasks'[r].step = "queued"
        /\ \A u \in Requests \ {r} : tasks'[u] = tasks[u]
    BY <1>2, BeginFields DEF Enqueue, Idle
  <2>2. ~InLine(r) /\ (InLine(r))' /\ ~(Claiming(r))'
    BY <2>1 DEF InLine, Claiming, Idle
  <2>3. \A u \in Requests \ {r} : ((InLine(u))' <=> InLine(u)) /\ ((Claiming(u))' <=> Claiming(u))
    BY <2>1 DEF InLine, Claiming
  <2> QED
    BY <1>2, <2>2, <2>3, Joins DEF Enqueue
<1>3. ASSUME NEW r \in Requests, NEW s \in Steps \ {"queued"}, Go(r, s), line' = line,
             tasks[r].step # "queued"
      PROVE  LineInv'
  <2>1. \A u \in Requests : ((InLine(u))' <=> InLine(u)) /\ ((Claiming(u))' <=> Claiming(u))
    BY <1>3, GoFields DEF InLine, Claiming
  <2> QED
    BY <1>3, <2>1, LineKept
<1>4. ASSUME NEW r \in Requests,
             WriteStarts(r) \/ Send(r) \/ Paid(r) \/ Claim(r) \/ (WriteEnds(r) /\ tasks[r].op # "put")
      PROVE  LineInv'
  BY <1>3, <1>4 DEF WriteStarts, Send, Paid, Claim, WriteEnds, Steps, At, Asks
<1>5. ASSUME NEW r \in Requests, Leave(r), InLine(r) => line[1] = r PROVE LineInv'
  BY <1>5, Leaves
<1>6. ASSUME NEW r \in Requests, Enter(r) PROVE LineInv'
  <2>1. line' = line /\ tasks[r].step = "queued" /\ Head(line) = r
    BY <1>6 DEF Enter, MyTurn
  <2>2. /\ tasks'[r].op = tasks[r].op
        /\ \A u \in Requests \ {r} : tasks'[u] = tasks[u]
    BY <1>6 DEF Enter, TaskType
  <2>3. InLine(r) => line[1] = r
    <3>1. InLine(r) => line # <<>>
      BY EmptySeq DEF LineInv
    <3> QED
      BY <2>1, <3>1, HeadTailProperties DEF LineType
  <2>4. \A u \in Requests : ((InLine(u))' <=> InLine(u)) /\ ((Claiming(u))' => Claiming(u) \/ line[1] = u)
    BY <2>2, <2>3 DEF InLine, Claiming
  <2> QED
    BY <2>1, <2>4, LineKept
<1>7. ASSUME Crash PROVE LineInv'
  <2>1. Len(line') = 0 /\ \A u \in Requests : tasks'[u] = Idle
    BY <1>7 DEF Crash
  <2> QED
    BY <2>1 DEF LineInv, InLine, Claiming, Idle
<1>8. ASSUME UNCHANGED <<tasks, line>> PROVE LineInv'
  BY <1>8 DEF LineInv, InLine, Claiming
<1>9. CASE WalletDisconnect \/ UNCHANGED vars \/ \E q \in Quotes : Lightning(q)
  BY <1>8, <1>9 DEF WalletDisconnect, Lightning, vars
<1> QED
  BY <1>1, <1>2, <1>4, <1>5, <1>6, <1>7, <1>9, Departs DEF Next, Ask, Continue, WalletTest

(***************************************************************************)
(* What the requests have in hand.                                         *)
(***************************************************************************)
\* Only the request that takes a step has something else in hand.
LEMMA OneTask ==
  ASSUME TaskInv, claimed \subseteq claimed', NEW r \in Requests, (TaskOK(r))',
         \A u \in Requests \ {r} : tasks'[u] = tasks[u]
  PROVE  TaskInv'
BY DEF TaskInv, TaskOK, InLine, Claiming

LEMMA IdleOK ==
  ASSUME NEW r \in Requests, tasks'[r] = Idle
  PROVE  (TaskOK(r))'
BY DEF TaskOK, Idle, InLine, Claiming

LEMMA PutOK ==
  ASSUME NEW r \in Requests, NEW f \in Records, NEW v \in Values[f], tasks'[r] = Put(f, v)
  PROVE  (TaskOK(r))'
BY DEF TaskOK, Put, InLine, Claiming

LEMMA TaskStep ==
  ASSUME TypeOK, LineInv, TaskInv, [Next]_vars
  PROVE  TaskInv'
<1> USE Types
<1>0. ASSUME NEW r \in Requests, NEW f \in Records, NEW v \in Values[f], Begin(r, Put(f, v)),
             UNCHANGED claimed
      PROVE  TaskInv'
  BY <1>0, BeginFields, PutOK, OneTask
<1>1. ASSUME NEW r \in Requests,
             WalletConnect(r) \/ RoutstrKey(r) \/ RoutstrExportKey(r) \/ RoutstrQuote(r)
      PROVE  TaskInv'
  <2>1. UNCHANGED claimed
    BY <1>1 DEF WalletConnect, RoutstrKey, RoutstrExportKey, RoutstrQuote
  <2>2. \/ \E f \in Records, v \in TaskValues : v \in Values[f] /\ Begin(r, Put(f, v))
        \/ UNCHANGED tasks
    BY <1>1, ValueSets, ValuesType DEF WalletConnect, RoutstrKey, RoutstrExportKey, RoutstrQuote, Records
  <2>3. CASE UNCHANGED tasks
    BY <2>1, <2>3 DEF TaskInv, TaskOK, InLine, Claiming
  <2> QED
    BY <1>0, <2>1, <2>2, <2>3
<1>2. ASSUME NEW r \in Requests, RoutstrDisconnect(r) PROVE TaskInv'
  <2>0. /\ tasks'[r] = [Idle EXCEPT !.op = "disconnect", !.step = "remove"]
        /\ \A u \in Requests \ {r} : tasks'[u] = tasks[u]
    BY <1>2, BeginFields DEF RoutstrDisconnect
  <2>1. tasks'[r].op = "disconnect" /\ tasks'[r].step = "remove" /\ tasks'[r].file = None
    BY <2>0 DEF Idle
  <2>2. (TaskOK(r))'
    BY <2>1 DEF TaskOK, InLine, Claiming
  <2> QED
    BY <1>2, <2>0, <2>2, OneTask DEF RoutstrDisconnect
<1>3. ASSUME NEW r \in Requests, NEW op \in {"pay", "recover"}, Enqueue(r, op) PROVE TaskInv'
  <2>0. /\ tasks'[r] = [Idle EXCEPT !.op = op, !.step = "queued"]
        /\ \A u \in Requests \ {r} : tasks'[u] = tasks[u]
    BY <1>3, BeginFields DEF Enqueue
  <2>1. tasks'[r].op = op /\ tasks'[r].step = "queued" /\ tasks'[r].file = None
    BY <2>0 DEF Idle
  <2>2. (TaskOK(r))'
    BY <2>1 DEF TaskOK, InLine, Claiming
  <2> QED
    BY <1>3, <2>0, <2>2, OneTask DEF Enqueue
<1>4. ASSUME NEW r \in Requests, NEW s \in {"sent", "paid", "remote", "write"}, Go(r, s),
             tasks[r].step # "queued", UNCHANGED claimed,
             tasks[r].op \in {"pay", "recover"} \/ (tasks[r].op = "put" /\ s = "write")
      PROVE  TaskInv'
  <2>1. (TaskOK(r))'
    BY <1>4, GoFields DEF TaskInv, TaskOK, InLine, Claiming
  <2> QED
    BY <1>4, <2>1, GoFields, OneTask
<1>5. ASSUME NEW r \in Requests, WriteStarts(r) \/ Send(r) \/ Paid(r) \/ Claim(r) PROVE TaskInv'
  <2>1. WriteStarts(r) => tasks[r].op \in {"pay", "recover", "put"}
    BY TasksType, Names DEF WriteStarts, TaskInv, TaskOK, TaskType, Idle
  <2> QED
    BY <1>4, <1>5, <2>1 DEF WriteStarts, Send, Paid, Claim, At, Asks
<1>6. ASSUME NEW r \in Requests, WriteEnds(r), tasks[r].op # "put" PROVE TaskInv'
  <2>1. Claiming(r)
    BY <1>6, TasksType DEF WriteEnds, TaskInv, TaskOK, TaskType, Idle, Claiming, InLine
  <2>2. Go(r, "remove") /\ claimed' = claimed \cup {tasks[r].value}
    BY <1>6 DEF WriteEnds
  <2>3. (TaskOK(r))'
    BY <2>1, <2>2, GoFields DEF TaskInv, TaskOK, InLine, Claiming
  <2> QED
    BY <2>2, <2>3, GoFields, OneTask
<1>7. ASSUME NEW r \in Requests, Leave(r), UNCHANGED claimed PROVE TaskInv'
  BY <1>7, LeaveFields, IdleOK, OneTask
<1>8. ASSUME NEW r \in Requests,
             \/ DisconnectPending(r) \/ WriteFails(r) \/ Refused(r) \/ NotSent(r) \/ NotPaid(r)
             \/ NotClaimed(r) \/ RemovePending(r)
             \/ WriteEnds(r) /\ tasks[r].op = "put"
      PROVE  TaskInv'
  <2>1. UNCHANGED claimed
    BY <1>8 DEF DisconnectPending, WriteFails, Refused, NotSent, NotPaid, NotClaimed, RemovePending,
                WriteEnds
  <2> QED
    BY <1>7, <1>8, <2>1, Departs
<1>9. ASSUME NEW r \in Requests, Enter(r) PROVE TaskInv'
  <2>1. /\ tasks'[r].op = tasks[r].op /\ tasks'[r].file = "routstr_key"
        /\ tasks'[r].value \in Quotes /\ tasks'[r].step = "read"
        /\ \A u \in Requests \ {r} : tasks'[u] = tasks[u]
    BY <1>9 DEF Enter, TaskType
  <2>2. tasks[r].op \in {"pay", "recover"}
    BY <1>9, TasksType DEF Enter, TaskInv, TaskOK, TaskType, Idle
  <2>3. (TaskOK(r))'
    BY <2>1, <2>2 DEF TaskOK, InLine, Claiming
  <2> QED
    BY <1>9, <2>1, <2>3, OneTask DEF Enter
<1>10. ASSUME Crash PROVE TaskInv'
  <2>1. \A u \in Requests : tasks'[u] = Idle
    BY <1>10 DEF Crash
  <2> QED
    BY <2>1, IdleOK DEF TaskInv
<1>11. CASE WalletDisconnect \/ UNCHANGED vars \/ \E q \in Quotes : Lightning(q)
  BY <1>11 DEF WalletDisconnect, Lightning, vars, TaskInv, TaskOK, InLine, Claiming
<1> QED
  BY <1>1, <1>2, <1>3, <1>5, <1>6, <1>8, <1>9, <1>10, <1>11 DEF Next, Ask, Continue, WalletTest

(***************************************************************************)
(* The quote on record.                                                    *)
(***************************************************************************)
Fresh(q) == invoice[q] \in {"open", "expired"}

\* Nothing is lost while no request begins to claim or to put a quote, no other quote is
\* on record, and no quote that was not paid is.
LEMMA QuoteKept ==
  ASSUME QuoteInv, TaskInv,
         \A u \in Requests : (Quoting(u))' => Quoting(u) /\ tasks'[u].value = tasks[u].value,
         \A u \in Requests : (Claiming(u))' => Claiming(u) /\ tasks'[u].value = tasks[u].value,
         disk'["routstr_pending"] = disk["routstr_pending"] \/ disk'["routstr_pending"] \notin Quotes,
         \A q \in Quotes : (Fresh(q) => (Fresh(q))') /\ (invoice[q] # "none" => invoice'[q] # "none")
  PROVE  QuoteInv'
<1>1. \A u \in Requests : (Quoting(u) => tasks[u].value \in Quotes) /\ (Claiming(u) => tasks[u].value \in Quotes)
  BY ValueSets DEF TaskInv, TaskOK, Quoting
<1>2. ASSUME NEW r \in Requests, (Quoting(r))'
      PROVE  /\ (Fresh(tasks[r].value))' /\ tasks'[r].value = tasks[r].value
             /\ disk'["routstr_pending"] # tasks[r].value
             /\ \A u \in Requests : (Quoting(u))' /\ tasks'[u].value = tasks[r].value => u = r
             /\ \A u \in Requests : (Claiming(u))' => tasks'[u].value # tasks[r].value
  BY <1>1, <1>2 DEF QuoteInv, Fresh
<1>3. ASSUME NEW r \in Requests, (Claiming(r))'
      PROVE  /\ invoice'[tasks[r].value] # "none" /\ tasks'[r].value = tasks[r].value
             /\ \A q \in Quotes : disk'["routstr_pending"] = q /\ q # tasks[r].value => (Fresh(q))'
  BY <1>1, <1>3 DEF QuoteInv, Fresh
<1>4. \A q \in Quotes : disk'["routstr_pending"] = q => invoice'[q] # "none"
  BY DEF QuoteInv
<1> QED
  BY <1>2, <1>3, <1>4 DEF QuoteInv, Fresh

\* A request that leaves, or begins something else, holds no quote.
LEMMA Others ==
  ASSUME NEW r \in Requests, \A u \in Requests \ {r} : tasks'[u] = tasks[u],
         (Quoting(r))' => Quoting(r) /\ tasks'[r].value = tasks[r].value,
         (Claiming(r))' => Claiming(r) /\ tasks'[r].value = tasks[r].value
  PROVE  /\ \A u \in Requests : (Quoting(u))' => Quoting(u) /\ tasks'[u].value = tasks[u].value
         /\ \A u \in Requests : (Claiming(u))' => Claiming(u) /\ tasks'[u].value = tasks[u].value
BY DEF Quoting, Claiming, InLine

LEMMA QuoteStep ==
  ASSUME IInv, [Next]_vars
  PROVE  QuoteInv'
<1> USE Types DEF IInv
<1>0. ASSUME NEW r \in Requests, \A u \in Requests \ {r} : tasks'[u] = tasks[u],
             (Quoting(r))' => Quoting(r) /\ tasks'[r].value = tasks[r].value,
             (Claiming(r))' => Claiming(r) /\ tasks'[r].value = tasks[r].value,
             disk'["routstr_pending"] = disk["routstr_pending"] \/ disk'["routstr_pending"] \notin Quotes,
             UNCHANGED invoice
      PROVE  QuoteInv'
  BY <1>0, Others, QuoteKept DEF Fresh
<1>1. ASSUME NEW r \in Requests, WalletConnect(r) \/ RoutstrKey(r) \/ RoutstrExportKey(r)
      PROVE  QuoteInv'
  <2>1. \E f \in {"nwc", "routstr_key"}, v \in TaskValues : Begin(r, Put(f, v))
    BY <1>1, ValueSets, ValuesType DEF WalletConnect, RoutstrKey, RoutstrExportKey, Records
  <2>2. /\ ~(Quoting(r))' /\ ~(Claiming(r))'
        /\ \A u \in Requests \ {r} : tasks'[u] = tasks[u]
    BY <2>1, BeginFields DEF Quoting, Claiming, InLine, Put
  <2> QED
    BY <1>0, <1>1, <2>2 DEF WalletConnect, RoutstrKey, RoutstrExportKey
<1>2. ASSUME NEW r \in Requests, RoutstrDisconnect(r) PROVE QuoteInv'
  <2>1. /\ tasks'[r] = [Idle EXCEPT !.op = "disconnect", !.step = "remove"]
        /\ \A u \in Requests \ {r} : tasks'[u] = tasks[u]
    BY <1>2, BeginFields DEF RoutstrDisconnect
  <2>2. ~(Quoting(r))' /\ ~(Claiming(r))'
    BY <2>1 DEF Quoting, Claiming, InLine, Idle
  <2>3. disk'["routstr_pending"] = disk["routstr_pending"] /\ UNCHANGED invoice
    BY <1>2 DEF RoutstrDisconnect
  <2> QED
    BY <1>0, <2>1, <2>2, <2>3
<1>3. ASSUME NEW r \in Requests, NEW op \in {"pay", "recover"}, Enqueue(r, op) PROVE QuoteInv'
  <2>1. /\ tasks'[r] = [Idle EXCEPT !.op = op, !.step = "queued"]
        /\ \A u \in Requests \ {r} : tasks'[u] = tasks[u]
    BY <1>3, BeginFields DEF Enqueue
  <2>2. ~(Quoting(r))' /\ ~(Claiming(r))'
    BY <2>1 DEF Quoting, Claiming, InLine, Idle
  <2> QED
    BY <1>0, <1>3, <2>1, <2>2 DEF Enqueue
<1>4. ASSUME NEW r \in Requests, Leave(r), UNCHANGED invoice,
             disk'["routstr_pending"] = disk["routstr_pending"] \/ disk'["routstr_pending"] \notin Quotes
      PROVE  QuoteInv'
  <2>1. ~(Quoting(r))' /\ ~(Claiming(r))'
    BY <1>4, LeaveFields DEF Quoting, Claiming, InLine, Idle
  <2> QED
    BY <1>0, <1>4, <2>1, LeaveFields
<1>5. ASSUME NEW r \in Requests, NEW s \in Steps, Go(r, s), tasks[r].step # "queued", UNCHANGED invoice,
             disk'["routstr_pending"] = disk["routstr_pending"] \/ disk'["routstr_pending"] \notin Quotes
      PROVE  QuoteInv'
  BY <1>0, <1>5, GoFields DEF Quoting, Claiming, InLine
<1>6. ASSUME NEW r \in Requests,
             DisconnectPending(r) \/ WriteFails(r) \/ Refused(r) \/ NotSent(r) \/ NotPaid(r)
             \/ NotClaimed(r) \/ RemovePending(r)
      PROVE  QuoteInv'
  <2>1. UNCHANGED invoice
    BY <1>6 DEF DisconnectPending, WriteFails, Refused, NotSent, NotPaid, NotClaimed, RemovePending
  <2>2. disk'["routstr_pending"] \in {disk["routstr_pending"], None}
    BY <1>6 DEF DisconnectPending, WriteFails, Refused, NotSent, NotPaid, NotClaimed, RemovePending,
                DiskType, Records
  <2> QED
    BY <1>4, <1>6, <2>1, <2>2, Departs, Names
<1>7. ASSUME NEW r \in Requests, WriteStarts(r) \/ Paid(r) \/ Claim(r) PROVE QuoteInv'
  <2>1. UNCHANGED invoice /\ tasks[r].step # "queued" /\ \E s \in Steps : Go(r, s)
    BY <1>7 DEF WriteStarts, Paid, Claim, Steps, At, Asks
  <2>2. disk'["routstr_pending"] \in {disk["routstr_pending"], Torn}
    BY <1>7 DEF WriteStarts, Paid, Claim, DiskType, Records
  <2> QED
    BY <1>5, <2>1, <2>2, Names
<1>8. ASSUME NEW r \in Requests, WriteEnds(r), ~Quoting(r) PROVE QuoteInv'
  <2>1. tasks[r].file \in Records \ {"routstr_pending"} /\ tasks[r].op \in {"put", "pay", "recover"}
    BY <1>8, TasksType DEF WriteEnds, TaskInv, TaskOK, Quoting, Claiming, InLine, TaskType, Idle, Records
  <2>2. disk'["routstr_pending"] = disk["routstr_pending"] /\ UNCHANGED invoice
    BY <1>8, <2>1 DEF WriteEnds, DiskType
  <2>3. CASE tasks[r].op = "put"
    BY <1>4, <1>8, <2>2, <2>3, Departs
  <2>4. CASE tasks[r].op # "put"
    BY <1>5, <1>8, <2>2, <2>4 DEF WriteEnds, Steps
  <2> QED
    BY <2>3, <2>4
\* The write of another quote.
<1>9. ASSUME NEW r \in Requests, WriteEnds(r), Quoting(r) PROVE QuoteInv'
  <2> DEFINE q == tasks[r].value
  <2>1. /\ q \in Quotes /\ Fresh(q) /\ UNCHANGED invoice
        /\ disk'["routstr_pending"] \in {q, Torn} /\ Leave(r)
    BY <1>9, ValueSets, Departs DEF WriteEnds, Written, Quoting, TaskInv, TaskOK, QuoteInv, Fresh, DiskType, Records
  <2>2. /\ ~(Quoting(r))' /\ ~(Claiming(r))'
        /\ \A u \in Requests \ {r} : tasks'[u] = tasks[u]
    BY <2>1, LeaveFields DEF Quoting, Claiming, InLine, Idle
  <2>3. /\ \A u \in Requests : (Quoting(u))' => u # r /\ Quoting(u) /\ tasks'[u].value = tasks[u].value
        /\ \A u \in Requests : (Claiming(u))' => Claiming(u) /\ tasks'[u].value = tasks[u].value
    BY <2>2 DEF Quoting, Claiming, InLine
  <2>4. ASSUME NEW u \in Requests, (Quoting(u))'
        PROVE  /\ invoice'[tasks'[u].value] \in {"open", "expired"}
               /\ disk'["routstr_pending"] # tasks'[u].value
               /\ \A w \in Requests : (Quoting(w))' /\ tasks'[w].value = tasks'[u].value => w = u
               /\ \A w \in Requests : (Claiming(w))' => tasks'[w].value # tasks'[u].value
    <3>1. u # r /\ Quoting(u) /\ tasks'[u].value = tasks[u].value /\ tasks[u].value \in Quotes
      BY <2>3, <2>4, ValueSets DEF Quoting, TaskInv, TaskOK
    <3>2. tasks[u].value # q
      BY <1>9, <3>1 DEF QuoteInv
    <3> QED
      BY <2>1, <2>3, <3>1, <3>2, Names DEF QuoteInv
  <2>5. ASSUME NEW u \in Requests, (Claiming(u))'
        PROVE  /\ invoice'[tasks'[u].value] # "none"
               /\ \A p \in Quotes : disk'["routstr_pending"] = p /\ p # tasks'[u].value
                                    => invoice'[p] \in {"open", "expired"}
    BY <2>1, <2>3, <2>5, Names DEF QuoteInv, Fresh
  <2>6. \A p \in Quotes : disk'["routstr_pending"] = p => invoice'[p] # "none"
    BY <2>1, Names DEF Fresh
  <2> QED
    BY <2>4, <2>5, <2>6 DEF QuoteInv
\* A quote that was just issued.
<1>10. ASSUME NEW r \in Requests, RoutstrQuote(r) PROVE QuoteInv'
  <2>1. PICK q \in Quotes :
          /\ invoice[q] = "none" /\ invoice' = [invoice EXCEPT ![q] = "open"]
          /\ Begin(r, Put("routstr_pending", q)) \/ UNCHANGED tasks
    BY <1>10 DEF RoutstrQuote
  <2>2. /\ UNCHANGED disk /\ (Fresh(q))' /\ invoice'[q] # "none"
        /\ \A p \in Quotes \ {q} : invoice'[p] = invoice[p]
    BY <1>10, <2>1 DEF RoutstrQuote, InvoiceType, Fresh
  <2>3. CASE UNCHANGED tasks
    <3>1. \A u \in Requests : ((Quoting(u))' <=> Quoting(u)) /\ ((Claiming(u))' <=> Claiming(u))
      BY <2>3 DEF Quoting, Claiming, InLine
    <3>2. \A p \in Quotes : (Fresh(p) => (Fresh(p))') /\ (invoice[p] # "none" => invoice'[p] # "none")
      BY <2>2 DEF Fresh
    <3> QED
      BY <2>2, <2>3, <3>1, <3>2, QuoteKept
  <2>4. CASE Begin(r, Put("routstr_pending", q))
    <3>1. /\ tasks'[r] = Put("routstr_pending", q) /\ \A u \in Requests \ {r} : tasks'[u] = tasks[u]
      BY <2>4, BeginFields
    <3>2. /\ (Quoting(r))' /\ ~(Claiming(r))' /\ tasks'[r].value = q
          /\ \A u \in Requests \ {r} : ((Quoting(u))' <=> Quoting(u)) /\ ((Claiming(u))' <=> Claiming(u))
      BY <3>1 DEF Put, Quoting, Claiming, InLine
    <3>3. /\ \A u \in Requests : Quoting(u) => tasks[u].value \in Quotes \ {q}
          /\ \A u \in Requests : Claiming(u) => tasks[u].value \in Quotes \ {q}
          /\ disk["routstr_pending"] # q
      BY <2>1, ValueSets DEF QuoteInv, TaskInv, TaskOK, Quoting
    <3>4. ASSUME NEW u \in Requests, (Quoting(u))'
          PROVE  /\ invoice'[tasks'[u].value] \in {"open", "expired"}
                 /\ disk'["routstr_pending"] # tasks'[u].value
                 /\ \A w \in Requests : (Quoting(w))' /\ tasks'[w].value = tasks'[u].value => w = u
                 /\ \A w \in Requests : (Claiming(w))' => tasks'[w].value # tasks'[u].value
      BY <2>2, <3>1, <3>2, <3>3, <3>4 DEF QuoteInv, Fresh
    <3>5. ASSUME NEW u \in Requests, (Claiming(u))'
          PROVE  /\ invoice'[tasks'[u].value] # "none"
                 /\ \A p \in Quotes : disk'["routstr_pending"] = p /\ p # tasks'[u].value
                                      => invoice'[p] \in {"open", "expired"}
      BY <2>2, <3>1, <3>2, <3>3, <3>5 DEF QuoteInv, Fresh
    <3>6. \A p \in Quotes : disk'["routstr_pending"] = p => invoice'[p] # "none"
      BY <2>2 DEF QuoteInv
    <3> QED
      BY <3>4, <3>5, <3>6 DEF QuoteInv
  <2> QED
    BY <2>1, <2>3, <2>4
\* The quote that is read is the one on record.
<1>11. ASSUME NEW r \in Requests, Enter(r) PROVE QuoteInv'
  <2>1. /\ disk["routstr_pending"] \in Quotes /\ UNCHANGED <<disk, invoice>>
        /\ tasks[r].op \in {"pay", "recover"}
        /\ tasks'[r].op = tasks[r].op /\ tasks'[r].value = disk["routstr_pending"]
        /\ \A u \in Requests \ {r} : tasks'[u] = tasks[u]
    BY <1>11, TasksType DEF Enter, TaskType, TaskInv, TaskOK, Idle
  <2>2. /\ ~(Quoting(r))' /\ \A u \in Requests \ {r} : (Quoting(u))' <=> Quoting(u)
        /\ \A u \in Requests \ {r} : (Claiming(u))' <=> Claiming(u)
    BY <2>1 DEF Quoting, Claiming, InLine
  <2>3. ASSUME NEW u \in Requests, (Quoting(u))'
        PROVE  /\ invoice'[tasks'[u].value] \in {"open", "expired"}
               /\ disk'["routstr_pending"] # tasks'[u].value
               /\ \A w \in Requests : (Quoting(w))' /\ tasks'[w].value = tasks'[u].value => w = u
               /\ \A w \in Requests : (Claiming(w))' => tasks'[w].value # tasks'[u].value
    BY <2>1, <2>2, <2>3 DEF QuoteInv
  <2>4. ASSUME NEW u \in Requests, (Claiming(u))'
        PROVE  /\ invoice'[tasks'[u].value] # "none"
               /\ \A p \in Quotes : disk'["routstr_pending"] = p /\ p # tasks'[u].value
                                    => invoice'[p] \in {"open", "expired"}
    BY <2>1, <2>2, <2>4 DEF QuoteInv
  <2> QED
    BY <2>1, <2>3, <2>4 DEF QuoteInv
\* The quote that is paid is nobody's to put and, if another is on record, not that one.
<1>12. ASSUME NEW r \in Requests, Send(r) PROVE QuoteInv'
  <2> DEFINE q == tasks[r].value
  <2>1. /\ Claiming(r) /\ Go(r, "sent") /\ UNCHANGED disk
        /\ invoice' = [invoice EXCEPT ![q] = IF @ = "open" THEN "sent" ELSE @]
    BY <1>12 DEF Send, At, Claiming, InLine
  <2>2. /\ q \in Quotes /\ \A p \in Quotes \ {q} : invoice'[p] = invoice[p]
        /\ invoice[q] # "none" => invoice'[q] # "none"
    BY <2>1 DEF TaskInv, TaskOK, InvoiceType
  <2>3. /\ \A u \in Requests : (Quoting(u))' <=> Quoting(u)
        /\ \A u \in Requests : (Claiming(u))' <=> Claiming(u)
        /\ \A u \in Requests : tasks'[u].value = tasks[u].value
    BY <2>1, GoFields DEF Quoting, Claiming, InLine
  <2>4. \A u \in Requests : Claiming(u) => u = r
    BY <2>1 DEF LineInv
  <2>5. \A u \in Requests : Quoting(u) => tasks[u].value \in Quotes \ {q}
    BY <2>1, ValueSets DEF QuoteInv, TaskInv, TaskOK, Quoting
  <2>6. ASSUME NEW u \in Requests, (Quoting(u))'
        PROVE  /\ invoice'[tasks'[u].value] \in {"open", "expired"}
               /\ disk'["routstr_pending"] # tasks'[u].value
               /\ \A w \in Requests : (Quoting(w))' /\ tasks'[w].value = tasks'[u].value => w = u
               /\ \A w \in Requests : (Claiming(w))' => tasks'[w].value # tasks'[u].value
    BY <2>1, <2>2, <2>3, <2>5, <2>6 DEF QuoteInv
  <2>7. ASSUME NEW u \in Requests, (Claiming(u))'
        PROVE  /\ invoice'[tasks'[u].value] # "none"
               /\ \A p \in Quotes : disk'["routstr_pending"] = p /\ p # tasks'[u].value
                                    => invoice'[p] \in {"open", "expired"}
    BY <2>1, <2>2, <2>3, <2>4, <2>7 DEF QuoteInv
  <2>8. \A p \in Quotes : disk'["routstr_pending"] = p => invoice'[p] # "none"
    BY <2>1, <2>2 DEF QuoteInv
  <2> QED
    BY <2>6, <2>7, <2>8 DEF QuoteInv
<1>13. ASSUME NEW q \in Quotes, Lightning(q) PROVE QuoteInv'
  <2>1. \A p \in Quotes : (Fresh(p) => (Fresh(p))') /\ (invoice[p] # "none" => invoice'[p] # "none")
    BY <1>13 DEF Lightning, Moves, InvoiceType, Fresh
  <2>2. /\ UNCHANGED disk
        /\ \A u \in Requests : (Quoting(u))' => Quoting(u) /\ tasks'[u].value = tasks[u].value
        /\ \A u \in Requests : (Claiming(u))' => Claiming(u) /\ tasks'[u].value = tasks[u].value
    BY <1>13 DEF Lightning, Quoting, Claiming, InLine
  <2> QED
    BY <2>1, <2>2, QuoteKept
<1>14. ASSUME UNCHANGED invoice, \A u \in Requests : ~(Quoting(u))' /\ ~(Claiming(u))', UNCHANGED disk
       PROVE  QuoteInv'
  BY <1>14, QuoteKept DEF Fresh
<1>15. ASSUME Crash PROVE QuoteInv'
  <2>1. \A u \in Requests : tasks'[u] = Idle
    BY <1>15 DEF Crash
  <2>2. \A u \in Requests : ~(Quoting(u))' /\ ~(Claiming(u))'
    BY <2>1 DEF Quoting, Claiming, InLine, Idle
  <2> QED
    BY <1>14, <1>15, <2>2 DEF Crash
<1>16. ASSUME WalletDisconnect \/ UNCHANGED vars PROVE QuoteInv'
  <2>1. UNCHANGED <<tasks, invoice>> /\ disk'["routstr_pending"] = disk["routstr_pending"]
    BY <1>16 DEF WalletDisconnect, vars, DiskType, Records
  <2>2. /\ \A u \in Requests : (Quoting(u))' => Quoting(u) /\ tasks'[u].value = tasks[u].value
        /\ \A u \in Requests : (Claiming(u))' => Claiming(u) /\ tasks'[u].value = tasks[u].value
    BY <2>1 DEF Quoting, Claiming, InLine
  <2> QED
    BY <2>1, <2>2, QuoteKept DEF Fresh
<1> QED
  BY <1>1, <1>2, <1>3, <1>6, <1>7, <1>8, <1>9, <1>10, <1>11, <1>12, <1>13, <1>15, <1>16
     DEF Next, Ask, Continue, WalletTest

(***************************************************************************)
(* The theorems.                                                           *)
(***************************************************************************)
LEMMA Inductive == Spec => []IInv
<1>1. Init => IInv
  <2> SUFFICES ASSUME Init PROVE IInv
    OBVIOUS
  <2>1. /\ \A u \in Requests : tasks[u] = Idle /\ ~InLine(u) /\ ~Claiming(u) /\ ~Quoting(u)
        /\ Len(line) = 0 /\ disk["routstr_pending"] = None
    BY DEF Init, Idle, InLine, Claiming, Quoting, Records
  <2>2. TypeOK
    BY IdleType DEF Init, TypeOK
  <2>3. TaskInv
    BY <2>1 DEF TaskInv, TaskOK, Idle
  <2>4. QuoteInv
    BY <2>1, Names DEF QuoteInv
  <2> QED
    BY <2>1, <2>2, <2>3, <2>4 DEF IInv, LineInv
<1>2. IInv /\ [Next]_vars => IInv'
  BY TypeStep, LineStep, TaskStep, QuoteStep DEF IInv
<1> QED
  BY <1>1, <1>2, PTL DEF Spec

\* At most one request has read the quote on record and not finished with it, however
\* many pay and recover at a time and whichever of them fail.
THEOREM ClaimsAlone == Spec => []OneClaim
<1>1. IInv => OneClaim
  <2> SUFFICES ASSUME IInv, NEW r \in Requests, NEW u \in Requests,
                      {tasks[r].op, tasks[u].op} \subseteq {"pay", "recover"},
                      "queued" \notin {tasks[r].step, tasks[u].step}
               PROVE  r = u
    BY DEF OneClaim, IInv
  <2>1. Claiming(r) /\ Claiming(u)
    BY DEF Claiming, InLine
  <2> QED
    BY <2>1 DEF IInv, LineInv
<1> QED
  BY <1>1, Inductive, PTL

\* What the owner may have paid for is dropped only when its key was stored, unless the
\* owner replaces or removes it.
THEOREM PaidIsKept == Spec => PaidStaysClaimable
<1> DEFINE A == \A q \in Quotes :
       /\ disk["routstr_pending"] = q /\ disk'["routstr_pending"] # q
       /\ invoice[q] \in {"sent", "paid"}
       => \/ q \in claimed
          \/ \E r \in Requests : DisconnectPending(r)
          \/ \E r \in Requests : tasks[r].op = "put" /\ (WriteStarts(r) \/ WriteEnds(r))
<1>1. IInv /\ [Next]_vars => [A]_vars
  <2> SUFFICES ASSUME IInv, [Next]_vars, NEW q \in Quotes,
                      disk["routstr_pending"] = q, disk'["routstr_pending"] # q,
                      invoice[q] \in {"sent", "paid"},
                      \A r \in Requests : ~DisconnectPending(r),
                      \A r \in Requests : tasks[r].op = "put" => ~WriteStarts(r) /\ ~WriteEnds(r)
               PROVE  q \in claimed
    OBVIOUS
  <2>1. DiskType
    BY Types DEF IInv
  <2>2. ASSUME NEW r \in Requests, WriteStarts(r) \/ WriteEnds(r) PROVE FALSE
    <3>1. tasks[r].op # "put"
      BY <2>2
    <3>2. tasks[r].file # "routstr_pending"
      BY <2>2, <3>1, TasksType, Types, Names
         DEF IInv, TaskInv, TaskOK, Claiming, InLine, Idle, TaskType, WriteStarts, WriteEnds
    <3> QED
      BY <2>1, <2>2, <3>2 DEF WriteStarts, WriteEnds, DiskType, Records
  <2>3. PICK r \in Requests : RemovePending(r)
    BY <2>1, <2>2 DEF Next, Ask, Continue, WalletConnect, WalletTest, WalletDisconnect, RoutstrKey,
       RoutstrExportKey, RoutstrQuote, RoutstrDisconnect, Enqueue, WriteFails, Enter, Refused, Send,
       NotSent, Paid, NotPaid, Claim, NotClaimed, Lightning, Crash, vars, DiskType, Records
  <2>4. Claiming(r) /\ tasks[r].step = "remove"
    BY <2>3 DEF RemovePending, Claiming, InLine
  <2>5. tasks[r].value = q
    BY <2>4 DEF IInv, QuoteInv
  <2> QED
    BY <2>4, <2>5 DEF IInv, TaskInv, TaskOK
<1>2. PaidStaysClaimable <=> [][A]_vars
  BY DEF PaidStaysClaimable
<1> QED
  BY <1>1, <1>2, Inductive, PTL DEF Spec
=============================================================================
