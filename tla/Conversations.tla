---------------------------- MODULE Conversations ----------------------------
(***************************************************************************)
(* One sealed conversation: the agent's store (agent/lib/sessions.mjs) and *)
(* its copies in browser tabs (src/src/session-library.js, and the part of *)
(* src/src/chat.js that fills and saves a thread).                         *)
(*                                                                         *)
(* Every tab keeps a thread, the record it last read or saved, and a queue *)
(* of writes.  A save names the digest of the record it started from, and  *)
(* the agent refuses it when another one is stored by then.  The agent     *)
(* does one request at a time, in two writes; answers may be late or lost. *)
(*                                                                         *)
(* A sealed version is its number: every sealing gives another digest.     *)
(* Titles and pins are not kept apart: patch seals the same messages again.*)
(***************************************************************************)
EXTENDS Browser, Naturals, Sequences, FiniteSets

CONSTANTS
  MaxSaid,     \* bound: messages said
  MaxSeals,    \* bound: versions sealed
  MaxQueue,    \* bound: writes of each tab
  MaxLost      \* bound: requests under way nobody waits for

ASSUME Bounds == MaxSaid \in Nat /\ MaxSeals \in Nat

VARIABLES
  content,     \* the messages of every version sealed so far
  index,       \* the version the agent's index names, 0: none
  blob,        \* the version in the .enc file
  requests,    \* saves and deletes, from the tab to the agent and back
  thread,      \* the messages a tab shows
  dirty,       \* something was said in it here (dirtyThreads)
  record,      \* what the library holds
  removed,     \* it was deleted here
  loaded,      \* the library has read the list
  queue,       \* writes, the first is under way
  said,        \* messages said so far (history)
  deleted      \* messages the tab deleted since it signed in, and was told so (history)

server == <<index, blob, requests>>
library == <<record, removed, loaded, queue>>
chat == <<thread, dirty, said>>
vars == <<content, server, library, chat, deleted>>

Versions == 0..MaxSeals
Messages == 1..MaxSaid

Text(n) == IF n = 0 THEN {} ELSE content[n]

\* sha: the digest a save will name; text: whose messages it holds
Records == [sha : Versions, text : Versions, locked : BOOLEAN]
NoRecord == [sha |-> 0, text |-> 0, locked |-> FALSE]

Jobs == [step : {"wait", "sent"}, kind : {"save", "patch"}, text : SUBSET Messages]

\* heard: the tab still waits for the answer
Requests == [tab : Tabs, op : {"save", "remove"}, base : Versions, n : Versions,
             step : {"sent", "index", "done"}, ok : BOOLEAN, heard : BOOLEAN]

TypeOK ==
  /\ content \in Seq(SUBSET Messages) /\ Len(content) <= MaxSeals
  /\ {index, blob} \subseteq 0..Len(content) /\ requests \subseteq Requests
  /\ thread \in [Tabs -> SUBSET Messages] /\ dirty \in [Tabs -> BOOLEAN]
  /\ record \in [Tabs -> Records] /\ removed \in [Tabs -> BOOLEAN]
  /\ loaded \in [Tabs -> BOOLEAN] /\ queue \in [Tabs -> Seq(Jobs)]
  /\ said \in 0..MaxSaid
  /\ deleted \in [Tabs -> SUBSET Messages]

Sha(n) == IF n = 0 THEN NoRecord ELSE [sha |-> n, text |-> n, locked |-> FALSE]

(***************************************************************************)
(* The chat of a tab.                                                      *)
(***************************************************************************)
Enqueue(t, kind) ==
  /\ Len(queue[t]) < MaxQueue[t]
  /\ LET text == IF kind = "save" THEN thread'[t] ELSE {}
     IN queue' = [queue EXCEPT ![t] = Append(@, [step |-> "wait", kind |-> kind, text |-> text])]

\* send loads the history first and refuses a locked conversation; without the signer
\* the message just stays in the thread (persistServerSession).
Say(t) ==
  /\ said < MaxSaid /\ said' = said + 1
  /\ thread' = [thread EXCEPT ![t] = @ \cup {said + 1}]
  /\ dirty' = [dirty EXCEPT ![t] = TRUE]
  /\ (loaded[t] /\ ~record[t].locked /\ Enqueue(t, "save")) \/ UNCHANGED queue
  /\ UNCHANGED <<content, server, record, removed, loaded, deleted>>

\* Retry saving
SaveAgain(t) ==
  /\ dirty[t] /\ queue[t] = <<>>
  /\ UNCHANGED chat /\ Enqueue(t, "save")
  /\ UNCHANGED <<content, server, record, removed, loaded, deleted>>

\* A title or a pin.
Patch(t) ==
  /\ record[t].sha # 0 /\ ~record[t].locked
  /\ queue[t] = <<>>
  /\ UNCHANGED chat /\ Enqueue(t, "patch")
  /\ UNCHANGED <<content, server, record, removed, loaded, deleted>>

(***************************************************************************)
(* load: the list, then each blob.  A listed row replaces the record, and  *)
(* stays locked if its blob cannot be read; a record that is not listed    *)
(* stays.                                                                  *)
(***************************************************************************)
\* Mutant: requests are not serialized.
MutAlone == TRUE

\* serialize: no request is between the read of the index and its last write.
Alone == \A r \in requests : r.step \in {"sent", "done"}

\* retry is offered while a row is locked, of this conversation or of another; a load
\* that got no list changes nothing.
Loads(t) == Alone

Read(t) ==
  /\ Loads(t) /\ index # 0 /\ blob = index
  /\ loaded' = [loaded EXCEPT ![t] = TRUE]
  /\ record' = [record EXCEPT ![t] = Sha(index)]
  /\ thread' = IF dirty[t] THEN thread ELSE [thread EXCEPT ![t] = Text(index)]
  /\ UNCHANGED <<content, server, removed, queue, dirty, said, deleted>>

NotRead(t) ==
  /\ Loads(t)
  /\ loaded' = [loaded EXCEPT ![t] = TRUE]
  /\ record' = IF index = 0 THEN record
               ELSE [record EXCEPT ![t] = [sha |-> index, text |-> 0, locked |-> TRUE]]
  /\ UNCHANGED <<content, server, removed, queue, chat, deleted>>

(***************************************************************************)
(* write: one at a time.                                                   *)
(***************************************************************************)
Job(t) == Head(queue[t])
Working(t, step) == queue[t] # <<>> /\ Job(t).step = step

Done(t) == queue' = [queue EXCEPT ![t] = Tail(@)]

\* Mutant: a write that waited does not look whether the conversation is still there.
MutGone(t) == FALSE

Gone(t) == removed[t]

\* What the write changes is the record of now; the thread is that of the call.  The
\* signer's wait is part of the request's way: it may fail there too.
Seal(t) ==
  /\ Working(t, "wait") /\ loaded[t] /\ ~Gone(t) /\ ~record[t].locked
  /\ Len(content) < MaxSeals
  /\ content' = Append(content, IF Job(t).kind = "save" THEN Job(t).text ELSE Text(record[t].text))
  /\ requests' = requests \cup {[tab |-> t, op |-> "save", base |-> record[t].sha,
                                 n |-> Len(content) + 1, step |-> "sent", ok |-> FALSE, heard |-> TRUE]}
  /\ queue' = [queue EXCEPT ![t][1].step = "sent"]
  /\ UNCHANGED <<index, blob, record, removed, loaded, chat, deleted>>

\* Deleted, locked, not loaded, or the signer refuses.
NotSealed(t) ==
  /\ Working(t, "wait")
  /\ Done(t)
  /\ UNCHANGED <<content, server, record, removed, loaded, chat, deleted>>

Saved(t, r) ==
  /\ r.op = "save" /\ r.ok
  /\ record' = [record EXCEPT ![t] = Sha(r.n)]
  /\ Done(t)
  /\ UNCHANGED <<removed, loaded, chat, deleted>>

NotSaved(t, r) ==
  /\ r.op = "save" /\ ~r.ok
  /\ Done(t)
  /\ UNCHANGED <<record, removed, loaded, chat, deleted>>

(***************************************************************************)
(* remove, once the writes queued before it are done, also of a locked     *)
(* row.  Bound: a tab has one delete under way.                            *)
(***************************************************************************)
Remove(t) ==
  /\ record[t].sha # 0 /\ queue[t] = <<>>
  /\ \A r \in requests : ~(r.tab = t /\ r.op = "remove")
  /\ requests' = requests \cup {[tab |-> t, op |-> "remove", base |-> 0, n |-> 0,
                                 step |-> "sent", ok |-> FALSE, heard |-> TRUE]}
  /\ UNCHANGED <<content, index, blob, library, chat, deleted>>

\* forgetConversation: a locked row has no thread to forget.
Forgotten(t) == IF record[t].locked THEN {} ELSE thread[t]

Removed(t, r) ==
  /\ r.op = "remove" /\ r.ok
  /\ removed' = [removed EXCEPT ![t] = TRUE]
  /\ deleted' = [deleted EXCEPT ![t] = @ \cup Forgotten(t) \cup Text(record[t].text)]
  /\ record' = [record EXCEPT ![t] = NoRecord]
  /\ thread' = [thread EXCEPT ![t] = @ \ Forgotten(t)]
  /\ dirty' = [dirty EXCEPT ![t] = @ /\ record[t].locked]
  /\ UNCHANGED <<loaded, queue, said>>

NotRemoved(t, r) == r.op = "remove" /\ ~r.ok /\ UNCHANGED <<library, chat, deleted>>

Answer(r) ==
  /\ r.step = "done" /\ r.heard
  /\ requests' = requests \ {r}
  /\ Saved(r.tab, r) \/ NotSaved(r.tab, r) \/ Removed(r.tab, r) \/ NotRemoved(r.tab, r)
  /\ UNCHANGED <<content, index, blob>>

\* The answer is late or lost: the tab takes it for a failure.
GiveUp(r) ==
  /\ r.heard /\ Cardinality({s \in requests : ~s.heard}) < MaxLost
  /\ requests' = (requests \ {r}) \cup (IF r.step = "done" THEN {} ELSE {[r EXCEPT !.heard = FALSE]})
  /\ IF r.op = "save" THEN Done(r.tab) ELSE UNCHANGED queue
  /\ UNCHANGED <<content, index, blob, record, removed, loaded, chat, deleted>>

(***************************************************************************)
(* Another sign-in: the library starts over.  A sign-out clears the        *)
(* threads, a session that ran out and was signed in again does not.       *)
(***************************************************************************)
SignIn(t, signedOut) ==
  /\ requests' = {IF r.tab = t THEN [r EXCEPT !.heard = FALSE] ELSE r :
                    r \in {s \in requests : s.tab # t \/ s.step # "done"}}
  /\ Cardinality({r \in requests' : ~r.heard}) <= MaxLost
  /\ record' = [record EXCEPT ![t] = NoRecord] /\ removed' = [removed EXCEPT ![t] = FALSE]
  /\ queue' = [queue EXCEPT ![t] = <<>>]
  /\ loaded' = [loaded EXCEPT ![t] = FALSE]
  /\ IF signedOut
       THEN thread' = [thread EXCEPT ![t] = {}] /\ dirty' = [dirty EXCEPT ![t] = FALSE]
       ELSE UNCHANGED <<thread, dirty>>
  /\ deleted' = [deleted EXCEPT ![t] = {}]
  /\ UNCHANGED <<content, index, blob, said>>

(***************************************************************************)
(* The agent.                                                              *)
(***************************************************************************)
\* Nobody waits for some answers.
To(r, s) == requests' = (requests \ {r}) \cup (IF s.step = "done" /\ ~s.heard THEN {} ELSE {s})

\* Mutant: the digest is not compared.
MutConflicts(r) == FALSE

Conflicts(r) == r.base # index

Upsert(r) ==
  /\ r.step = "sent" /\ r.op = "save" /\ Alone
  /\ IF Conflicts(r) THEN To(r, [r EXCEPT !.step = "done"]) /\ UNCHANGED blob
     ELSE To(r, [r EXCEPT !.step = "index"]) /\ blob' = r.n
  /\ UNCHANGED index

Unlink(r) ==
  /\ r.step = "sent" /\ r.op = "remove" /\ Alone
  /\ IF index = 0 THEN To(r, [r EXCEPT !.step = "done"]) /\ UNCHANGED blob
     ELSE To(r, [r EXCEPT !.step = "index"]) /\ blob' = 0
  /\ UNCHANGED index

WriteIndex(r) ==
  /\ r.step = "index" /\ index' = r.n
  /\ To(r, [r EXCEPT !.step = "done", !.ok = TRUE])
  /\ UNCHANGED blob

\* The request does not arrive, a write fails, or the process ends in between.
Fails(r) ==
  /\ r.step # "done" /\ To(r, [r EXCEPT !.step = "done"])
  /\ UNCHANGED <<index, blob>>

Serve(r) ==
  /\ Upsert(r) \/ Unlink(r) \/ WriteIndex(r) \/ Fails(r)
  /\ UNCHANGED <<content, library, chat, deleted>>

Init ==
  /\ content = <<>> /\ index = 0 /\ blob = 0 /\ requests = {}
  /\ thread = [t \in Tabs |-> {}] /\ dirty = [t \in Tabs |-> FALSE]
  /\ record = [t \in Tabs |-> NoRecord] /\ removed = [t \in Tabs |-> FALSE]
  /\ loaded = [t \in Tabs |-> FALSE] /\ queue = [t \in Tabs |-> <<>>]
  /\ said = 0
  /\ deleted = [t \in Tabs |-> {}]

Next ==
  \/ \E t \in Tabs :
       \/ Say(t) \/ SaveAgain(t) \/ Patch(t) \/ Remove(t)
       \/ Read(t) \/ NotRead(t)
       \/ Seal(t) \/ NotSealed(t)
       \/ \E b \in BOOLEAN : SignIn(t, b)
  \/ \E r \in requests : Answer(r) \/ GiveUp(r) \/ Serve(r)

Spec == Init /\ [][Next]_vars

(***************************************************************************)
(* Implements Register                                                     *)
(***************************************************************************)
CallOf(r) == [tab |-> r.tab, op |-> r.op, base |-> r.base, n |-> r.n,
              done |-> r.step = "done", ok |-> r.ok, heard |-> r.heard]

\* A locked row names a version nobody here has read.
Known == [t \in Tabs |-> IF record[t].locked THEN {} ELSE {record[t].sha}]

Sealed == INSTANCE Register
  WITH current <- index, made <- Len(content), calls <- {CallOf(r) : r \in requests}, known <- Known

(***************************************************************************)
(* Properties.                                                             *)
(***************************************************************************)
\* However requests of several tabs interleave, come late, are given up or fail half way,
\* a save compares and replaces in one step (expected_sha256, serialize): a version is
\* replaced only by a tab that has read it or saved it itself, a save that is answered
\* has taken effect once before the answer, and one that is refused never does.
ImplementsRegister == Sealed!Spec

\* What a tab deleted, and was told so, is not created again by a write of this tab that
\* was waiting or under way (remove, "a late write cannot resurrect a deletion").  Where
\* another write has created the conversation again, the tab may have loaded that one.
DeletedStays ==
  [][\A r \in requests :
       r.op = "save" /\ r.heard /\ index = 0 /\ index' = r.n => Text(r.n) \cap deleted[r.tab] = {}]_vars

\* A request that is about to name a blob in the index has its own there: requests
\* do not mix (serialize), and what the index names can be read, unless a request is
\* cut short between its two writes.
IndexNamesBlob == TypeOK /\ \A r \in requests : r.step = "index" => blob = r.n
=============================================================================
