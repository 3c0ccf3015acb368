------------------------------ MODULE Register ------------------------------
(***************************************************************************)
(* What the sealed conversations promise (agent/lib/sessions.mjs and       *)
(* src/src/session-library.js), without files, queues, signers and         *)
(* threads: one register of versions.  A save takes effect at once, or not *)
(* at all, and only if the stored version is the one its tab had read or   *)
(* saved when it sent it; it takes effect once, before it is answered, and *)
(* the answer says so.                                                     *)
(***************************************************************************)
EXTENDS Naturals

CONSTANTS Tabs

VARIABLES
  current,  \* the stored version, 0: none
  made,     \* versions made so far
  calls,    \* saves and deletes under way
  known     \* the version a tab has, none while it cannot read it

vars == <<current, made, calls, known>>

Init ==
  current = 0 /\ made = 0 /\ calls = {} /\ known = [t \in Tabs |-> {0}]

UnderWay(t, op) == \E c \in calls : c.tab = t /\ c.op = op
Waiting(t) == \E c \in calls : c.tab = t /\ c.op = "save" /\ c.heard

Call(t, op, base, n) ==
  calls' = calls \cup {[tab |-> t, op |-> op, base |-> base, n |-> n,
                        done |-> FALSE, ok |-> FALSE, heard |-> TRUE]}

\* A tab saves on what it knows, one save at a time.
Save(t) ==
  /\ made' = made + 1 /\ ~Waiting(t)
  /\ \E base \in known[t] : Call(t, "save", base, made + 1)
  /\ UNCHANGED <<current, known>>

Delete(t) ==
  /\ UNCHANGED <<current, made, known>>
  /\ known[t] # {0} /\ ~UnderWay(t, "remove") /\ Call(t, "remove", 0, 0)

\* A tab that reads learns what is stored, or that it cannot read it.
Load(t) ==
  /\ UNCHANGED <<current, made>>
  /\ known' = [known EXCEPT ![t] = {current}] \/ (current # 0 /\ known' = [known EXCEPT ![t] = {}])
  /\ UNCHANGED calls

Becomes(c, S) == calls' = (calls \ {c}) \cup S

\* Nobody waits for some answers.
Ends(c, ok) == Becomes(c, IF c.heard THEN {[c EXCEPT !.done = TRUE, !.ok = ok]} ELSE {})

Take(c) ==
  /\ ~c.done
  /\ c.op = "save" => c.base = current
  /\ c.op = "remove" => current # 0
  /\ current' = c.n /\ UNCHANGED <<made, known>> /\ Ends(c, TRUE)

Refuse(c) == ~c.done /\ UNCHANGED <<current, made, known>> /\ Ends(c, FALSE)

Answer(c) ==
  /\ c.done /\ c.heard /\ Becomes(c, {})
  /\ known' = IF c.ok THEN [known EXCEPT ![c.tab] = {c.n}] ELSE known
  /\ UNCHANGED <<current, made>>

\* The tab gives up: what it sent may still take effect.
GiveUp(c) ==
  /\ c.heard /\ Becomes(c, IF c.done THEN {} ELSE {[c EXCEPT !.heard = FALSE]})
  /\ UNCHANGED <<current, made, known>>

SignIn(t) ==
  /\ UNCHANGED <<current, made>> /\ known' = [known EXCEPT ![t] = {0}]
  /\ calls' = {IF c.tab = t THEN [c EXCEPT !.heard = FALSE] ELSE c :
                 c \in {d \in calls : d.tab # t \/ ~d.done}}

Next ==
  \/ \E t \in Tabs : Save(t) \/ Delete(t) \/ Load(t) \/ SignIn(t)
  \/ \E c \in calls : Take(c) \/ Refuse(c) \/ Answer(c) \/ GiveUp(c)

Spec == Init /\ [][Next]_vars
=============================================================================
