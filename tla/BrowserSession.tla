--------------------------- MODULE BrowserSession ---------------------------
(***************************************************************************)
(* The owner's session in the browser: src/src/auth.js, the part of        *)
(* src/src/data/agent.js that stores and sends the token, session-state.js *)
(* and the listeners of main.js, in several tabs of one browser.           *)
(*                                                                         *)
(* Tabs share localStorage (the token with its expiry, the marker) and     *)
(* tell each other of a sign-out by storage events, which arrive later.    *)
(* Each tab has an auth epoch of its own, a login attempt, renewal timers  *)
(* and requests in flight.  A piece of script runs to its next await       *)
(* without a break; what follows an await is a step of its own.            *)
(*                                                                         *)
(* The signer and the challenge are one wait (they change nothing).  The   *)
(* epoch and the token a request was sent under are kept as what the code  *)
(* asks of them when the answer comes: is it still the one of now.         *)
(***************************************************************************)
EXTENDS Browser, Naturals, FiniteSets

CONSTANTS
  Loops,       \* bound: renewal loops of each tab
  MaxEvents    \* bound: storage events that wait for one tab

ASSUME SessionBounds == Loops \in [Tabs -> Nat \ {0}] /\ MaxEvents \in Nat \ {0}

VARIABLES
  stored,      \* continuum.session.v1: where its token is in its life, if there is one
  marker,      \* continuum.session.meta.v1 is there
  inbox,       \* storage events for a tab that tell of a sign-out
  attempt,     \* the login attempt of a tab
  calls,       \* its requests in flight
  state,       \* currentState of the renewal loop; every tick classifies anew
  armed,       \* renewal timers that will fire
  held,        \* refreshTimer is one of them
  screen,      \* what the tab shows
  ended        \* the tab ended its session, and has not seen one since

storage == <<stored, marker, inbox>>
renewal == <<state, armed, held>>
sessionVars == <<storage, attempt, calls, renewal, screen, ended>>

Lives == {"active", "expiring", "expired"}
Classes == Lives \cup {"anonymous"}   \* what classify() says

\* "late" is the verify request of an attempt that was abandoned; current: the
\* epoch has not moved; same: nor has the token it was sent under.
Calls == [kind : {"verify", "late", "refresh", "api"}, current : BOOLEAN,
          same : BOOLEAN, n : Nat]

SessionTypeOK ==
  /\ stored \in Classes /\ marker \in BOOLEAN /\ inbox \in [Tabs -> 0..MaxEvents]
  /\ attempt \in [Tabs -> {"idle", "signer", "verify"}]
  /\ calls \in [Tabs -> SUBSET Calls]
  /\ state \in [Tabs -> {"anonymous", "live", "refreshing"}]
  /\ armed \in [Tabs -> Nat] /\ held \in [Tabs -> BOOLEAN]
  /\ screen \in [Tabs -> {"login", "app"}] /\ ended \in [Tabs -> BOOLEAN]

HasToken == stored # "anonymous"

\* isLoggedIn
Live == stored \in {"active", "expiring"}

Refreshing(t) == {c \in calls[t] : c.kind = "refresh"}

(***************************************************************************)
(* Pieces of the handlers.                                                 *)
(***************************************************************************)
\* calls once the stored token is another one, or none
Outdated(cs) == {[c EXCEPT !.same = FALSE] : c \in cs}

\* req sends; n tells the renewals of a tab apart.
Send(t, kind, n) ==
  calls' = [calls EXCEPT ![t] =
    @ \cup {[kind |-> kind, current |-> TRUE, same |-> HasToken, n |-> n]}]

\* Bound: of other kinds one request is in flight in the whole browser.
Spare(kinds) == \A u \in Tabs : \A c \in calls[u] : c.kind \notin kinds

Answered(t, c) == calls' = [calls EXCEPT ![t] = @ \ {c}]

\* Mutant: logout leaves the epoch as it is.
MutSuperseded(cs) == cs

\* invalidateAuthWrites: no request in flight may store a session any more.
Superseded(cs) == {[c EXCEPT !.current = FALSE, !.same = FALSE] : c \in cs}

\* endAttempt, when the answers in `gone` are in.
Retired(cs, gone) ==
  Superseded({[c EXCEPT !.kind = IF @ = "verify" THEN "late" ELSE @] : c \in cs \ gone})

EndAttempt(t, gone) ==
  /\ attempt' = [attempt EXCEPT ![t] = "idle"]
  /\ calls' = [calls EXCEPT ![t] = Retired(@, gone)]

\* Timers that stopSessionRefresh leaves.
Stopped(t) == IF held[t] THEN armed[t] - 1 ELSE armed[t]

\* The timers of a tab become k, of which refreshTimer is one or none.
Timers(t, k, h, s) ==
  /\ armed' = [armed EXCEPT ![t] = k]
  /\ held' = [held EXCEPT ![t] = h]
  /\ state' = [state EXCEPT ![t] = s]

StopRefresh(t) == Timers(t, Stopped(t), FALSE, "anonymous")

\* startSessionRefresh, for a live token
StartRefresh(t) == Timers(t, Stopped(t) + 1, TRUE, "live")

\* Mutant: a wait that is not armed again.
MutArm(t) == Timers(t, armed[t], held[t], "live")

\* arm: one more timer, which refreshTimer forgets any other for
Arm(t) == Timers(t, armed[t] + 1, TRUE, "live")

Cleared == IF marker THEN 1 ELSE 0

\* n storage events for every other tab
Told(t, n) ==
  [u \in Tabs |-> IF u = t \/ inbox[u] + n <= MaxEvents THEN inbox[u] + (IF u = t THEN 0 ELSE n)
                  ELSE MaxEvents]

\* logout, the marker and the session-changed listener; `gone` are answers that are
\* in.  To clear the marker is an event for the others even when localOnly.
Forget(t, gone) ==
  /\ calls' = [u \in Tabs |-> Outdated(IF u = t THEN Superseded(calls[u] \ gone) ELSE calls[u])]
  /\ stored' = "anonymous" /\ marker' = FALSE
  /\ screen' = [screen EXCEPT ![t] = "login"]
  /\ ended' = [ended EXCEPT ![t] = TRUE]

\* endSession
EndSession(t, gone) ==
  /\ StopRefresh(t) /\ Forget(t, gone)
  /\ inbox' = Told(t, Cleared + 1)

(***************************************************************************)
(* Signing in.                                                             *)
(***************************************************************************)
\* A surface that offers it is one of a tab that shows no session.  Bound: one
\* attempt at a time in the browser.
StartLogin(t) ==
  /\ screen[t] = "login" \/ ~Live
  /\ \A u \in Tabs : attempt[u] = "idle"
  /\ attempt' = [attempt EXCEPT ![t] = "signer"]
  /\ UNCHANGED <<storage, calls, renewal, screen, ended>>

\* The signer answered.
Verify(t) ==
  /\ attempt[t] = "signer"
  /\ Spare({"verify", "late"}) /\ Send(t, "verify", 0)
  /\ attempt' = [attempt EXCEPT ![t] = "verify"]
  /\ UNCHANGED <<storage, renewal, screen, ended>>

\* cancelLogin, the deadline of the attempt, or a stage that failed before verify
Abandon(t) ==
  /\ attempt[t] # "idle"
  /\ EndAttempt(t, {})
  /\ UNCHANGED <<storage, renewal, screen, ended>>

SignedIn(t, c) ==
  /\ c.kind = "verify" /\ c.current
  /\ stored' = "active" /\ marker' = TRUE
  /\ attempt' = [attempt EXCEPT ![t] = "idle"]
  /\ calls' = [u \in Tabs |-> Outdated(IF u = t THEN Retired(calls[u], {c}) ELSE calls[u])]
  /\ StartRefresh(t)
  /\ screen' = [screen EXCEPT ![t] = "app"] /\ ended' = [ended EXCEPT ![t] = FALSE]
  /\ UNCHANGED inbox

\* No answer, or one for a session that was signed out in the meantime.
NotSignedIn(t, c) ==
  /\ c.kind = "verify"
  /\ EndAttempt(t, {c})
  /\ UNCHANGED <<storage, renewal, screen, ended>>

\* Mutant: a 401 clears whatever token is stored.
MutRefusalClears(c) == c.current

\* req: a 401 clears the session its request was sent under, and no other.
RefusalClears(c) == c.current /\ c.same

\* The agent refuses the signature: 401, as for any other request.
SignInRefused(t, c) ==
  /\ c.kind = "verify" /\ RefusalClears(c)
  /\ attempt' = [attempt EXCEPT ![t] = "idle"]
  /\ calls' = [u \in Tabs |-> Outdated(IF u = t THEN Retired(calls[u], {c}) ELSE calls[u])]
  /\ stored' = "anonymous"
  /\ UNCHANGED <<marker, inbox, renewal, screen, ended>>

\* Whatever the answer to an abandoned attempt is, nothing is done about it.
LateAnswer(t, c) ==
  /\ c.kind = "late" /\ Answered(t, c)
  /\ UNCHANGED <<storage, attempt, renewal, screen, ended>>

(***************************************************************************)
(* Signing out, in this tab and in the others.                             *)
(***************************************************************************)
SignOut(t) ==
  /\ screen[t] = "app"
  /\ EndSession(t, {})
  /\ UNCHANGED attempt

\* The listener of main.js: endSession with localOnly.
StorageEvent(t) ==
  /\ inbox[t] > 0
  /\ StopRefresh(t) /\ Forget(t, {})
  /\ inbox' = [Told(t, Cleared) EXCEPT ![t] = @ - 1]
  /\ UNCHANGED attempt

\* A guarded route: rehydrateSession, then the view or the login screen.
Navigate(t) ==
  /\ \/ /\ Live /\ Stopped(t) + Cardinality(Refreshing(t)) < Loops[t]
        /\ StartRefresh(t)
        /\ screen' = [screen EXCEPT ![t] = "app"]
        /\ ended' = [ended EXCEPT ![t] = FALSE]
        /\ UNCHANGED <<marker, inbox>>
     \/ /\ ~Live
        /\ marker' = FALSE /\ inbox' = Told(t, Cleared)
        /\ screen' = [screen EXCEPT ![t] = "login"]
        /\ UNCHANGED <<renewal, ended>>
  /\ UNCHANGED <<stored, attempt, calls>>

(***************************************************************************)
(* Renewal: one of the armed timers fires; refreshTimer forgets whatever   *)
(* it held.                                                                *)
(***************************************************************************)
TickExpired(t) ==
  /\ armed[t] > 0 /\ stored = "expired"
  /\ Timers(t, armed[t] - 1, FALSE, "anonymous")
  /\ Forget(t, {}) /\ inbox' = Told(t, Cleared + 1)
  /\ UNCHANGED attempt

\* Too early, or one is under way: arm again, unless there is nothing to wait for.
TickWaits(t) ==
  /\ armed[t] > 0
  /\ \/ /\ stored = "active" \/ (stored = "expiring" /\ state[t] = "refreshing")
        /\ Timers(t, armed[t], TRUE, IF state[t] = "refreshing" THEN "refreshing" ELSE "live")
     \/ /\ ~HasToken
        /\ Timers(t, armed[t] - 1, FALSE, IF state[t] = "refreshing" THEN "refreshing" ELSE "anonymous")
  /\ UNCHANGED <<storage, attempt, calls, screen, ended>>

TickRefreshes(t) ==
  /\ armed[t] > 0 /\ stored = "expiring" /\ state[t] # "refreshing"
  /\ \E n \in 1..Loops[t] :
       /\ {c.n : c \in Refreshing(t)} \cap 1..n = 1..(n - 1)
       /\ Send(t, "refresh", n)
  /\ Timers(t, armed[t] - 1, FALSE, "refreshing")
  /\ ended' = [ended EXCEPT ![t] = FALSE]
  /\ UNCHANGED <<storage, attempt, screen>>

\* The epoch moved on, or the session is gone: stop.
RefreshMoot(t, c) ==
  /\ c.kind = "refresh" /\ (~c.current \/ ~HasToken)
  /\ Answered(t, c) /\ StopRefresh(t)
  /\ UNCHANGED <<storage, attempt, screen, ended>>

Refreshed(t, c) ==
  /\ c.kind = "refresh" /\ c.current
  /\ stored' = "active"
  /\ calls' = [u \in Tabs |-> Outdated(calls[u] \ (IF u = t THEN {c} ELSE {}))]
  /\ Arm(t)
  /\ UNCHANGED <<marker, inbox, attempt, screen, ended>>

\* No answer, a server error, or a token that expired and is no longer the stored
\* one: try again later while the session is good.
RefreshFailed(t, c) ==
  /\ c.kind = "refresh" /\ c.current
  /\ \/ /\ Live
        /\ Answered(t, c) /\ Arm(t)
        /\ UNCHANGED <<storage, screen, ended>>
     \/ /\ stored = "expired"
        /\ EndSession(t, {c})
  /\ UNCHANGED attempt

\* 401, because the token expired or its lineage is at its end (terminal).
RefreshRefused(t, c) ==
  /\ c.kind = "refresh" /\ RefusalClears(c)
  /\ stored' = "anonymous"
  /\ calls' = [u \in Tabs |-> Outdated(calls[u] \ (IF u = t THEN {c} ELSE {}))]
  /\ StopRefresh(t)
  /\ UNCHANGED <<marker, inbox, attempt, screen, ended>>

\* max_lifetime_reached, of a token that is no longer the stored one
OldRefreshRefused(t, c) ==
  /\ c.kind = "refresh" /\ c.current /\ ~c.same /\ HasToken
  /\ EndSession(t, {c})
  /\ UNCHANGED attempt

(***************************************************************************)
(* Other requests, and time.                                               *)
(***************************************************************************)
Request(t) ==
  /\ screen[t] = "app" /\ HasToken
  /\ Spare({"api"}) /\ Send(t, "api", 0)
  /\ UNCHANGED <<storage, attempt, renewal, screen, ended>>

RequestAnswered(t, c) ==
  /\ c.kind = "api" /\ Answered(t, c)
  /\ UNCHANGED <<storage, attempt, renewal, screen, ended>>

RequestRefused(t, c) ==
  /\ c.kind = "api" /\ (c.same => stored = "expired") /\ RefusalClears(c)
  /\ stored' = "anonymous"
  /\ calls' = [u \in Tabs |-> Outdated(calls[u] \ (IF u = t THEN {c} ELSE {}))]
  /\ UNCHANGED <<marker, inbox, attempt, renewal, screen, ended>>

Age ==
  /\ Live
  /\ stored' = IF stored = "active" THEN "expiring" ELSE "expired"
  /\ UNCHANGED <<marker, inbox, attempt, calls, renewal, screen, ended>>

Tick(t) == TickExpired(t) \/ TickWaits(t) \/ TickRefreshes(t)

Reply(t, c) ==
  \/ SignedIn(t, c) \/ NotSignedIn(t, c) \/ SignInRefused(t, c) \/ LateAnswer(t, c)
  \/ RefreshMoot(t, c) \/ Refreshed(t, c) \/ RefreshFailed(t, c)
  \/ RefreshRefused(t, c) \/ OldRefreshRefused(t, c)
  \/ RequestAnswered(t, c) \/ RequestRefused(t, c)

SessionInit ==
  /\ stored = "anonymous" /\ marker = FALSE /\ inbox = [t \in Tabs |-> 0]
  /\ attempt = [t \in Tabs |-> "idle"] /\ calls = [t \in Tabs |-> {}]
  /\ state = [t \in Tabs |-> "anonymous"] /\ armed = [t \in Tabs |-> 0]
  /\ held = [t \in Tabs |-> FALSE] /\ screen = [t \in Tabs |-> "login"]
  /\ ended = [t \in Tabs |-> TRUE]

SessionNext ==
  \/ \E t \in Tabs :
       \/ StartLogin(t) \/ Verify(t) \/ Abandon(t) \/ SignOut(t) \/ StorageEvent(t)
       \/ Navigate(t) \/ Tick(t) \/ Request(t)
       \/ \E c \in calls[t] : Reply(t, c)
  \/ Age

\* Timers fire, events are delivered and every request is answered or times out;
\* nothing is assumed of the owner, of the signer or of what the agent says.
Fairness ==
  \A t \in Tabs :
    /\ WF_sessionVars(Tick(t)) /\ WF_sessionVars(StorageEvent(t))
    /\ \A n \in 0..Loops[t] : WF_sessionVars(\E c \in calls[t] : c.n = n /\ Reply(t, c))

SessionSpec == SessionInit /\ [][SessionNext]_sessionVars /\ Fairness

(***************************************************************************)
(* Properties.                                                             *)
(***************************************************************************)
\* Once every tab has ended its session no session is stored until a tab signs in
\* or finds one: the answer to a renewal or to a sign-in that was in flight, in any
\* tab, stores nothing (invalidateAuthWrites).
SignedOutStays == (\A t \in Tabs : ended[t]) => ~HasToken

\* A live session ends only because the owner signs out, because a tab is told of
\* a sign-out, or because the agent refuses a renewal or a sign-in: never by a
\* late 401, an abandoned sign-in, a navigation or a timer of an earlier session.
EndedForReason ==
  [][Live /\ stored' = "anonymous" =>
       \E t \in Tabs :
         \/ SignOut(t) \/ StorageEvent(t)
         \/ \E c \in calls[t] : SignInRefused(t, c) \/ RefreshRefused(t, c) \/ OldRefreshRefused(t, c)]_sessionVars

\* A tab that thinks it keeps a session alive will look at it again: a timer is
\* armed or a renewal is in flight (startSessionRefresh, tick).
RenewalPending ==
  /\ SessionTypeOK
  /\ \A t \in Tabs : state[t] # "anonymous" => armed[t] > 0 \/ Refreshing(t) # {}
=============================================================================
