------------------------------- MODULE Upgrade -------------------------------
(***************************************************************************)
(* What ops/ansible/roles/continuum promises of an update, without its     *)
(* directories, units and tasks: a new release takes over the state of the *)
(* old one while neither runs, is on trial until it is healthy, and is     *)
(* kept, or taken back together with all it wrote.                         *)
(***************************************************************************)
EXTENDS Naturals

CONSTANTS
  Tags, Bad,  \* the releases; those that do not come up
  None

VARIABLES
  up,       \* the release that answers
  release,  \* the release in place
  state,    \* its state, as the number of its last write
  saved     \* during a trial, the release and the state to go back to

vars == <<up, release, state, saved>>

Init ==
  /\ release \in Tags \ Bad /\ up = release
  /\ state \in Nat /\ saved = None

ComeUp ==
  /\ up = None /\ release \notin Bad /\ up' = release
  /\ UNCHANGED <<release, state, saved>>

GoDown == up' = None /\ UNCHANGED <<release, state, saved>>

Write ==
  /\ up # None /\ state' \in Nat /\ state' > state
  /\ UNCHANGED <<up, release, saved>>

\* The release is exchanged under its state, which is saved with the old one.
Try(t) ==
  /\ up = None /\ saved = None
  /\ release' = t /\ saved' = [release |-> release, state |-> state]
  /\ UNCHANGED <<up, state>>

\* A first install is not on trial.
Install(t) ==
  /\ up = None /\ saved = None /\ t \notin Bad
  /\ release' = t
  /\ UNCHANGED <<up, state, saved>>

\* Only a release that comes up is kept; it may be when the machine reboots.
Keep ==
  /\ saved # None /\ release \notin Bad
  /\ saved' = None /\ up' \in {up, None}
  /\ UNCHANGED <<release, state>>

TakeBack ==
  /\ up = None /\ saved # None
  /\ release' = saved.release /\ state' = saved.state /\ saved' = None
  /\ UNCHANGED up

Next ==
  \/ ComeUp \/ GoDown \/ Write \/ Keep \/ TakeBack
  \/ \E t \in Tags : Try(t) \/ Install(t)

Spec == Init /\ [][Next]_vars
=============================================================================
