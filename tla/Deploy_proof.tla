---------------------------- MODULE Deploy_proof ----------------------------
(***************************************************************************)
(* Proofs about Deploy, for any releases, layouts, pins, writes, failures  *)
(* and stops: no state is lost or served stale, the web root follows the   *)
(* release that is served, no request is lost, and an update is an         *)
(* Upgrade.                                                                *)
(*                                                                         *)
(* The inductive invariant says, for every place in the play, which        *)
(* directory holds what.  DeployInv: where the play is (PlayInv), where    *)
(* the newest state is (StateInv), which unit may run (UnitInv) and where  *)
(* a release that does not come up may be named (BadInv).  On top of it    *)
(* stand WebInv (the web root against the trees), RequestInv (the request  *)
(* against its copies) and TrialInv, with which every step is one of an    *)
(* Upgrade.                                                                *)
(***************************************************************************)
EXTENDS Deploy, TLAPS

\* A run over an install of the role.
Existing == mode = "existing-ansible"
Early == {"stop", "migrate", "quarantine"}
Later == {"backup", "publish", "start", "gate"}

\* The machine has an install of the role, be it between two renames.
Owned == Managed \/ (pc = "promote" /\ Existing) \/ pc = "restore"

\* The quarantine has what a rollback needs.
Old == HasState("quarantine") /\ tree["quarantine"].tag # None

\* Where the play is: what it found, what it swapped and which tree is in place.
PlayInv ==
  /\ pc \in {"rewrite", "prepare"} \cup Cutover => target # None
  /\ pc \in {"promote", "restore"} => tree["app"] = None
  /\ pc \in Early => Existing = Managed /\ source = (IF Existing THEN "app" ELSE "standalone")
  /\ pc \in Later => Managed /\ tree["app"].tag = target
  /\ pc \in Rescue /\ pc # "restore" => Existing = Managed
  /\ pc \in {"moveFailed", "restore"} => Existing /\ "app" \in swapped
  /\ pc \in {"prepare", "promote"} \cup Early => swapped = {}
  /\ pc \in {"backup", "publish"} => swapped = {"app"}
  /\ pc \in {"start", "gate"} => swapped = {"app", "web"}
  /\ pc \in Rescue => /\ "web" \in swapped => "app" \in swapped
                      /\ ~Existing => swapped = {}

\* The newest state is in the tree in place, or in the standalone one until the role owns
\* the machine; the staging copy has it, and the quarantine what a rollback needs.
StateInv ==
  /\ Managed => HasState("app") /\ tree["app"].state = newest
  /\ ~Owned => /\ HasState("standalone") /\ tree["standalone"].state = newest
               /\ tree["standalone"].tag \notin Bad \cup {None}
  /\ pc \in {"stop", "migrate"} =>
       tree["staging"] = [tag |-> target, state |-> None, request |-> None]
  /\ pc \in {"quarantine", "promote"} =>
       tree["staging"] # None /\ tree["staging"].tag = target /\ tree["staging"].state = newest
  /\ pc = "promote" /\ Existing => Old /\ tree["quarantine"].state = newest
  /\ pc \in {"stopNew", "moveFailed", "restore"} \cup Later /\ Existing /\ "app" \in swapped => Old
  /\ pc = "restore" => HasState("failed") /\ tree["failed"].state = newest

\* Only the unit of the tree in place may run, and none while the trees are moved.
UnitInv ==
  /\ active \cup enabled \subseteq (IF Owned THEN {"app"} ELSE {"standalone"})
  /\ pc \in {"migrate", "quarantine", "promote", "backup", "publish", "start", "moveFailed", "restore"} =>
       active = {}
  /\ pc \in {"migrate", "quarantine", "promote"} /\ ~Existing => enabled = {}

\* Only a machine the role owns can be asked for a release that does not come up.
BadInv ==
  /\ ~Owned => /\ pin \notin Bad /\ target \notin Bad
               /\ \A d \in Places : RequestIn(d) \notin Bad
  /\ pc \in Later /\ ~Existing => target \notin Bad

\* The web root has the release of the tree in place; while the two differ, the rescue
\* can make them agree again.
WebInv ==
  /\ web.live = None => pc = "publish"
  /\ Managed /\ pc \notin {"backup", "publish"} \cup Rescue => web.live = tree["app"].tag
  /\ ~Owned => web.live = tree["standalone"].tag
  /\ pc \in {"promote", "backup"} /\ Existing => web.live = tree["quarantine"].tag
  /\ pc \in {"publish", "start", "gate"} =>
       web.backup # None /\ (Existing => web.backup = tree["quarantine"].tag)
  /\ pc \in {"stopNew", "moveFailed", "restore"} /\ "app" \in swapped =>
       tree["quarantine"].tag = IF "web" \in swapped THEN web.backup ELSE web.live
  /\ pc = "stopNew" /\ Existing /\ swapped = {} => web.live = tree["app"].tag
  /\ pc \in {"startOld", "restoreWeb"} /\ Existing =>
       tree["app"].tag = IF "web" \in swapped THEN web.backup ELSE web.live

\* A request is copied and moved with the tree it is in; what the applier has read is
\* what it removes.
RequestInv ==
  /\ ~Owned => RequestIn("app") = None /\ RequestIn("quarantine") = None
  /\ pc = "quarantine" /\ Existing => tree["staging"].request = tree["app"].request
  /\ pc = "promote" /\ Existing => tree["staging"].request = tree["quarantine"].request
  /\ pc \in {"rewrite", "consume"} => Queued = target
  /\ pc = "consume" => pin = target

DeployInv == TypeOK /\ PlayInv /\ StateInv /\ UnitInv /\ BadInv

\* No run is cut off between two renames, and no adoption fails after its promotion: the
\* points from which the code loses sight of the newest state.
Sound == "swap" \notin Weak /\ "adoption" \notin Weak

(***************************************************************************)
(* Invariance.                                                             *)
(***************************************************************************)
\* What answers is the unit of the tree in place, with the newest state, and no run is
\* moving the trees.
LEMMA PortTree ==
  ASSUME DeployInv, port # None
  PROVE  /\ Owned = Managed /\ pc # "restore" /\ (pc = "promote" => ~Existing)
         /\ pc \notin {"migrate", "quarantine", "promote", "backup", "publish", "start",
                       "moveFailed", "restore"}
         /\ port = (IF Managed THEN "app" ELSE "standalone")
         /\ port \in Units /\ tree[port] \in Trees
         /\ tree[port].state = newest /\ tree[port].tag # None
<1> USE DEF DeployInv
<1>1. port \in active /\ port \in Units
  BY DEF TypeOK
<1>2. pc \notin {"migrate", "quarantine", "promote", "backup", "publish", "start",
                 "moveFailed", "restore"}
  BY <1>1 DEF UnitInv
<1>3. Owned = Managed
  BY <1>2 DEF Owned, Managed
<1>4. port = (IF Managed THEN "app" ELSE "standalone")
  BY <1>1, <1>3 DEF UnitInv
<1>5. HasState(port) /\ tree[port].state = newest /\ tree[port].tag # None
  BY <1>3, <1>4 DEF StateInv, HasState, Managed
<1>6. tree[port] \in Trees
  BY <1>1, <1>5 DEF TypeOK, HasState, Places
<1> QED
  BY <1>1, <1>2, <1>3, <1>4, <1>5, <1>6

\* The agent that answers may replace its own state or request.
LEMMA PortWrites ==
  ASSUME DeployInv, port # None, NEW new \in Trees,
         new.tag = tree[port].tag, new.state = newest', new.state # None,
         tree' = [tree EXCEPT ![port] = new], newest' \in States,
         UNCHANGED <<web, units, run, pin>>,
         written' \in States, UNCHANGED <<faults, stops>>, pins' \in 0..MaxPins
  PROVE  TypeOK' /\ PlayInv' /\ StateInv' /\ UnitInv' /\ Owned' = Owned
<1> USE NoTree DEF DeployInv
<1>1. /\ Owned = Managed
      /\ pc \notin {"migrate", "quarantine", "promote", "backup", "publish", "start",
                    "moveFailed", "restore"}
      /\ port = (IF Managed THEN "app" ELSE "standalone")
      /\ port \in Units
      /\ tree[port].state = newest /\ tree[port].tag # None /\ tree[port] # None
  BY PortTree
<1>2. tree \in [Places -> Trees \cup {None}] /\ new # None
  BY DEF TypeOK
<1>3. tree' \in [Places -> Trees \cup {None}] /\ \A d \in Places : tree'[d] = IF d = port THEN new ELSE tree[d]
  BY <1>2
<1>4. /\ \A d \in {"staging", "quarantine", "failed"} : tree'[d] = tree[d]
      /\ port = "app" => tree'["app"] = new /\ tree'["standalone"] = tree["standalone"]
      /\ port = "standalone" => tree'["standalone"] = new /\ tree'["app"] = tree["app"]
      /\ port = "app" \/ port = "standalone"
  BY <1>1, <1>3 DEF Places, Units
<1>5. Managed' = Managed /\ Owned' = Owned /\ Existing' = Existing
  BY <1>1, <1>2, <1>4 DEF Managed, Owned, Existing, run
<1>6. TypeOK'
  BY <1>3 DEF TypeOK, units, run
<1>7. PlayInv'
  BY <1>1, <1>2, <1>4, <1>5 DEF PlayInv, run, Managed
<1>8. StateInv'
  BY <1>1, <1>2, <1>4, <1>5 DEF StateInv, run, Managed, HasState, Old, Rescue
<1>9. UnitInv'
  BY <1>5 DEF UnitInv, run, units
<1> QED
  BY <1>5, <1>6, <1>7, <1>8, <1>9

\* Only an update of an install can fail its health gate: what is adopted comes up.
LEMMA GateFailsExisting ==
  ASSUME DeployInv, GateFails
  PROVE  Existing
<1> USE DEF DeployInv
<1> SUFFICES ASSUME ~Existing PROVE FALSE
  OBVIOUS
<1>1. pc = "gate" /\ Managed /\ tree["app"].tag = target /\ HasState("app") /\ target \notin Bad
  BY DEF GateFails, Goto, PlayInv, StateInv, BadInv, Later
<1>2. target # None /\ Ready("app")
  BY <1>1 DEF Managed, Ready
<1>3. port # None
  BY <1>2 DEF GateFails
<1>4. port = "app"
  BY <1>1, <1>3, PortTree
<1> QED
  BY <1>1, <1>3, <1>4 DEF GateFails, Serving

\* A run that is not cut off between two renames leaves a tree in place.
LEMMA WholeTrees ==
  ASSUME DeployInv, Sound, ~Torn
  PROVE  /\ Owned = Managed /\ pc # "restore"
         /\ pc = "promote" => ~Existing /\ ~Managed
<1> USE DEF DeployInv
<1>1. pc \in {"promote", "restore"} => tree["quarantine"] = None
  BY DEF Torn, Sound
<1>2. pc # "restore" /\ (pc = "promote" => ~Existing)
  BY <1>1 DEF PlayInv, StateInv, Old, HasState
<1> QED
  BY <1>2 DEF Owned, Managed, PlayInv

\* The rescue puts the old tree back in place.
LEMMA RestoreManaged ==
  ASSUME DeployInv, Restore
  PROVE  Managed'
<1>1. Old /\ tree'["app"] = tree["quarantine"]
  BY DEF Restore, Goto, DeployInv, PlayInv, StateInv, TypeOK, Places, Units
<1> QED
  BY <1>1 DEF Managed, Old, HasState

\* One lemma for every action: the applier, the play, the owner and the agent, the
\* failures.
LEMMA ReadRequestKeeps ==
  ASSUME DeployInv, ReadRequest
  PROVE  DeployInv'
<1> USE DEF DeployInv
<1>1. Queued \in Releases \ {None} /\ (~Owned => Queued \notin Bad)
  BY Choices DEF ReadRequest, Queued, RequestIn, TypeOK, Trees, Places, Units, BadInv
<1>2. /\ pc = "idle" /\ pc' = "rewrite" /\ target' = Queued
      /\ UNCHANGED <<layout, units, mode, source, swapped, rest>>
  BY DEF ReadRequest
<1>3. Owned' = Owned /\ Managed' = Managed
  BY <1>2 DEF Owned, Managed, layout
<1>4. TypeOK'
  BY <1>1, <1>2 DEF TypeOK, layout, units, rest, Applier
<1>5. PlayInv' /\ StateInv' /\ UnitInv'
  BY <1>1, <1>2, <1>3 DEF PlayInv, StateInv, UnitInv, HasState, Early, Later, Rescue, Cutover,
     layout, units, rest
<1>6. BadInv'
  BY <1>1, <1>2, <1>3 DEF BadInv, RequestIn, Later, layout, rest
<1> QED
  BY <1>4, <1>5, <1>6

LEMMA RewritePinKeeps ==
  ASSUME DeployInv, RewritePin
  PROVE  DeployInv'
<1> USE DEF DeployInv
<1>1. /\ pc = "rewrite" /\ pc' = "consume" /\ pin' = target /\ target \in Tags
      /\ UNCHANGED <<layout, units, target, mode, source, swapped, written, pins, faults, stops, newest>>
  BY DEF RewritePin, TypeOK, PlayInv, Releases
<1>2. Owned' = Owned /\ Managed' = Managed
  BY <1>1 DEF Owned, Managed, layout
<1>3. TypeOK'
  BY <1>1 DEF TypeOK, layout, units, Applier
<1>4. PlayInv' /\ StateInv' /\ UnitInv'
  BY <1>1, <1>2 DEF PlayInv, StateInv, UnitInv, HasState, Early, Later, Rescue, Cutover,
     layout, units
<1>5. BadInv'
  BY <1>1, <1>2 DEF BadInv, RequestIn, Later, layout
<1> QED
  BY <1>3, <1>4, <1>5

LEMMA RewriteFailsKeeps ==
  ASSUME DeployInv, RewriteFails
  PROVE  DeployInv'
<1> USE DEF DeployInv
<1>1. /\ pc = "rewrite" /\ pc' = "deploy" /\ faults' \in 0..MaxFaults
      /\ UNCHANGED <<layout, units, target, mode, source, swapped, pin, written, pins, stops, newest>>
  BY Numbers DEF RewriteFails, TypeOK
<1>2. Owned' = Owned /\ Managed' = Managed
  BY <1>1 DEF Owned, Managed, layout
<1>3. TypeOK'
  BY <1>1 DEF TypeOK, layout, units, Applier
<1>4. PlayInv' /\ StateInv' /\ UnitInv'
  BY <1>1, <1>2 DEF PlayInv, StateInv, UnitInv, HasState, Early, Later, Rescue, Cutover,
     layout, units
<1>5. BadInv'
  BY <1>1, <1>2 DEF BadInv, RequestIn, Later, layout
<1> QED
  BY <1>3, <1>4, <1>5

LEMMA AlreadyAtKeeps ==
  ASSUME DeployInv, AlreadyAt
  PROVE  DeployInv'
<1> USE DEF DeployInv
<1>1. pc = "deploy" /\ pc' = "idle" /\ UNCHANGED <<layout, units, target, mode, source, swapped, rest>>
  BY DEF AlreadyAt
<1>2. Owned' = Owned /\ Managed' = Managed
  BY <1>1 DEF Owned, Managed, layout
<1>3. TypeOK'
  BY <1>1 DEF TypeOK, layout, units, rest, Applier
<1>4. PlayInv' /\ StateInv' /\ UnitInv'
  BY <1>1, <1>2 DEF PlayInv, StateInv, UnitInv, HasState, Early, Later, Rescue, Cutover,
     layout, units, rest
<1>5. BadInv'
  BY <1>1, <1>2 DEF BadInv, RequestIn, Later, layout, rest
<1> QED
  BY <1>3, <1>4, <1>5

LEMMA BeginKeeps ==
  ASSUME DeployInv, Begin
  PROVE  DeployInv'
<1> USE DEF DeployInv
<1>1. /\ pc \in {"deploy", "idle"} /\ pc' = "prepare" /\ target' = pin /\ swapped' = {}
      /\ pin \in Tags
      /\ UNCHANGED <<units, mode, source, rest>>
  BY DEF Begin, TypeOK
<1>2. /\ tree' \in [Places -> Trees \cup {None}]
      /\ \A d \in Places : tree'[d] = IF d \in {"quarantine", "failed"} THEN None ELSE tree[d]
  BY DEF Begin, TypeOK
<1>3. \A d \in {"app", "standalone", "staging"} : tree'[d] = tree[d]
  BY <1>2 DEF Places, Units
<1>4. Owned' = Owned /\ Managed' = Managed
  BY <1>1, <1>3 DEF Owned, Managed
<1>5. TypeOK'
  BY <1>1, <1>2 DEF Begin, TypeOK, units, rest, Releases
<1>6. PlayInv' /\ StateInv' /\ UnitInv'
  BY <1>1, <1>3, <1>4, TagType DEF PlayInv, StateInv, UnitInv, HasState, Early, Later, Rescue,
     Cutover, units, rest
<1>7. BadInv'
  <2>1. \A d \in Places : RequestIn(d)' \in {RequestIn(d), None}
    BY <1>2 DEF RequestIn
  <2> QED
    BY <1>1, <1>4, <2>1, TagType DEF BadInv, Later, rest
<1> QED
  BY <1>5, <1>6, <1>7

LEMMA PrepareKeeps ==
  ASSUME DeployInv, Prepare
  PROVE  DeployInv'
<1> USE DEF DeployInv
<1>1. pc = "prepare" /\ (Owned <=> Managed) /\ swapped = {}
  BY DEF Prepare, Owned, PlayInv
<1>2. /\ Managed => Detected = "existing-ansible"
      /\ ~Managed => Detected \in {"partial-adoption", "adopt-standalone"} /\ HasState("standalone")
  BY <1>1 DEF Detected, StateInv
<1>3. Detected # None => Detected \in Modes
  BY DEF Detected, Modes
<1>a. Authoritative(Detected) \in Units
  BY DEF Authoritative, Units
<1>4. CASE Detected = None
  <2>1. mode' = None /\ pc' = "idle" /\ UNCHANGED <<tree, source, web, units, target, swapped, rest>>
    BY <1>4 DEF Prepare
  <2>2. Owned' = Owned /\ Managed' = Managed
    BY <1>1, <2>1 DEF Owned, Managed
  <2>3. TypeOK'
    BY <2>1 DEF TypeOK, units, rest
  <2>4. PlayInv' /\ StateInv' /\ UnitInv'
    BY <1>1, <2>1, <2>2 DEF PlayInv, StateInv, UnitInv, HasState, Early, Later, Rescue,
       Cutover, units, rest
  <2>5. BadInv'
    BY <2>1, <2>2 DEF BadInv, RequestIn, Later, rest
  <2> QED
    BY <2>3, <2>4, <2>5
<1>5. CASE Detected # None
  <2> DEFINE new == [tag |-> target, state |-> None, request |-> None]
  <2>1. /\ mode' = Detected /\ pc' = "stop" /\ source' = Authoritative(Detected)
        /\ tree' = [tree EXCEPT !["staging"] = new]
        /\ UNCHANGED <<web, units, target, swapped, rest>>
    BY <1>5 DEF Prepare
  <2>2. new \in Trees
    BY DEF TypeOK, Trees, Releases
  <2>3. /\ tree' \in [Places -> Trees \cup {None}]
        /\ \A d \in Places : tree'[d] = IF d = "staging" THEN new ELSE tree[d]
    BY <2>1, <2>2 DEF TypeOK
  <2>4. tree'["staging"] = new /\ \A d \in {"app", "standalone"} : tree'[d] = tree[d]
    BY <2>3 DEF Places, Units
  <2>5. Owned' = Owned /\ Managed' = Managed
    BY <1>1, <2>1, <2>4 DEF Owned, Managed
  <2>6. Existing' = Managed /\ source' = IF Managed THEN "app" ELSE "standalone"
    BY <1>2, <2>1 DEF Existing, Authoritative, Managed
  <2>7. TypeOK'
    BY <1>3, <1>5, <1>a, <2>1, <2>3 DEF TypeOK, units, rest, Cutover
  <2>8. PlayInv'
    BY <1>1, <2>1, <2>5, <2>6 DEF PlayInv, Early, Later, Rescue, Cutover
  <2>9. StateInv'
    BY <1>1, <2>1, <2>4, <2>5 DEF StateInv, HasState, Later, Rescue, rest
  <2>10. UnitInv'
    BY <2>1, <2>5 DEF UnitInv, units
  <2>11. BadInv'
    <3>1. \A d \in Places : RequestIn(d)' \in {RequestIn(d), None}
      BY <2>3 DEF RequestIn
    <3> QED
      BY <2>1, <2>5, <3>1, TagType DEF BadInv, Later, rest
  <2> QED
    BY <2>7, <2>8, <2>9, <2>10, <2>11
<1> QED
  BY <1>4, <1>5

LEMMA StopOldKeeps ==
  ASSUME DeployInv, StopOld
  PROVE  DeployInv'
<1> USE DEF DeployInv
<1>1. /\ pc = "stop" /\ pc' = "migrate" /\ UNCHANGED <<target, mode, source, layout, swapped, rest>>
      /\ Existing = Managed /\ (Owned <=> Managed)
  BY DEF StopOld, Goto, PlayInv, Early, Owned
<1>2. /\ Existing => active' = active \ {"app"} /\ enabled' = enabled
      /\ ~Existing => active' = active \ {"standalone"} /\ enabled' = enabled \ {"standalone"}
      /\ port' \in active' \cup {None}
  BY DEF StopOld, Halted, Existing, TypeOK
<1>3. active' = {} /\ (~Existing => enabled' = {}) /\ enabled' \subseteq enabled
  BY <1>1, <1>2 DEF UnitInv
<1>4. Owned' = Owned /\ Managed' = Managed /\ Existing' = Existing
  BY <1>1 DEF Owned, Managed, Existing, layout
<1>5. TypeOK'
  BY <1>1, <1>2, <1>3 DEF TypeOK, layout, rest, Cutover
<1>6. PlayInv' /\ StateInv'
  BY <1>1, <1>4 DEF PlayInv, StateInv, HasState, Early, Later, Rescue, Cutover, layout, rest
<1>7. UnitInv'
  BY <1>1, <1>3, <1>4 DEF UnitInv
<1>8. BadInv'
  BY <1>1, <1>4 DEF BadInv, RequestIn, Later, layout, rest
<1> QED
  BY <1>5, <1>6, <1>7, <1>8

LEMMA MigrateKeeps ==
  ASSUME DeployInv, Migrate
  PROVE  DeployInv'
<1> USE NoTree DEF DeployInv
<1> DEFINE new == [tree[source] EXCEPT !.tag = target]
<1>1. /\ pc = "migrate" /\ pc' = "quarantine" /\ UNCHANGED <<target, mode, source, web, units, swapped, rest>>
      /\ Existing = Managed /\ (Owned <=> Managed)
      /\ source = (IF Existing THEN "app" ELSE "standalone")
  BY DEF Migrate, Goto, PlayInv, Early, Owned
<1>2. tree[source] \in Trees /\ tree[source].state = newest /\ newest # None
  <2>1. HasState(source) /\ tree[source].state = newest
    BY <1>1 DEF StateInv
  <2> QED
    BY <1>1, <2>1 DEF TypeOK, HasState, Places, Units
<1>3. new \in Trees /\ new.tag = target /\ new.state = newest /\ new.request = tree[source].request
  BY <1>2 DEF TypeOK, Trees
<1>4. tree' = [tree EXCEPT !["staging"] = new]
  BY <1>1 DEF Migrate, HasState, StateInv
<1> HIDE DEF new
<1>5. /\ tree' \in [Places -> Trees \cup {None}]
      /\ \A d \in Places : tree'[d] = IF d = "staging" THEN new ELSE tree[d]
  BY <1>3, <1>4 DEF TypeOK
<1>6. tree'["staging"] = new /\ \A d \in {"app", "standalone"} : tree'[d] = tree[d]
  BY <1>5 DEF Places, Units
<1>7. Owned' = Owned /\ Managed' = Managed /\ Existing' = Existing
  BY <1>1, <1>6 DEF Owned, Managed, Existing
<1>8. TypeOK'
  BY <1>1, <1>5 DEF TypeOK, units, rest, Cutover
<1>9. PlayInv'
  BY <1>1, <1>7 DEF PlayInv, Early, Later, Rescue, Cutover
<1>10. StateInv'
  BY <1>1, <1>3, <1>6, <1>7 DEF StateInv, HasState, Later, Rescue, rest
<1>11. UnitInv'
  BY <1>1, <1>7 DEF UnitInv, units
<1>12. BadInv'
  <2>1. RequestIn("staging")' = RequestIn(source)
    BY <1>2, <1>3, <1>6 DEF RequestIn
  <2>2. \A d \in Places \ {"staging"} : RequestIn(d)' = RequestIn(d)
    BY <1>5 DEF RequestIn
  <2>3. source \in Places
    BY <1>1 DEF Places, Units
  <2> QED
    BY <1>1, <1>7, <2>1, <2>2, <2>3 DEF BadInv, Later, rest
<1> QED
  BY <1>8, <1>9, <1>10, <1>11, <1>12

LEMMA QuarantineKeeps ==
  ASSUME DeployInv, Quarantine
  PROVE  DeployInv'
<1> USE DEF DeployInv
<1>1. /\ pc = "quarantine" /\ pc' = "promote"
      /\ UNCHANGED <<target, mode, source, web, units, swapped, rest>>
      /\ Existing = Managed /\ (Owned <=> Managed) /\ swapped = {}
  BY DEF Quarantine, Goto, PlayInv, Early, Owned
<1>2. /\ tree' \in [Places -> Trees \cup {None}]
      /\ \A d \in Places : tree'[d] = CASE d = "app" -> None
                                        [] d = "quarantine" -> tree["app"]
                                        [] OTHER -> tree[d]
  BY DEF Quarantine, TypeOK, Places, Units
<1>3. /\ tree'["app"] = None /\ tree'["quarantine"] = tree["app"]
      /\ \A d \in {"standalone", "staging", "failed"} : tree'[d] = tree[d]
  BY <1>2 DEF Places, Units
<1>4. ~Managed' /\ Existing' = Existing /\ (Owned' <=> Owned)
  BY <1>1, <1>3 DEF Owned, Managed, Existing
<1>5. TypeOK'
  BY <1>1, <1>2 DEF TypeOK, units, rest, Cutover
<1>6. PlayInv'
  BY <1>1, <1>3, <1>4 DEF PlayInv, Early, Later, Rescue, Cutover
<1>7. StateInv'
  BY <1>1, <1>3, <1>4 DEF StateInv, HasState, Managed, Old, Later, Rescue, rest
<1>8. UnitInv'
  BY <1>1, <1>4 DEF UnitInv, units
<1>9. BadInv'
  <2>1. RequestIn("app")' = None /\ RequestIn("quarantine")' = RequestIn("app")
    BY <1>3 DEF RequestIn
  <2>2. \A d \in {"standalone", "staging", "failed"} : RequestIn(d)' = RequestIn(d)
    BY <1>3 DEF RequestIn
  <2> QED
    BY <1>1, <1>4, <2>1, <2>2, TagType DEF BadInv, Later, rest, Places, Units
<1> QED
  BY <1>5, <1>6, <1>7, <1>8, <1>9

LEMMA PromoteKeeps ==
  ASSUME DeployInv, Promote
  PROVE  DeployInv'
<1> USE DEF DeployInv
<1>1. /\ pc = "promote" /\ pc' = "backup" /\ swapped' = {"app"}
      /\ UNCHANGED <<target, mode, source, web, units, rest>>
      /\ (Owned <=> Existing)
  BY DEF Promote, Goto, PlayInv, Owned, Managed
<1>2. /\ tree' \in [Places -> Trees \cup {None}]
      /\ \A d \in Places : tree'[d] = CASE d = "app" -> tree["staging"]
                                        [] d = "staging" -> None
                                        [] OTHER -> tree[d]
  BY DEF Promote, TypeOK, Places, Units
<1>3. /\ tree'["app"] = tree["staging"] /\ tree'["quarantine"] = tree["quarantine"]
  BY <1>2 DEF Places, Units
<1>4. /\ tree["staging"] # None /\ tree["staging"].tag = target /\ tree["staging"].state = newest
      /\ target # None /\ newest # None
  BY <1>1, TagType DEF StateInv, TypeOK, States, PlayInv, Cutover
<1>5. Managed' /\ Owned' /\ Existing' = Existing
  BY <1>1, <1>3, <1>4 DEF Owned, Managed, Existing
<1>6. TypeOK'
  BY <1>1, <1>2 DEF TypeOK, units, rest, Cutover
<1>7. PlayInv'
  BY <1>1, <1>3, <1>4, <1>5 DEF PlayInv, Early, Later, Rescue, Cutover
<1>8. StateInv'
  BY <1>1, <1>3, <1>4, <1>5 DEF StateInv, HasState, Old, Later, Rescue, rest
<1>9. UnitInv'
  BY <1>1, <1>5 DEF UnitInv, units
<1>10. BadInv'
  BY <1>1, <1>5 DEF BadInv
<1> QED
  BY <1>6, <1>7, <1>8, <1>9, <1>10

LEMMA BackupWebKeeps ==
  ASSUME DeployInv, BackupWeb
  PROVE  DeployInv'
<1> USE DEF DeployInv
<1>1. /\ pc = "backup" /\ pc' = "publish" /\ web' = [live |-> None, backup |-> web.live]
      /\ UNCHANGED <<target, mode, source, tree, units, swapped, rest>>
  BY DEF BackupWeb, Goto
<1>2. Owned' = Owned /\ Managed' = Managed /\ Existing' = Existing
  BY <1>1 DEF Owned, Managed, Existing
<1>3. TypeOK'
  BY <1>1 DEF TypeOK, units, rest, Cutover, Releases
<1>4. PlayInv' /\ StateInv' /\ UnitInv'
  BY <1>1, <1>2 DEF PlayInv, StateInv, UnitInv, HasState, Old, Early, Later, Rescue, Cutover,
     units, rest
<1>5. BadInv'
  BY <1>1, <1>2 DEF BadInv, RequestIn, Later, rest
<1> QED
  BY <1>3, <1>4, <1>5

LEMMA PublishKeeps ==
  ASSUME DeployInv, Publish
  PROVE  DeployInv'
<1> USE DEF DeployInv
<1>1. /\ pc = "publish" /\ pc' = "start" /\ swapped = {"app"} /\ swapped' = {"app", "web"}
      /\ UNCHANGED <<target, mode, source, tree, units, rest>>
  BY DEF Publish, Goto, PlayInv
<1>2. Owned' = Owned /\ Managed' = Managed /\ Existing' = Existing
  BY <1>1 DEF Owned, Managed, Existing
<1>3. tree["app"].tag \in Releases
  BY <1>1 DEF PlayInv, Later, TypeOK
<1>4. web' \in [live : Releases, backup : Releases]
  BY <1>3 DEF Publish, TypeOK
<1>5. TypeOK'
  BY <1>1, <1>4 DEF TypeOK, units, rest, Cutover
<1>6. PlayInv' /\ StateInv' /\ UnitInv'
  BY <1>1, <1>2 DEF PlayInv, StateInv, UnitInv, HasState, Old, Early, Later, Rescue, Cutover,
     units, rest
<1>7. BadInv'
  BY <1>1, <1>2 DEF BadInv, RequestIn, Later, rest
<1> QED
  BY <1>5, <1>6, <1>7

LEMMA StartKeeps ==
  ASSUME DeployInv, Start
  PROVE  DeployInv'
<1> USE DEF DeployInv
<1>1. /\ pc = "start" /\ pc' = "gate"
      /\ UNCHANGED <<target, mode, source, layout, port, swapped, rest>>
      /\ enabled' = enabled \cup {"app"} /\ active' = active \cup {"app"}
  BY DEF Start, Goto
<1>2. Owned /\ Owned' /\ Managed' = Managed /\ Existing' = Existing
  BY <1>1 DEF Owned, Managed, Existing, layout, PlayInv, Later
<1>3. TypeOK'
  BY <1>1 DEF TypeOK, layout, rest, Cutover, Units
<1>4. PlayInv' /\ StateInv'
  BY <1>1, <1>2 DEF PlayInv, StateInv, HasState, Old, Early, Later, Rescue, Cutover, layout,
     rest
<1>5. UnitInv'
  BY <1>1, <1>2 DEF UnitInv
<1>6. BadInv'
  BY <1>1, <1>2 DEF BadInv, RequestIn, Later, layout, rest
<1> QED
  BY <1>3, <1>4, <1>5, <1>6

LEMMA GateKeeps ==
  ASSUME DeployInv, Gate
  PROVE  DeployInv'
<1> USE DEF DeployInv
<1>1. /\ pc = "gate" /\ pc' = "idle" /\ Managed
      /\ UNCHANGED <<target, mode, source, layout, units, swapped, rest>>
  BY DEF Gate, Goto, PlayInv, Later
<1>2. Owned' = Owned /\ Managed' = Managed /\ Existing' = Existing
  BY <1>1 DEF Owned, Managed, Existing, layout
<1>3. TypeOK'
  BY <1>1 DEF TypeOK, layout, units, rest
<1>4. PlayInv' /\ StateInv' /\ UnitInv'
  BY <1>1, <1>2 DEF PlayInv, StateInv, UnitInv, HasState, Early, Later, Rescue, Cutover,
     layout, units, rest
<1>5. BadInv'
  BY <1>1, <1>2 DEF BadInv, RequestIn, Later, layout, rest
<1> QED
  BY <1>3, <1>4, <1>5

LEMMA GateFailsKeeps ==
  ASSUME DeployInv, GateFails
  PROVE  DeployInv'
<1> USE DEF DeployInv
<1>1. /\ pc = "gate" /\ pc' = "stopNew" /\ Managed /\ Existing /\ swapped = {"app", "web"}
      /\ UNCHANGED <<target, mode, source, layout, units, swapped, rest>>
  BY GateFailsExisting DEF GateFails, Goto, PlayInv, Later
<1>2. Owned' = Owned /\ Managed' = Managed /\ Existing' = Existing
  BY <1>1 DEF Owned, Managed, Existing, layout
<1>3. TypeOK'
  BY <1>1 DEF TypeOK, layout, units, rest, Rescue
<1>4. PlayInv' /\ StateInv' /\ UnitInv'
  BY <1>1, <1>2 DEF PlayInv, StateInv, UnitInv, HasState, Old, Early, Later, Rescue, Cutover,
     layout, units, rest
<1>5. BadInv'
  BY <1>1, <1>2 DEF BadInv, RequestIn, Later, layout, rest
<1> QED
  BY <1>3, <1>4, <1>5

LEMMA StopNewKeeps ==
  ASSUME DeployInv, StopNew
  PROVE  DeployInv'
<1> USE DEF DeployInv
<1>1. /\ pc = "stopNew" /\ Existing = Managed /\ (Owned <=> Managed)
      /\ pc' = IF Existing /\ "app" \in swapped THEN "moveFailed" ELSE "startOld"
      /\ UNCHANGED <<target, mode, source, layout, swapped, rest>>
      /\ active' = active \ {"app"} /\ enabled' = enabled \ {"app"}
      /\ port' \in active' \cup {None}
  BY DEF StopNew, Goto, Halted, PlayInv, Rescue, Owned, Managed, Existing, TypeOK
<1>2. Managed' = Managed /\ Existing' = Existing /\ (Owned' <=> Owned)
  BY <1>1 DEF Owned, Managed, Existing, layout
<1>3. TypeOK'
  BY <1>1 DEF TypeOK, layout, rest, Rescue
<1>4. PlayInv' /\ StateInv'
  BY <1>1, <1>2 DEF PlayInv, StateInv, HasState, Old, Early, Later, Rescue, Cutover, layout,
     rest
<1>5. UnitInv'
  BY <1>1, <1>2 DEF UnitInv
<1>6. BadInv'
  BY <1>1, <1>2 DEF BadInv, RequestIn, Later, layout, rest
<1> QED
  BY <1>3, <1>4, <1>5, <1>6

LEMMA MoveFailedKeeps ==
  ASSUME DeployInv, MoveFailed
  PROVE  DeployInv'
<1> USE DEF DeployInv
<1>1. /\ pc = "moveFailed" /\ pc' = "restore" /\ Managed /\ Existing /\ "app" \in swapped
      /\ UNCHANGED <<target, mode, source, web, units, swapped, rest>>
  BY DEF MoveFailed, Goto, PlayInv, Rescue, Managed, Existing
<1>2. /\ tree' \in [Places -> Trees \cup {None}]
      /\ \A d \in Places : tree'[d] = CASE d = "app" -> None
                                        [] d = "failed" -> tree["app"]
                                        [] OTHER -> tree[d]
  BY DEF MoveFailed, TypeOK, Places, Units
<1>3. /\ tree'["app"] = None /\ tree'["failed"] = tree["app"]
      /\ \A d \in {"standalone", "staging", "quarantine"} : tree'[d] = tree[d]
  BY <1>2 DEF Places, Units
<1>4. ~Managed' /\ Existing' /\ Owned /\ Owned'
  BY <1>1, <1>3 DEF Owned, Managed, Existing
<1>5. TypeOK'
  BY <1>1, <1>2 DEF TypeOK, units, rest, Rescue
<1>6. PlayInv'
  BY <1>1, <1>3, <1>4 DEF PlayInv, Early, Later, Rescue, Cutover
<1>7. StateInv'
  BY <1>1, <1>3, <1>4 DEF StateInv, HasState, Managed, Old, Later, Rescue, rest
<1>8. UnitInv'
  BY <1>1, <1>4 DEF UnitInv, units
<1>9. BadInv'
  BY <1>1, <1>4 DEF BadInv, Later
<1> QED
  BY <1>5, <1>6, <1>7, <1>8, <1>9

LEMMA RestoreKeeps ==
  ASSUME DeployInv, Restore
  PROVE  DeployInv'
<1> USE DEF DeployInv
<1>1. /\ pc = "restore" /\ pc' = "startOld" /\ Existing /\ Old
      /\ newest' = tree["quarantine"].state
      /\ UNCHANGED <<target, mode, source, web, units, swapped, pin, written, pins, faults, stops>>
  BY DEF Restore, Goto, PlayInv, StateInv
<1>2. /\ tree' \in [Places -> Trees \cup {None}]
      /\ \A d \in Places : tree'[d] = CASE d = "app" -> tree["quarantine"]
                                        [] d = "quarantine" -> None
                                        [] OTHER -> tree[d]
  BY DEF Restore, TypeOK, Places, Units
<1>3. tree'["app"] = tree["quarantine"]
  BY <1>2 DEF Places, Units
<1>4. tree["quarantine"] \in Trees /\ newest' \in States
  BY <1>1 DEF Old, HasState, TypeOK, Places, Trees
<1>5. Managed' /\ Existing' /\ Owned /\ Owned'
  BY <1>1, <1>3 DEF Owned, Managed, Existing, Old, HasState
<1>6. TypeOK'
  BY <1>1, <1>2, <1>4 DEF TypeOK, units, Rescue
<1>7. PlayInv'
  BY <1>1, <1>5 DEF PlayInv, Early, Later, Rescue, Cutover
<1>8. StateInv'
  BY <1>1, <1>3, <1>5 DEF StateInv, HasState, Old, Later, Rescue
<1>9. UnitInv'
  BY <1>1, <1>5 DEF UnitInv, units
<1>10. BadInv'
  BY <1>1, <1>5 DEF BadInv, Later
<1> QED
  BY <1>6, <1>7, <1>8, <1>9, <1>10

LEMMA StartOldKeeps ==
  ASSUME DeployInv, StartOld
  PROVE  DeployInv'
<1> USE DEF DeployInv
<1>1. /\ pc = "startOld" /\ pc' = "restoreWeb" /\ Existing = Managed /\ (Owned <=> Managed)
      /\ UNCHANGED <<target, mode, source, layout, port, swapped, rest>>
  BY DEF StartOld, Goto, PlayInv, Rescue, Owned
<1>2. /\ Existing => active' \subseteq active \cup {"app"} /\ active \subseteq active' /\ enabled' = enabled
      /\ ~Existing => active' = active \cup {"standalone"} /\ enabled' = enabled \cup {"standalone"}
  BY DEF StartOld, Existing
<1>3. Managed' = Managed /\ Existing' = Existing /\ (Owned' <=> Owned)
  BY <1>1 DEF Owned, Managed, Existing, layout
<1>4. TypeOK'
  BY <1>1, <1>2 DEF TypeOK, layout, rest, Rescue, Units
<1>5. PlayInv' /\ StateInv'
  BY <1>1, <1>3 DEF PlayInv, StateInv, HasState, Old, Early, Later, Rescue, Cutover, layout,
     rest
<1>6. UnitInv'
  BY <1>1, <1>2, <1>3 DEF UnitInv
<1>7. BadInv'
  BY <1>1, <1>3 DEF BadInv, RequestIn, Later, layout, rest
<1> QED
  BY <1>4, <1>5, <1>6, <1>7

LEMMA RestoreWebKeeps ==
  ASSUME DeployInv, RestoreWeb
  PROVE  DeployInv'
<1> USE DEF DeployInv
<1>1. /\ pc = "restoreWeb" /\ pc' = "idle"
      /\ UNCHANGED <<target, mode, source, tree, units, swapped, rest>>
      /\ web' \in [live : Releases, backup : Releases]
  BY DEF RestoreWeb, Goto, TypeOK, Releases
<1>2. Owned' = Owned /\ Managed' = Managed /\ Existing' = Existing
  BY <1>1 DEF Owned, Managed, Existing
<1>3. TypeOK'
  BY <1>1 DEF TypeOK, units, rest
<1>4. PlayInv' /\ StateInv' /\ UnitInv'
  BY <1>1, <1>2 DEF PlayInv, StateInv, UnitInv, HasState, Early, Later, Rescue, Cutover,
     units, rest
<1>5. BadInv'
  BY <1>1, <1>2 DEF BadInv, RequestIn, Later, rest
<1> QED
  BY <1>3, <1>4, <1>5

LEMMA ConsumeKeeps ==
  ASSUME DeployInv, Consume
  PROVE  DeployInv'
<1> USE NoTree DEF DeployInv
<1> DEFINE new == [tree[Spool] EXCEPT !.request = None]
<1>1. /\ pc = "consume" /\ pc' = "deploy" /\ Spool \in Units
      /\ UNCHANGED <<web, units, target, mode, source, swapped, rest>>
  BY Choices DEF Consume, Units
<1>2. CASE tree[Spool] = None
  <2>1. tree' = tree
    BY <1>2 DEF Consume
  <2>2. Owned' = Owned /\ Managed' = Managed
    BY <1>1, <2>1 DEF Owned, Managed
  <2> QED
    BY <1>1, <2>1, <2>2
       DEF TypeOK, PlayInv, StateInv, UnitInv, BadInv, HasState, RequestIn, Early, Later,
          Rescue, Cutover, Applier, units, rest
<1>3. CASE tree[Spool] # None
  <2>1. tree[Spool] \in Trees /\ tree' = [tree EXCEPT ![Spool] = new]
    BY <1>1, <1>3 DEF Consume, TypeOK, Places
  <2>2. new \in Trees /\ new.tag = tree[Spool].tag /\ new.state = tree[Spool].state /\ new.request = None
    BY <2>1 DEF Trees, Releases
  <2> HIDE DEF new
  <2>3. /\ tree' \in [Places -> Trees \cup {None}]
        /\ \A d \in Places : tree'[d] = IF d = Spool THEN new ELSE tree[d]
    BY <2>1, <2>2 DEF TypeOK
  <2>4. \A d \in Places : /\ tree'[d] = None <=> tree[d] = None
                          /\ tree[d] # None => tree'[d].tag = tree[d].tag /\ tree'[d].state = tree[d].state
    BY <1>3, <2>2, <2>3
  <2>5. \A d \in {"app", "standalone"} :
              /\ tree'[d] = None <=> tree[d] = None
              /\ tree[d] # None => tree'[d].tag = tree[d].tag /\ tree'[d].state = tree[d].state
    BY <2>4 DEF Places, Units
  <2>6. Owned' = Owned /\ Managed' = Managed /\ HasState("app")' = HasState("app")
        /\ HasState("standalone")' = HasState("standalone")
    BY <1>1, <2>5 DEF Owned, Managed, HasState
  <2>7. TypeOK'
    BY <1>1, <2>3 DEF TypeOK, Applier, units, rest
  <2>8. PlayInv' /\ UnitInv'
    BY <1>1, <2>6 DEF PlayInv, UnitInv, Early, Later, Rescue, Cutover, units
  <2>9. StateInv'
    BY <1>1, <2>5, <2>6 DEF StateInv, HasState, Early, Later, Rescue, Cutover, rest
  <2>10. BadInv'
    <3>1. \A d \in Places : RequestIn(d)' \in {RequestIn(d), None}
      BY <1>3, <2>2, <2>3 DEF RequestIn
    <3> QED
      BY <1>1, <2>6, <3>1, TagType DEF BadInv, Later, rest
  <2> QED
    BY <2>7, <2>8, <2>9, <2>10
<1> QED
  BY <1>2, <1>3

LEMMA WriteKeeps ==
  ASSUME DeployInv, Write
  PROVE  DeployInv'
<1> USE DEF DeployInv
<1> DEFINE new == [tree[port] EXCEPT !.state = written + 1]
<1>1. port # None /\ tree[port] \in Trees /\ written \in States /\ written + 1 \in States
  <2>1. port # None /\ tree[port] \in Trees
    BY PortTree DEF Write
  <2>2. written \in 0..MaxWrites /\ written < MaxWrites
    BY DEF Write, TypeOK, States
  <2> QED
    BY <2>1, <2>2, Numbers DEF States
<1>2. new \in Trees /\ new.tag = tree[port].tag /\ new.state = written + 1 /\ new.request = tree[port].request
  BY <1>1 DEF Trees
<1>3. tree' = [tree EXCEPT ![port] = new] /\ newest' = written + 1 /\ written' = written + 1
  BY DEF Write
<1>4. new.state # None
  BY <1>1, TagType, Numbers DEF States
<1>5. TypeOK' /\ PlayInv' /\ StateInv' /\ UnitInv' /\ Owned' = Owned
  <2> HIDE DEF new
  <2> QED
    BY <1>1, <1>2, <1>3, <1>4, PortWrites DEF Write, TypeOK
<1>6. BadInv'
  <2> HIDE DEF new
  <2>1. \A d \in Places : RequestIn(d)' = RequestIn(d)
    BY <1>1, <1>2, <1>3, NoTree DEF TypeOK, RequestIn
  <2> QED
    BY <1>5, <2>1 DEF BadInv, Write, run, Existing
<1> QED
  BY <1>5, <1>6

LEMMA RequestKeeps ==
  ASSUME DeployInv, Sound, NEW t \in Tags, Request(t)
  PROVE  DeployInv'
<1> USE DEF DeployInv
<1> DEFINE new == [tree[port] EXCEPT !.request = t]
<1>1. port # None /\ tree[port] \in Trees /\ tree[port].state = newest /\ newest \in States
  BY PortTree DEF Request, TypeOK
<1>2. new \in Trees /\ new.tag = tree[port].tag /\ new.state = newest /\ new.request = t
  BY <1>1 DEF Trees, Releases
<1>3. tree' = [tree EXCEPT ![port] = new] /\ newest' = newest /\ pins' \in 0..MaxPins
  BY Numbers DEF Request, TypeOK
<1>4. new.state # None
  BY <1>1, <1>2, TagType, Numbers DEF States
<1>5. TypeOK' /\ PlayInv' /\ StateInv' /\ UnitInv' /\ Owned' = Owned
  <2> HIDE DEF new
  <2> QED
    BY <1>1, <1>2, <1>3, <1>4, PortWrites DEF Request, TypeOK
<1>6. BadInv'
  <2> HIDE DEF new
  <2>1. \A d \in Places : RequestIn(d)' = RequestIn(d) \/ RequestIn(d)' = t
    BY <1>1, <1>2, <1>3, NoTree DEF TypeOK, RequestIn
  <2>2. t \in Bad => Owned
    BY DEF Request, Deployable, Sound, Owned
  <2> QED
    BY <1>5, <2>1, <2>2 DEF BadInv, Request, run, Existing
<1> QED
  BY <1>5, <1>6

LEMMA CancelKeeps ==
  ASSUME DeployInv, Cancel
  PROVE  DeployInv'
<1> USE DEF DeployInv
<1> DEFINE new == [tree[port] EXCEPT !.request = None]
<1>1. port # None /\ tree[port] \in Trees /\ tree[port].state = newest /\ newest \in States
  BY PortTree DEF Cancel, TypeOK
<1>2. new \in Trees /\ new.tag = tree[port].tag /\ new.state = newest /\ new.request = None
  BY <1>1 DEF Trees, Releases
<1>3. tree' = [tree EXCEPT ![port] = new] /\ newest' = newest
  BY DEF Cancel, rest
<1>4. new.state # None
  BY <1>1, <1>2, TagType, Numbers DEF States
<1>5. TypeOK' /\ PlayInv' /\ StateInv' /\ UnitInv' /\ Owned' = Owned
  <2> HIDE DEF new
  <2> QED
    BY <1>1, <1>2, <1>3, <1>4, PortWrites DEF Cancel, rest, TypeOK
<1>6. BadInv'
  <2> HIDE DEF new
  <2>1. \A d \in Places : RequestIn(d)' = RequestIn(d) \/ RequestIn(d)' = None
    BY <1>1, <1>2, <1>3, NoTree DEF TypeOK, RequestIn
  <2>2. None \notin Bad
    BY TagType
  <2> QED
    BY <1>5, <2>1, <2>2 DEF BadInv, Cancel, run, rest, Existing
<1> QED
  BY <1>5, <1>6

LEMMA PinKeeps ==
  ASSUME DeployInv, Sound, NEW t \in Tags, Pin(t)
  PROVE  DeployInv'
<1> USE DEF DeployInv
<1>1. /\ pin' = t /\ pins' \in 0..MaxPins
      /\ UNCHANGED <<layout, units, run, written, faults, stops, newest>>
  BY Numbers DEF Pin, TypeOK
<1>2. Owned' = Owned /\ Managed' = Managed /\ Existing' = Existing
  BY <1>1 DEF Owned, Managed, Existing, layout, run
<1>3. t \in Bad => Owned
  BY DEF Pin, Deployable, Sound, Owned
<1>4. TypeOK'
  BY <1>1 DEF TypeOK, layout, units, run
<1>5. PlayInv' /\ StateInv' /\ UnitInv'
  BY <1>1, <1>2 DEF PlayInv, StateInv, UnitInv, HasState, Old, Early, Later, Rescue, Cutover,
     layout, units, run
<1>6. BadInv'
  BY <1>1, <1>2, <1>3 DEF BadInv, RequestIn, layout, run
<1> QED
  BY <1>4, <1>5, <1>6

LEMMA GrabKeeps ==
  ASSUME DeployInv, NEW u \in Units, Grab(u)
  PROVE  DeployInv'
<1> USE DEF DeployInv
<1>1. u \in active /\ port' = u /\ UNCHANGED <<layout, enabled, active, run, rest>>
  BY DEF Grab
<1>2. Owned' = Owned /\ Managed' = Managed /\ Existing' = Existing
  BY <1>1 DEF Owned, Managed, Existing, layout, run
<1>3. TypeOK'
  BY <1>1 DEF TypeOK, layout, run, rest
<1>4. PlayInv' /\ StateInv' /\ UnitInv'
  BY <1>1, <1>2 DEF PlayInv, StateInv, UnitInv, HasState, Old, Early, Later, Rescue, Cutover,
     layout, run, rest
<1>5. BadInv'
  BY <1>1, <1>2 DEF BadInv, RequestIn, layout, run, rest
<1> QED
  BY <1>3, <1>4, <1>5

LEMMA AgentDiesKeeps ==
  ASSUME DeployInv, AgentDies
  PROVE  DeployInv'
<1> USE DEF DeployInv
<1>1. /\ port' = None /\ faults' \in 0..MaxFaults
      /\ UNCHANGED <<layout, enabled, active, run, pin, written, pins, stops, newest>>
  BY Numbers DEF AgentDies, TypeOK
<1>2. Owned' = Owned /\ Managed' = Managed /\ Existing' = Existing
  BY <1>1 DEF Owned, Managed, Existing, layout, run
<1>3. TypeOK'
  BY <1>1 DEF TypeOK, layout, run
<1>4. PlayInv' /\ StateInv' /\ UnitInv'
  BY <1>1, <1>2 DEF PlayInv, StateInv, UnitInv, HasState, Old, Early, Later, Rescue, Cutover,
     layout, run
<1>5. BadInv'
  BY <1>1, <1>2 DEF BadInv, RequestIn, layout, run
<1> QED
  BY <1>3, <1>4, <1>5

LEMMA FailKeeps ==
  ASSUME DeployInv, Sound, Fail
  PROVE  DeployInv'
<1> USE DEF DeployInv
<1>1. /\ pc \in (Cutover \ {"stop"}) \cup {"prepare"}
      /\ pc' = IF pc = "prepare" THEN "idle" ELSE "stopNew"
      /\ UNCHANGED <<target, mode, source, layout, units, swapped, pin, written, pins, stops, newest>>
  BY DEF Fail, Goto
<1>a. faults' \in 0..MaxFaults
  <2>1. faults \in 0..MaxFaults /\ faults < MaxFaults /\ faults' = faults + 1
    BY DEF Fail, TypeOK
  <2> QED
    BY <2>1, Numbers
<1>2. /\ Owned = Managed /\ pc # "restore"
      /\ pc = "promote" => ~Existing /\ ~Managed
  BY WholeTrees DEF Fail
<1>3. Existing \/ "app" \notin swapped
  BY DEF Fail, Stranded, Sound, Existing
<1>4. pc # "prepare" => Existing = Managed
  BY <1>1, <1>2, <1>3 DEF PlayInv, Cutover, Early, Later, Managed, Existing
<1>5. Managed' = Managed /\ Existing' = Existing /\ Owned' = Managed
  BY <1>1 DEF Owned, Managed, Existing, layout
<1>6. TypeOK'
  BY <1>1, <1>a DEF TypeOK, layout, units, Rescue
<1>7. PlayInv'
  BY <1>1, <1>2, <1>3, <1>4, <1>5 DEF PlayInv, Early, Later, Rescue, Cutover
<1>8. StateInv'
  BY <1>1, <1>2, <1>5 DEF StateInv, PlayInv, HasState, Old, Early, Later, Rescue, Cutover,
     layout
<1>9. UnitInv'
  BY <1>1, <1>2, <1>5 DEF UnitInv, units
<1>10. BadInv'
  BY <1>1, <1>2, <1>5 DEF BadInv, RequestIn, Later, layout
<1> QED
  BY <1>6, <1>7, <1>8, <1>9, <1>10

LEMMA KilledKeeps ==
  ASSUME DeployInv, Sound, Killed
  PROVE  DeployInv'
<1> USE DEF DeployInv
<1>1. /\ pc' = "idle" /\ stops' \in 0..MaxStops
      /\ UNCHANGED <<target, mode, source, layout, units, swapped, pin, written, pins, faults, newest>>
  BY Numbers DEF Killed, Goto, TypeOK
<1>2. Owned = Managed
  BY WholeTrees DEF Killed
<1>3. Managed' = Managed /\ Existing' = Existing /\ Owned' = Managed
  BY <1>1 DEF Owned, Managed, Existing, layout
<1>4. TypeOK'
  BY <1>1 DEF TypeOK, layout, units
<1>5. PlayInv' /\ StateInv' /\ UnitInv'
  BY <1>1, <1>2, <1>3 DEF PlayInv, StateInv, UnitInv, HasState, Early, Later, Rescue, Cutover,
     layout, units
<1>6. BadInv'
  BY <1>1, <1>2, <1>3 DEF BadInv, RequestIn, Later, layout
<1> QED
  BY <1>4, <1>5, <1>6

LEMMA RebootKeeps ==
  ASSUME DeployInv, Sound, Reboot
  PROVE  DeployInv'
<1> USE DEF DeployInv
<1>1. /\ pc' = "idle" /\ stops' \in 0..MaxStops /\ active' = enabled /\ port' = None
      /\ UNCHANGED <<target, mode, source, layout, enabled, swapped, pin, written, pins, faults, newest>>
  BY Numbers DEF Reboot, Goto, TypeOK
<1>2. Owned = Managed
  BY WholeTrees DEF Reboot
<1>3. Managed' = Managed /\ Existing' = Existing /\ Owned' = Managed
  BY <1>1 DEF Owned, Managed, Existing, layout
<1>4. TypeOK'
  BY <1>1 DEF TypeOK, layout
<1>5. PlayInv' /\ StateInv' /\ UnitInv'
  BY <1>1, <1>2, <1>3 DEF PlayInv, StateInv, UnitInv, HasState, Early, Later, Rescue, Cutover,
     layout
<1>6. BadInv'
  BY <1>1, <1>2, <1>3 DEF BadInv, RequestIn, Later, layout
<1> QED
  BY <1>4, <1>5, <1>6

\* The machine the program first finds.
LEMMA DeployStart == Init => DeployInv /\ WebInv /\ RequestInv
<1> SUFFICES ASSUME Init PROVE DeployInv /\ WebInv /\ RequestInv
  OBVIOUS
<1>1. PICK t \in Tags \ Bad, l \in Layouts :
        /\ tree = [d \in Places |-> IF d \in Units THEN Install(t)[l][d] ELSE None]
        /\ port = IF l \in {"managed", "leftover"} THEN "app" ELSE "standalone"
        /\ pin = t /\ web = [live |-> t, backup |-> None]
  BY DEF Init
<1>2. /\ tree["app"] = Install(t)[l].app /\ tree["standalone"] = Install(t)[l].standalone
      /\ tree["staging"] = None /\ tree["quarantine"] = None /\ tree["failed"] = None
      /\ l \in {"managed", "leftover", "standalone", "partial"}
  BY <1>1, Choices DEF Places, Units
<1>3. /\ Tree(t, 1) \in Trees /\ Tree(t, 0) \in Trees /\ Tree(None, 0) \in Trees
      /\ Tree(t, 1).tag = t /\ Tree(t, 0).tag = t /\ Tree(None, 0).tag = None
      /\ Tree(t, 1).state = 1 /\ Tree(t, 0).state = 0 /\ Tree(None, 0).state = 0
      /\ Tree(t, 1).request = None /\ Tree(None, 0).request = None /\ Tree(t, 0).request = None
  BY Numbers DEF Tree, Trees, Releases, States
<1>4. /\ l = "managed" => tree["app"] = Tree(t, 1) /\ tree["standalone"] = None
      /\ l = "leftover" => tree["app"] = Tree(t, 1) /\ tree["standalone"] = Tree(t, 0)
      /\ l = "standalone" => tree["app"] = None /\ tree["standalone"] = Tree(t, 1)
      /\ l = "partial" => tree["app"] = Tree(None, 0) /\ tree["standalone"] = Tree(t, 1)
  BY <1>2 DEF Install
<1>5. /\ pc = "idle" /\ target = None /\ mode = None /\ source = None /\ swapped = {}
      /\ written = 1 /\ newest = 1 /\ pins = 0 /\ faults = 0 /\ stops = 0
      /\ enabled = {port} /\ active = {port}
  BY DEF Init
<1>6. t \in Tags /\ t \notin Bad /\ t # None /\ None \notin Bad /\ 1 \in States /\ \A r \in Trees : r # None
  BY TagType, NoTree, Numbers DEF States
<1>7. /\ Managed <=> l \in {"managed", "leftover"}
      /\ Owned <=> Managed
  BY <1>2, <1>3, <1>4, <1>5, <1>6 DEF Managed, Owned
<1>8. TypeOK
  <2>1. tree \in [Places -> Trees \cup {None}]
    <3>1. \A d \in {"app", "standalone"} : tree[d] \in Trees \cup {None}
      BY <1>2, <1>3, <1>4
    <3>2. \A d \in Places : tree[d] \in Trees \cup {None}
      BY <1>2, <3>1 DEF Places, Units
    <3> QED
      BY <1>1, <3>2
  <2>2. /\ 0 \in 0..MaxPins /\ 0 \in 0..MaxFaults /\ 0 \in 0..MaxStops
    BY Numbers
  <2> QED
    BY <1>1, <1>5, <1>6, <2>1, <2>2 DEF TypeOK, Releases, Units
<1>9. PlayInv
  BY <1>5 DEF PlayInv, Early, Later, Rescue, Cutover
<1>10. StateInv
  BY <1>2, <1>3, <1>4, <1>5, <1>6, <1>7, TagType DEF StateInv, HasState, Later
<1>11. UnitInv
  BY <1>1, <1>5, <1>7 DEF UnitInv
<1>12. BadInv /\ RequestInv
  <2>1. \A d \in Places : RequestIn(d) = None
    BY <1>2, <1>3, <1>4 DEF RequestIn, Places, Units
  <2> QED
    BY <1>1, <1>5, <1>6, <2>1 DEF BadInv, RequestInv, Later, Places, Units
<1>13. WebInv
  BY <1>1, <1>2, <1>3, <1>4, <1>5, <1>6, <1>7 DEF WebInv, Rescue
<1> QED
  BY <1>8, <1>9, <1>10, <1>11, <1>12, <1>13 DEF DeployInv

\* Every step of the deployment keeps the invariant.
LEMMA DeployStep ==
  ASSUME DeployInv, Sound, [Next]_vars
  PROVE  DeployInv'
<1>1. CASE UNCHANGED vars
  <2>1. /\ UNCHANGED <<layout, units, run, rest>>
        /\ Owned' = Owned /\ Managed' = Managed
    BY <1>1 DEF vars, layout, run, Owned, Managed, Existing
  <2>2. TypeOK'
    BY <2>1 DEF DeployInv, TypeOK, layout, units, run, rest
  <2>3. PlayInv' /\ UnitInv'
    BY <2>1 DEF DeployInv, PlayInv, UnitInv, Existing, layout, units, run, Managed
  <2>4. StateInv' /\ BadInv'
    BY <2>1 DEF DeployInv, StateInv, BadInv, HasState, Old, RequestIn, Existing, layout, run,
       rest
  <2> QED
    BY <2>2, <2>3, <2>4 DEF DeployInv
<1>2. CASE RunStep
  BY <1>2, ReadRequestKeeps, RewritePinKeeps, ConsumeKeeps, AlreadyAtKeeps, BeginKeeps,
     PrepareKeeps, StopOldKeeps, MigrateKeeps, QuarantineKeeps, PromoteKeeps, BackupWebKeeps,
     PublishKeeps, StartKeeps, GateKeeps, GateFailsKeeps, StopNewKeeps, MoveFailedKeeps,
     RestoreKeeps, StartOldKeeps, RestoreWebKeeps DEF RunStep
<1>3. CASE Next /\ ~RunStep
  BY <1>3, WriteKeeps, PinKeeps, RequestKeeps, CancelKeeps, RewriteFailsKeeps, GrabKeeps,
     AgentDiesKeeps, FailKeeps, KilledKeeps, RebootKeeps DEF Next
<1> QED
  BY <1>1, <1>2, <1>3

\* NewestKept follows, also while the play moves the trees.
LEMMA NewestFollows == DeployInv => NewestKept
<1> SUFFICES ASSUME DeployInv PROVE NewestKept
  OBVIOUS
<1>1. port # None => tree[port].state = newest
  BY PortTree
<1>2. \E d \in Places \ {"staging"} : HasState(d) /\ tree[d].state = newest
  <2>1. CASE Managed
    BY <2>1 DEF DeployInv, StateInv, Places, Units
  <2>2. CASE pc = "restore"
    BY <2>2 DEF DeployInv, StateInv, Places, Units
  <2>3. CASE pc = "promote" /\ Existing
    BY <2>3 DEF DeployInv, StateInv, Old, Places, Units
  <2>4. CASE ~Owned
    BY <2>4 DEF DeployInv, StateInv, Places, Units
  <2> QED
    BY <2>1, <2>2, <2>3, <2>4 DEF Owned
<1> QED
  BY <1>1, <1>2 DEF NewestKept, DeployInv

(***************************************************************************)
(* The web root and the requests.                                          *)
(***************************************************************************)
\* What the agent does changes no release.
LEMMA SameTags ==
  ASSUME DeployInv, Write \/ Cancel \/ Consume \/ \E t \in Tags : Request(t)
  PROVE  /\ \A d \in Places : (tree'[d] = None <=> tree[d] = None) /\ tree'[d].tag = tree[d].tag
         /\ UNCHANGED <<web, target, mode, swapped>>
         /\ Managed' = Managed /\ Owned' = Owned
         /\ pc' = pc \/ (pc = "consume" /\ pc' = "deploy")
<1> USE DEF DeployInv
<1>1. \A d \in Places : (tree'[d] = None <=> tree[d] = None) /\ tree'[d].tag = tree[d].tag
  <2> DEFINE Same == \A d \in Places : (tree'[d] = None <=> tree[d] = None) /\ tree'[d].tag = tree[d].tag
  <2>1. ASSUME NEW p \in Places, tree[p] \in Trees, NEW new \in Trees, new.tag = tree[p].tag,
               tree' = [tree EXCEPT ![p] = new]
        PROVE  Same
    <3>1. \A d \in Places : tree'[d] = IF d = p THEN new ELSE tree[d]
      BY <2>1 DEF TypeOK
    <3> QED
      BY <2>1, <3>1, NoTree
  <2>2. ASSUME NEW p \in Places, tree[p] \in Trees, NEW t \in Releases, tree' = [tree EXCEPT ![p].request = t]
        PROVE  Same
    <3>1. [tree[p] EXCEPT !.request = t] \in Trees /\ [tree[p] EXCEPT !.request = t].tag = tree[p].tag
      BY <2>2 DEF Trees
    <3> QED
      BY <2>1, <2>2, <3>1
  <2>3. CASE Write
    <3>1. tree[port] \in Trees /\ port \in Places /\ tree' = [tree EXCEPT ![port].state = written + 1]
      BY <2>3, PortTree DEF Write, Places
    <3>2. written + 1 \in States
      <4>1. written \in 0..MaxWrites /\ written < MaxWrites
        BY <2>3 DEF Write, TypeOK, States
      <4> QED
        BY <4>1, Numbers DEF States
    <3>3. /\ [tree[port] EXCEPT !.state = written + 1] \in Trees
          /\ [tree[port] EXCEPT !.state = written + 1].tag = tree[port].tag
      BY <3>1, <3>2 DEF Trees
    <3> QED
      BY <2>1, <3>1, <3>3
  <2>4. CASE Cancel
    <3>1. tree[port] \in Trees /\ port \in Places /\ tree' = [tree EXCEPT ![port].request = None]
      BY <2>4, PortTree DEF Cancel, Places
    <3> QED
      BY <2>2, <3>1 DEF Releases
  <2>5. CASE Consume
    <3>1. CASE tree[Spool] = None
      BY <2>5, <3>1 DEF Consume
    <3>2. CASE tree[Spool] # None
      <4>1. tree[Spool] \in Trees /\ Spool \in Places /\ tree' = [tree EXCEPT ![Spool].request = None]
        BY <2>5, <3>2, Choices DEF Consume, TypeOK, Places, Units
      <4> QED
        BY <2>2, <4>1 DEF Releases
    <3> QED
      BY <3>1, <3>2
  <2>6. ASSUME NEW t \in Tags, Request(t)
        PROVE  Same
    <3>1. tree[port] \in Trees /\ port \in Places /\ tree' = [tree EXCEPT ![port].request = t]
      BY <2>6, PortTree DEF Request, Places
    <3> QED
      BY <2>2, <3>1 DEF Releases
  <2> QED
    BY <2>3, <2>4, <2>5, <2>6
<1>2. UNCHANGED <<web, target, mode, swapped>> /\ (pc' = pc \/ (pc = "consume" /\ pc' = "deploy"))
  BY DEF Write, Cancel, Consume, Request, run
<1>3. Managed' = Managed
  BY <1>1 DEF Managed, Places, Units
<1> QED
  BY <1>1, <1>2, <1>3 DEF Owned, Managed, Existing

\* Every step keeps the web root's release beside the tree's.
LEMMA WebStep ==
  ASSUME DeployInv, DeployInv', WebInv, Sound, "web" \notin Weak, Next
  PROVE  WebInv'
<1>1. CASE Write \/ Cancel \/ Consume \/ \E t \in Tags : Request(t)
  <2>1. /\ tree'["app"].tag = tree["app"].tag /\ tree'["standalone"].tag = tree["standalone"].tag
        /\ tree'["quarantine"].tag = tree["quarantine"].tag
        /\ UNCHANGED <<web, target, mode, swapped>> /\ Managed' = Managed /\ Owned' = Owned
        /\ pc' = pc \/ (pc = "consume" /\ pc' = "deploy")
    BY <1>1, SameTags DEF Places, Units
  <2> QED
    BY <2>1 DEF WebInv, Existing, Rescue
<1>2. CASE ReadRequest \/ RewritePin \/ RewriteFails \/ AlreadyAt \/ AgentDies
           \/ (\E t \in Tags : Pin(t)) \/ \E u \in Units : Grab(u)
  <2>1. /\ UNCHANGED <<layout, mode, swapped>>
        /\ pc' = pc \/ (pc \in {"idle", "rewrite", "consume", "deploy"} /\ pc' \in {"idle", "rewrite", "consume", "deploy"})
    BY <1>2 DEF ReadRequest, RewritePin, RewriteFails, AlreadyAt, AgentDies, Pin, Grab, run
  <2>2. Managed' = Managed /\ Owned' = Owned
    BY <2>1 DEF Managed, Owned, layout, Existing
  <2> QED
    BY <2>1, <2>2 DEF WebInv, Existing, Rescue, layout
<1>3. CASE Begin
  <2>1. /\ tree'["app"] = tree["app"] /\ tree'["standalone"] = tree["standalone"]
        /\ pc \in {"deploy", "idle"} /\ pc' = "prepare" /\ web' = [web EXCEPT !.backup = None]
        /\ mode' = mode /\ swapped' = {}
    BY <1>3 DEF Begin, DeployInv, TypeOK, Places, Units
  <2>2. Managed' = Managed /\ (Owned' <=> Owned)
    BY <2>1 DEF Managed, Owned
  <2>3. web'.live = web.live
    BY <2>1 DEF DeployInv, TypeOK
  <2> QED
    BY <2>1, <2>2, <2>3 DEF WebInv, Rescue
<1>4. CASE Prepare \/ StopOld \/ Migrate
  <2>1. /\ tree'["app"] = tree["app"] /\ tree'["standalone"] = tree["standalone"]
        /\ pc \in {"prepare", "stop", "migrate"} /\ pc' \in {"idle", "stop", "migrate", "quarantine"} /\ web' = web
    BY <1>4 DEF Prepare, StopOld, Migrate, Goto, layout, DeployInv, TypeOK, Places, Units
  <2>2. Managed' = Managed /\ (Owned' <=> Owned)
    BY <2>1 DEF Managed, Owned
  <2> QED
    BY <2>1, <2>2 DEF WebInv, Rescue
<1>5. CASE Quarantine
  <2>1. /\ tree'["app"] = None /\ tree'["quarantine"] = tree["app"] /\ tree'["standalone"] = tree["standalone"]
        /\ pc = "quarantine" /\ pc' = "promote" /\ UNCHANGED <<web, mode>>
    BY <1>5 DEF Quarantine, Goto, DeployInv, TypeOK, Places, Units
  <2>2. Existing' = Existing /\ Existing = Managed /\ (Owned <=> Managed) /\ (Owned' <=> Existing) /\ ~Managed'
    BY <2>1 DEF Managed, Owned, Existing, DeployInv, PlayInv, Early
  <2> QED
    BY <2>1, <2>2 DEF WebInv, Rescue
<1>6. CASE Promote
  <2>1. /\ tree'["quarantine"] = tree["quarantine"] /\ tree'["standalone"] = tree["standalone"]
        /\ pc = "promote" /\ pc' = "backup" /\ UNCHANGED <<web, mode>>
    BY <1>6 DEF Promote, Goto, DeployInv, TypeOK, Places, Units
  <2>2. Existing' = Existing /\ Owned'
    BY <2>1 DEF Managed, Owned, Existing, DeployInv, PlayInv, Later
  <2> QED
    BY <2>1, <2>2 DEF WebInv, Rescue
<1>7. CASE BackupWeb
  <2>1. /\ pc = "backup" /\ pc' = "publish" /\ web' = [live |-> None, backup |-> web.live]
        /\ UNCHANGED <<tree, mode>> /\ Owned'
    BY <1>7 DEF BackupWeb, Goto, DeployInv, PlayInv, Later, Owned
  <2> QED
    BY <2>1 DEF WebInv, Existing, Rescue
<1>8. CASE Publish
  <2>1. /\ pc = "publish" /\ pc' = "start" /\ web' = [web EXCEPT !.live = tree["app"].tag]
        /\ UNCHANGED <<tree, mode>> /\ Owned' /\ Managed
    BY <1>8 DEF Publish, Goto, DeployInv, PlayInv, Later, Owned
  <2>2. web'.live = tree["app"].tag /\ web'.backup = web.backup /\ tree["app"].tag # None
    BY <2>1 DEF DeployInv, TypeOK, Managed
  <2> QED
    BY <2>1, <2>2 DEF WebInv, Existing, Rescue
<1>9. CASE Start \/ Gate
  <2>1. /\ UNCHANGED <<layout, mode, swapped>> /\ pc \in {"start", "gate"} /\ pc' \in {"gate", "idle"}
        /\ (pc' = "gate" => pc = "start")
        /\ Managed' = Managed /\ Owned'
    BY <1>9 DEF Start, Gate, Goto, DeployInv, PlayInv, Later, layout, Managed, Owned
  <2> QED
    BY <2>1 DEF WebInv, Existing, Rescue, layout
<1>10. CASE GateFails
  <2>1. /\ UNCHANGED <<layout, mode, swapped>> /\ pc = "gate" /\ pc' = "stopNew"
        /\ swapped = {"app", "web"} /\ Existing /\ Owned'
    BY <1>10, GateFailsExisting DEF GateFails, Goto, DeployInv, PlayInv, Later, layout,
       Managed, Owned
  <2> QED
    BY <2>1 DEF WebInv, Existing, Rescue, layout
<1>11. CASE Fail
  <2>1. /\ UNCHANGED <<layout, mode, swapped>> /\ pc \in (Cutover \ {"stop"}) \cup {"prepare"}
        /\ pc' = IF pc = "prepare" THEN "idle" ELSE "stopNew"
    BY <1>11 DEF Fail, Goto
  <2>2. Existing \/ "app" \notin swapped
    BY <1>11 DEF Fail, Stranded, Sound, Existing
  <2>3. pc # "publish"
    <3>1. pc = "publish" => web.backup # None
      BY DEF WebInv
    <3> QED
      BY <1>11, <3>1 DEF Fail, Torn
  <2>4. /\ Owned = Managed /\ pc # "restore"
        /\ pc = "promote" => ~Existing /\ ~Managed
    BY <1>11, WholeTrees DEF Fail
  <2>5. Managed' = Managed /\ Existing' = Existing /\ Owned' = Managed
    BY <2>1 DEF Owned, Managed, Existing, layout
  <2>6. CASE pc \in {"prepare", "migrate", "quarantine", "promote"}
    <3>1. swapped = {} /\ (Managed => web.live = tree["app"].tag)
      BY <2>6 DEF WebInv, DeployInv, PlayInv, Early, Rescue
    <3>2. pc # "prepare" => Existing = Managed
      BY <2>4, <2>6 DEF DeployInv, PlayInv, Early, Existing, Managed
    <3>3. web.live # None /\ (~Managed => web.live = tree["standalone"].tag)
      BY <2>4, <2>6 DEF WebInv
    <3>4. pc' = "idle" \/ (pc' = "stopNew" /\ Existing = Managed)
      BY <2>1, <3>2
    <3> HIDE DEF Existing, Managed
    <3> QED
      BY <2>1, <2>5, <3>1, <3>3, <3>4 DEF WebInv, Rescue, layout
  <2>7. CASE pc \in {"backup", "start", "gate"}
    <3>1. /\ swapped = IF pc = "backup" THEN {"app"} ELSE {"app", "web"}
          /\ Managed
      BY <2>7 DEF DeployInv, PlayInv, Later
    <3> QED
      BY <2>1, <2>2, <2>5, <2>7, <3>1 DEF WebInv, Rescue, layout
  <2> QED
    BY <2>1, <2>3, <2>6, <2>7 DEF Cutover
<1>12. CASE StopNew
  <2>1. /\ UNCHANGED <<layout, mode, swapped>> /\ pc = "stopNew"
        /\ pc' = IF Existing /\ "app" \in swapped THEN "moveFailed" ELSE "startOld"
        /\ Existing = Managed /\ (Owned <=> Managed)
        /\ "web" \in swapped => "app" \in swapped
        /\ swapped \subseteq {"app", "web"}
    BY <1>12 DEF StopNew, Goto, Existing, DeployInv, TypeOK, PlayInv, Rescue, Owned, Managed
  <2>2. Managed' = Managed /\ Existing' = Existing /\ (Owned' <=> Managed)
    BY <2>1 DEF Owned, Managed, Existing, layout
  <2>3. "app" \notin swapped => swapped = {}
    BY <2>1
  <2> QED
    BY <2>1, <2>2, <2>3 DEF WebInv, Rescue, layout
<1>13. CASE MoveFailed
  <2>1. /\ tree'["quarantine"] = tree["quarantine"] /\ UNCHANGED <<web, mode, swapped>>
        /\ pc = "moveFailed" /\ pc' = "restore" /\ tree'["app"] = None
    BY <1>13 DEF MoveFailed, Goto, DeployInv, TypeOK, Places, Units
  <2>2. Owned' /\ ~Managed'
    BY <2>1 DEF Owned, Managed
  <2> QED
    BY <2>1, <2>2 DEF WebInv, Rescue
<1>14. CASE Restore
  <2>1. /\ tree'["app"] = tree["quarantine"] /\ UNCHANGED <<web, mode, swapped>>
        /\ pc = "restore" /\ pc' = "startOld" /\ "app" \in swapped /\ Old
    BY <1>14 DEF Restore, Goto, DeployInv, TypeOK, PlayInv, StateInv, Places, Units
  <2>2. Owned' /\ Managed'
    BY <2>1 DEF Owned, Managed, Old, HasState
  <2> QED
    BY <2>1, <2>2 DEF WebInv, Rescue
<1>15. CASE StartOld
  <2>1. /\ UNCHANGED <<layout, mode, swapped>> /\ pc = "startOld" /\ pc' = "restoreWeb"
    BY <1>15 DEF StartOld, Goto
  <2>2. Managed' = Managed /\ Existing' = Existing /\ (Owned' <=> Owned)
    BY <2>1 DEF Owned, Managed, Existing, layout
  <2> QED
    BY <2>1, <2>2 DEF WebInv, Rescue, layout
<1>16. CASE RestoreWeb
  <2>1. /\ UNCHANGED <<tree, mode, swapped>> /\ pc = "restoreWeb" /\ pc' = "idle"
        /\ web' = IF "web" \in swapped /\ web.backup # None
                    THEN [live |-> web.backup, backup |-> None] ELSE web
        /\ Existing = Managed /\ (~Existing => swapped = {})
    BY <1>16 DEF RestoreWeb, Goto, DeployInv, PlayInv, Rescue
  <2>2. Managed' = Managed /\ Existing' = Existing /\ (Owned' <=> Managed) /\ (Owned <=> Managed)
    BY <2>1 DEF Owned, Managed, Existing
  <2>3. Managed => tree["app"].tag # None
    BY DEF Managed
  <2> QED
    BY <2>1, <2>2, <2>3 DEF WebInv, Rescue
<1>17. CASE Killed \/ Reboot
  <2>1. UNCHANGED <<layout, mode, swapped>> /\ pc' = "idle" /\ ~Torn /\ ~Mixed
    BY <1>17 DEF Killed, Reboot, Goto
  <2>2. Managed' = Managed /\ (Owned' <=> Managed) /\ (Owned <=> Managed)
    BY <2>1, WholeTrees DEF Owned, Managed, layout
  <2>3. Managed => web.live = tree["app"].tag /\ tree["app"].tag # None
    BY <2>1 DEF Mixed, Managed
  <2>4. ~Managed => web.live # None
    BY <2>2 DEF WebInv, DeployInv, PlayInv, Later
  <2> QED
    BY <2>1, <2>2, <2>3, <2>4 DEF WebInv, Rescue, layout
<1> QED
  BY <1>1, <1>2, <1>3, <1>4, <1>5, <1>6, <1>7, <1>8, <1>9, <1>10, <1>11, <1>12, <1>13, <1>14,
     <1>15, <1>16, <1>17 DEF Next, RunStep

\* What the port's unit and the applier do to the requests on disk.
LEMMA RequestsNow ==
  ASSUME DeployInv
  PROVE  /\ Write => \A d \in Places : RequestIn(d)' = RequestIn(d)
         /\ Cancel => \A d \in Places : RequestIn(d)' = IF d = port THEN None ELSE RequestIn(d)
         /\ Consume => \A d \in Places : RequestIn(d)' = IF d = Spool THEN None ELSE RequestIn(d)
         /\ \A t \in Tags : Request(t) =>
               \A d \in Places : RequestIn(d)' = IF d = port THEN t ELSE RequestIn(d)
<1> USE NoTree DEF DeployInv
<1>1. ASSUME NEW p \in Places, tree[p] \in Trees, NEW new \in Trees, tree' = [tree EXCEPT ![p] = new]
      PROVE  \A d \in Places : RequestIn(d)' = IF d = p THEN new.request ELSE RequestIn(d)
  <2>1. \A d \in Places : tree'[d] = IF d = p THEN new ELSE tree[d]
    BY <1>1 DEF TypeOK
  <2> QED
    BY <1>1, <2>1 DEF RequestIn
<1>2. ASSUME NEW p \in Places, tree[p] \in Trees, NEW t \in Releases, tree' = [tree EXCEPT ![p].request = t]
      PROVE  \A d \in Places : RequestIn(d)' = IF d = p THEN t ELSE RequestIn(d)
  <2>1. [tree[p] EXCEPT !.request = t] \in Trees /\ [tree[p] EXCEPT !.request = t].request = t
    BY <1>2 DEF Trees
  <2> QED
    BY <1>1, <1>2, <2>1
<1>3. ASSUME Write PROVE \A d \in Places : RequestIn(d)' = RequestIn(d)
  <2>1. tree[port] \in Trees /\ port \in Places /\ tree' = [tree EXCEPT ![port].state = written + 1]
    BY <1>3, PortTree DEF Write, Places
  <2>2. written + 1 \in States
    <3>1. written \in 0..MaxWrites /\ written < MaxWrites
      BY <1>3 DEF Write, TypeOK, States
    <3> QED
      BY <3>1, Numbers DEF States
  <2>3. /\ [tree[port] EXCEPT !.state = written + 1] \in Trees
        /\ [tree[port] EXCEPT !.state = written + 1].request = tree[port].request
    BY <2>1, <2>2 DEF Trees
  <2>4. RequestIn(port) = tree[port].request
    BY <2>1 DEF RequestIn
  <2> QED
    BY <1>1, <2>1, <2>3, <2>4
<1>4. ASSUME Cancel PROVE \A d \in Places : RequestIn(d)' = IF d = port THEN None ELSE RequestIn(d)
  <2>1. tree[port] \in Trees /\ port \in Places /\ tree' = [tree EXCEPT ![port].request = None]
    BY <1>4, PortTree DEF Cancel, Places
  <2> QED
    BY <1>2, <2>1 DEF Releases
<1>5. ASSUME Consume PROVE \A d \in Places : RequestIn(d)' = IF d = Spool THEN None ELSE RequestIn(d)
  <2>1. CASE tree[Spool] = None
    BY <1>5, <2>1 DEF Consume, RequestIn
  <2>2. CASE tree[Spool] # None
    <3>1. tree[Spool] \in Trees /\ Spool \in Places /\ tree' = [tree EXCEPT ![Spool].request = None]
      BY <1>5, <2>2, Choices DEF Consume, TypeOK, Places, Units
    <3> QED
      BY <1>2, <3>1 DEF Releases
  <2> QED
    BY <2>1, <2>2
<1>6. ASSUME NEW t \in Tags, Request(t)
      PROVE  \A d \in Places : RequestIn(d)' = IF d = port THEN t ELSE RequestIn(d)
  <2>1. tree[port] \in Trees /\ port \in Places /\ tree' = [tree EXCEPT ![port].request = t]
    BY <1>6, PortTree DEF Request, Places
  <2> QED
    BY <1>2, <2>1 DEF Releases
<1> QED
  BY <1>3, <1>4, <1>5, <1>6

\* Every step keeps the requests where the applier or the next tree finds them.
LEMMA RequestStep ==
  ASSUME DeployInv, RequestInv, Sound, "cancel" \notin Weak, Next
  PROVE  RequestInv'
<1> USE DEF DeployInv
<1>0. Spool \in {"app", "standalone"} /\ Queued = RequestIn(Spool) /\ Queued' = RequestIn(Spool)'
  BY Choices DEF Queued
<1>1. CASE Write \/ Cancel \/ \E t \in Tags : Request(t)
  <2>1. /\ port # None /\ UNCHANGED run /\ pc \notin {"quarantine", "promote"}
        /\ port = (IF Managed THEN "app" ELSE "standalone")
        /\ Owned' = Owned /\ Owned = Managed
    BY <1>1, PortTree, SameTags DEF Write, Cancel, Request
  <2>2. ~Owned => RequestIn("app")' = RequestIn("app") /\ RequestIn("quarantine")' = RequestIn("quarantine")
    BY <1>1, <2>1, RequestsNow DEF Places, Units
  <2>3. pc \in {"rewrite", "consume"} => RequestIn(Spool)' = RequestIn(Spool)
    <3> SUFFICES ASSUME pc \in {"rewrite", "consume"} PROVE RequestIn(Spool)' = RequestIn(Spool)
      OBVIOUS
    <3>1. RequestIn(Spool) # None
      <4>1. target # None
        <5>1. pc = "consume" => pin # None
          BY TagType DEF TypeOK
        <5> QED
          BY <5>1 DEF RequestInv, PlayInv
      <4> QED
        BY <1>0, <4>1 DEF RequestInv
    <3>2. CASE Write
      BY <1>0, <3>2, RequestsNow DEF Places, Units
    <3>3. CASE Cancel
      <4>1. port # Spool
        BY <3>3 DEF Cancel
      <4> QED
        BY <1>0, <3>3, <4>1, RequestsNow DEF Places, Units
    <3>4. ASSUME NEW t \in Tags, Request(t) PROVE RequestIn(Spool)' = RequestIn(Spool)
      <4>1. RequestIn(port) = None
        BY <3>4 DEF Request, RequestIn
      <4> QED
        BY <1>0, <3>1, <3>4, <4>1, RequestsNow DEF Places, Units
    <3> QED
      BY <1>1, <3>2, <3>3, <3>4
  <2> QED
    BY <1>0, <1>1, <2>1, <2>2, <2>3 DEF RequestInv, run, Write, Cancel, Request, rest
<1>2. CASE Consume
  <2>1. pc' = "deploy" /\ Owned' = Owned
    BY <1>2, SameTags DEF Consume
  <2> QED
    BY <1>2, <2>1, RequestsNow DEF RequestInv, Places, Units
<1>3. CASE ReadRequest \/ RewritePin \/ RewriteFails \/ AlreadyAt \/ AgentDies
           \/ (\E t \in Tags : Pin(t)) \/ \E u \in Units : Grab(u)
  <2>1. /\ UNCHANGED <<tree, mode>>
        /\ \/ pc' = pc /\ target' = target /\ (pc = "consume" => pin' = pin)
           \/ ReadRequest /\ pc' = "rewrite" /\ target' = Queued
           \/ RewritePin /\ pc = "rewrite" /\ pc' = "consume" /\ target' = target /\ pin' = target
           \/ pc' \in {"deploy", "idle"}
    BY <1>3 DEF ReadRequest, RewritePin, RewriteFails, AlreadyAt, AgentDies, Pin, Grab, run,
       layout, rest
  <2>2. (Owned => Owned') /\ \A d : RequestIn(d)' = RequestIn(d)
    BY <1>3, <2>1 DEF Owned, Managed, Existing, RequestIn, ReadRequest, RewritePin,
       RewriteFails, AlreadyAt,
                     AgentDies, Pin, Grab, run
  <2>3. Existing' = Existing
    BY <2>1 DEF Existing
  <2> QED
    BY <1>0, <2>1, <2>2, <2>3 DEF RequestInv, RequestIn
<1>4. CASE Begin
  <2>1. /\ tree'["app"] = tree["app"] /\ tree'["quarantine"] = None
        /\ pc \in {"idle", "deploy"} /\ pc' = "prepare"
    BY <1>4 DEF Begin, TypeOK, Places, Units
  <2>2. Managed' = Managed /\ (Owned <=> Managed) /\ (Owned' <=> Managed)
    BY <2>1 DEF Managed, Owned
  <2> QED
    BY <2>1, <2>2 DEF RequestInv, RequestIn
<1>5. CASE Prepare \/ StopOld
  <2>1. /\ tree'["app"] = tree["app"] /\ tree'["quarantine"] = tree["quarantine"]
        /\ pc \in {"prepare", "stop"} /\ pc' \in {"idle", "stop", "migrate"}
    BY <1>5 DEF Prepare, StopOld, Goto, layout, TypeOK, Places, Units
  <2>2. Managed' = Managed /\ (Owned <=> Managed) /\ (Owned' <=> Managed)
    BY <2>1 DEF Managed, Owned
  <2> QED
    BY <2>1, <2>2 DEF RequestInv, RequestIn
<1>6. CASE Migrate
  <2> DEFINE new == [tree[source] EXCEPT !.tag = target]
  <2>1. /\ tree'["app"] = tree["app"] /\ tree'["quarantine"] = tree["quarantine"]
        /\ pc = "migrate" /\ pc' = "quarantine" /\ mode' = mode
        /\ tree["staging"].state = None
    BY <1>6 DEF Migrate, Goto, TypeOK, Places, Units, StateInv
  <2>2. Managed' = Managed /\ (Owned <=> Managed) /\ (Owned' <=> Managed) /\ Existing' = Existing
    BY <2>1 DEF Managed, Owned, Existing
  <2>3. Existing => tree'["staging"].request = tree["app"].request
    <3> SUFFICES ASSUME Existing PROVE tree'["staging"].request = tree["app"].request
      OBVIOUS
    <3>1. source = "app" /\ tree["app"] \in Trees
      BY <2>1 DEF PlayInv, Early, Managed, TypeOK, Places, Units
    <3>2. tree'["staging"] = new
      BY <1>6, <2>1 DEF Migrate, HasState, TypeOK, Places
    <3>3. new.request = tree["app"].request
      BY <3>1 DEF Trees
    <3> QED
      BY <3>2, <3>3
  <2> QED
    BY <2>1, <2>2, <2>3 DEF RequestInv, RequestIn
<1>7. CASE Quarantine
  <2>1. /\ tree'["app"] = None /\ tree'["quarantine"] = tree["app"] /\ tree'["staging"] = tree["staging"]
        /\ pc = "quarantine" /\ pc' = "promote" /\ mode' = mode
    BY <1>7 DEF Quarantine, Goto, TypeOK, Places, Units
  <2>2. Existing' = Existing /\ Existing = Managed /\ (Owned <=> Managed) /\ (Owned' <=> Managed)
    BY <2>1 DEF Managed, Owned, Existing, PlayInv, Early
  <2> QED
    BY <2>1, <2>2 DEF RequestInv, RequestIn
<1>8. CASE Promote \/ MoveFailed \/ Restore
  <2>1. Owned' /\ pc' \in {"backup", "restore", "startOld"}
    <3>1. DeployInv' /\ pc' \in {"backup", "restore", "startOld"} /\ (pc' = "startOld" => Managed')
      BY <1>8, PromoteKeeps, MoveFailedKeeps, RestoreKeeps, RestoreManaged DEF Promote,
         MoveFailed, Restore, Goto
    <3> QED
      BY <3>1 DEF Owned, PlayInv, Later
  <2> QED
    BY <2>1 DEF RequestInv
<1>9. CASE BackupWeb \/ Publish \/ Start \/ Gate \/ GateFails \/ StopNew \/ StartOld \/ RestoreWeb
  <2>1. /\ tree' = tree /\ pc \notin {"promote", "restore"}
        /\ pc' \notin {"promote", "quarantine", "rewrite", "consume"}
    BY <1>9 DEF BackupWeb, Publish, Start, Gate, GateFails, StopNew, StartOld, RestoreWeb,
       Goto, layout
  <2>2. Owned => Owned'
    BY <2>1 DEF Owned, Managed
  <2> QED
    BY <2>1, <2>2 DEF RequestInv, RequestIn
<1>10. CASE Fail \/ Killed \/ Reboot
  <2>1. /\ tree' = tree /\ pc' \notin {"promote", "quarantine", "rewrite", "consume"} /\ ~Torn
    BY <1>10 DEF Fail, Killed, Reboot, Goto, layout
  <2>2. Owned => Owned'
    BY <2>1, WholeTrees DEF Owned, Managed
  <2> QED
    BY <2>1, <2>2 DEF RequestInv, RequestIn
<1> QED
  BY <1>1, <1>2, <1>3, <1>4, <1>5, <1>6, <1>7, <1>8, <1>9, <1>10 DEF Next, RunStep

\* No step drops what is queued but those RequestKept names.
LEMMA KeptStep ==
  ASSUME DeployInv, RequestInv, Sound, "cancel" \notin Weak, [Next]_vars,
         NEW t \in Tags, Kept = t, ~Cancel, pc # "moveFailed", pin # t
  PROVE  Kept' = t
<1> USE DEF DeployInv
<1>0. Spool \in {"app", "standalone"} /\ t # None /\ {"app", "standalone", "quarantine"} \subseteq Places
  BY Choices, TagType DEF Places, Units
<1>1. \/ Spool = "app" /\ tree["app"] = None /\ RequestIn("quarantine") = t
      \/ ~(Spool = "app" /\ tree["app"] = None) /\ RequestIn(Spool) = t
  BY DEF Kept
<1>2. CASE UNCHANGED tree
  BY <1>2 DEF Kept, RequestIn
<1>3. CASE Write \/ \E r \in Tags : Request(r)
  <2>1. (tree'["app"] = None <=> tree["app"] = None)
    BY <1>0, <1>3, SameTags
  <2>2. CASE Write
    BY <1>0, <1>1, <2>1, <2>2, RequestsNow DEF Kept
  <2>3. ASSUME NEW r \in Tags, Request(r) PROVE Kept' = t
    <3>1. RequestIn(port) = None /\ port \in Units
      BY <2>3, PortTree DEF Request, RequestIn
    <3>2. \A d \in Places : RequestIn(d) = t => RequestIn(d)' = t
      BY <1>0, <2>3, <3>1, RequestsNow
    <3> QED
      BY <1>0, <1>1, <2>1, <3>2 DEF Kept
  <2> QED
    BY <1>3, <2>2, <2>3
<1>4. CASE Consume
  <2>1. (tree'["app"] = None <=> tree["app"] = None) /\ pc = "consume"
    BY <1>0, <1>4, SameTags DEF Consume
  <2>2. RequestIn(Spool) = pin
    BY <2>1 DEF RequestInv, Queued
  <2>3. Spool = "app" /\ tree["app"] = None /\ RequestIn("quarantine") = t
    BY <1>1, <2>2
  <2>4. RequestIn("quarantine")' = t
    BY <1>0, <1>4, <2>3, RequestsNow
  <2> QED
    BY <2>1, <2>3, <2>4 DEF Kept
<1>5. CASE Begin
  <2>1. /\ pc \in {"deploy", "idle"} /\ tree'["app"] = tree["app"] /\ tree'["standalone"] = tree["standalone"]
    BY <1>5 DEF Begin, TypeOK, Places, Units
  <2>2. ~(Spool = "app" /\ tree["app"] = None)
    BY <1>0, <1>1, <2>1 DEF RequestInv, Owned, Managed
  <2> QED
    BY <1>0, <1>1, <2>1, <2>2 DEF Kept, RequestIn
<1>6. CASE Prepare \/ Migrate
  <2>1. \A d \in {"app", "standalone", "quarantine"} : tree'[d] = tree[d]
    BY <1>6 DEF Prepare, Migrate, TypeOK, Places, Units
  <2> QED
    BY <1>0, <1>1, <2>1 DEF Kept, RequestIn
<1>7. CASE Quarantine
  <2>1. /\ tree'["app"] = None /\ tree'["quarantine"] = tree["app"] /\ tree'["standalone"] = tree["standalone"]
        /\ pc = "quarantine"
    BY <1>7 DEF Quarantine, Goto, TypeOK, Places, Units
  <2>2. ~(Spool = "app" /\ tree["app"] = None)
    BY <1>0, <1>1, <2>1 DEF RequestInv, Owned, Managed
  <2> QED
    BY <1>0, <1>1, <2>1, <2>2 DEF Kept, RequestIn
<1>8. CASE Promote
  <2>1. /\ tree'["app"] = tree["staging"] /\ tree'["standalone"] = tree["standalone"]
        /\ pc = "promote" /\ tree["app"] = None /\ tree["staging"] # None
    BY <1>8 DEF Promote, Goto, TypeOK, PlayInv, StateInv, Places, Units
  <2>2. Spool = "app" => Owned
    BY <1>0, <1>1, <2>1 DEF RequestInv
  <2>3. Spool = "app" => /\ tree["quarantine"] # None /\ tree["quarantine"].request = t
                         /\ tree["staging"].request = t
    BY <1>0, <1>1, <2>1, <2>2 DEF RequestInv, RequestIn, Owned, Managed
  <2> QED
    BY <1>0, <1>1, <2>1, <2>3 DEF Kept, RequestIn
<1>9. CASE Restore
  <2>1. /\ tree'["app"] = tree["quarantine"] /\ tree'["standalone"] = tree["standalone"]
        /\ tree["app"] = None /\ tree["quarantine"] # None
    BY <1>9 DEF Restore, Goto, TypeOK, PlayInv, StateInv, Old, HasState, Places, Units
  <2> QED
    BY <1>0, <1>1, <2>1 DEF Kept, RequestIn
<1>10. UNCHANGED tree \/ Write \/ (\E r \in Tags : Request(r)) \/ Consume \/ Begin \/ Prepare \/ Migrate
         \/ Quarantine \/ Promote \/ Restore
  <2>1. CASE UNCHANGED vars
    BY <2>1 DEF vars, layout
  <2>2. CASE Next
    BY <2>2 DEF Next, RunStep, ReadRequest, RewritePin, AlreadyAt, StopOld, BackupWeb,
       Publish, Start,
               Gate, GateFails, StopNew, MoveFailed, StartOld, RestoreWeb, RewriteFails, Pin, Grab,
               AgentDies, Fail, Killed, Reboot, Goto, layout
  <2> QED
    BY <2>1, <2>2
<1> QED
  BY <1>2, <1>3, <1>4, <1>5, <1>6, <1>7, <1>8, <1>9, <1>10

(***************************************************************************)
(* An update is an Upgrade.                                                *)
(***************************************************************************)
\* Writes are numbered, the newest one and the one a rescue would go back to among them;
\* and what answers comes up.
Numbered == newest <= written /\ (OnTrial => tree["quarantine"].state <= written)

TrialInv == Numbered /\ Serving \notin Bad

\* No number is new, and no trial begins.
Settled == written' = written /\ newest' = newest /\ (OnTrial' => OnTrial /\ SavedTree' = SavedTree)

\* A trial is of an install, whose old tree is in the quarantine; while the trees are
\* moved nothing answers.
LEMMA Trial ==
  ASSUME DeployInv
  PROVE  /\ OnTrial => Old /\ Existing /\ tree["quarantine"].state \in States
         /\ OnTrial /\ pc # "restore" => Managed
         /\ SavedTree # None <=> OnTrial
         /\ Serving # None <=> port # None
         /\ pc \in {"promote", "restore", "moveFailed"} => port = None
         /\ Managed /\ pc # "restore" => InPlace = "app"
         /\ ~Owned => InPlace = "standalone"
<1> USE DEF DeployInv
<1>1. OnTrial => Old /\ Existing
  BY DEF OnTrial, StateInv, Existing, Later
<1>2. OnTrial => tree["quarantine"].state \in States
  BY <1>1 DEF Old, HasState, TypeOK, Trees, Places
<1>3. OnTrial /\ pc # "restore" => Managed
  BY DEF OnTrial, PlayInv, Existing, Later, Rescue
<1>4. Serving # None <=> port # None
  BY PortTree DEF Serving
<1>5. pc \in {"promote", "restore", "moveFailed"} => port = None
  BY PortTree
<1>6. Managed /\ pc # "restore" => InPlace = "app"
  BY DEF InPlace, PlayInv, Managed
<1>7. ~Owned => InPlace = "standalone"
  BY DEF InPlace, Owned, Existing
<1>8. SavedTree # None <=> OnTrial
  <2>1. OnTrial => tree["quarantine"] \in Trees
    BY <1>1 DEF Old, HasState, TypeOK, Places
  <2>2. OnTrial => SavedTree \in Saves
    BY <1>2, <2>1 DEF SavedTree, Saves, Trees
  <2> QED
    BY <2>2, NoTree DEF SavedTree
<1> QED
  BY <1>1, <1>2, <1>3, <1>4, <1>5, <1>6, <1>7, <1>8

\* The request is not seen.
LEMMA SeenRequest ==
  ASSUME DeployInv, Cancel \/ Consume \/ \E t \in Tags : Request(t)
  PROVE  UNCHANGED Update!vars /\ Settled
<1> USE DEF DeployInv
<1>1. /\ \A d \in Places : (tree'[d] = None <=> tree[d] = None) /\ tree'[d].tag = tree[d].tag
      /\ UNCHANGED <<mode, swapped>> /\ Managed' = Managed
      /\ pc' = pc \/ (pc = "consume" /\ pc' = "deploy")
  BY SameTags
<1>2. UNCHANGED <<port, newest>>
  BY DEF Cancel, Consume, Request, units, rest
<1>3. tree'["quarantine"] = tree["quarantine"]
  BY Choices DEF Cancel, Consume, Request, TypeOK, Units, Places
<1>4. InPlace' = InPlace /\ InPlace \in Places
  BY <1>1 DEF InPlace, Places, Units
<1>5. SavedTree' = SavedTree /\ OnTrial' = OnTrial
  BY <1>1, <1>3 DEF SavedTree, OnTrial
<1>6. Serving' = Serving
  BY <1>1, <1>2, PortTree DEF Serving, Places
<1>7. written' = written
  BY DEF Cancel, Consume, Request, rest
<1> QED
  BY <1>1, <1>2, <1>4, <1>5, <1>6, <1>7 DEF Update!vars, Settled

LEMMA SeenWrite ==
  ASSUME DeployInv, TrialInv, Write
  PROVE  Update!Write /\ Numbered'
<1> USE DEF DeployInv
<1>1. /\ \A d \in Places : (tree'[d] = None <=> tree[d] = None) /\ tree'[d].tag = tree[d].tag
      /\ UNCHANGED <<mode, swapped, pc>> /\ Managed' = Managed
  BY SameTags DEF Write, run
<1>2. /\ port' = port /\ port # None /\ newest' = written + 1 /\ written' = written + 1
      /\ tree'["quarantine"] = tree["quarantine"]
  BY PortTree DEF Write, TypeOK, Units, Places, units
<1>3. InPlace' = InPlace /\ InPlace \in Places
  BY <1>1 DEF InPlace, Places, Units
<1>4. SavedTree' = SavedTree /\ OnTrial' = OnTrial
  BY <1>1, <1>2 DEF SavedTree, OnTrial
<1>5. Serving' = Serving /\ Serving # None
  BY <1>1, <1>2, PortTree DEF Serving, Places
<1>6. /\ newest \in Nat /\ written \in Nat /\ newest <= written
      /\ OnTrial => tree["quarantine"].state \in Nat
  BY Numbers, Trial DEF TrialInv, Numbered, TypeOK, States
<1>7. Numbered'
  BY <1>2, <1>4, <1>6 DEF TrialInv, Numbered
<1> QED
  BY <1>1, <1>2, <1>3, <1>4, <1>5, <1>6, <1>7 DEF Update!Write

\* The steps that leave trees and units as they are, and where the play is on trial or not.
LEMMA SeenStays ==
  ASSUME DeployInv, Sound,
         \/ ReadRequest \/ RewritePin \/ RewriteFails \/ AlreadyAt \/ (\E t \in Tags : Pin(t))
         \/ BackupWeb \/ Publish \/ Start \/ GateFails \/ StartOld \/ RestoreWeb \/ Fail
  PROVE  UNCHANGED Update!vars /\ Settled
<1> USE DEF DeployInv
<1>1. UNCHANGED <<tree, port, newest, written, mode>>
  BY DEF ReadRequest, RewritePin, RewriteFails, AlreadyAt, Pin, BackupWeb, Publish, Start,
         GateFails, StartOld, RestoreWeb, Fail, Goto, layout, units, run, rest
<1>2. ~Fail => /\ pc' = pc \/ {pc, pc'} \cap {"restore", "promote"} = {}
               /\ OnTrial' = OnTrial
  BY GateFailsExisting
     DEF ReadRequest, RewritePin, RewriteFails, AlreadyAt, Pin, BackupWeb, Publish, Start,
         GateFails, StartOld, RestoreWeb, Fail, Goto, OnTrial, PlayInv, Existing, run
<1>3. Fail => /\ pc # "restore" /\ (pc = "promote" => ~Existing)
              /\ pc' \notin {"restore", "promote"}
              /\ OnTrial' = OnTrial
  <2> SUFFICES ASSUME Fail
               PROVE  /\ pc # "restore" /\ (pc = "promote" => ~Existing)
                      /\ pc' \notin {"restore", "promote"}
                      /\ OnTrial' = OnTrial
    OBVIOUS
  <2>1. /\ pc \in Cutover \cup {"prepare"} /\ ~Torn /\ ~Stranded /\ UNCHANGED <<mode, swapped>>
        /\ pc' = IF pc = "prepare" THEN "idle" ELSE "stopNew"
    BY DEF Fail, Goto
  <2>2. pc # "restore" /\ (pc = "promote" => ~Existing)
    BY <2>1, WholeTrees
  <2> QED
    BY <2>1, <2>2 DEF OnTrial, Stranded, Sound, PlayInv, Early, Existing, Cutover
<1>4. InPlace' = InPlace
  BY <1>1, <1>2, <1>3 DEF InPlace, Managed, Existing
<1>5. SavedTree' = SavedTree /\ Serving' = Serving
  BY <1>1, <1>2, <1>3 DEF SavedTree, Serving
<1> QED
  BY <1>1, <1>2, <1>3, <1>4, <1>5 DEF Update!vars, Settled

\* The steps that rearrange directories that are not in place, or rename the one that is.
LEMMA SeenMoves ==
  ASSUME DeployInv, Begin \/ Prepare \/ Migrate \/ Quarantine \/ MoveFailed
  PROVE  UNCHANGED Update!vars /\ Settled
<1> USE DEF DeployInv
<1>1. UNCHANGED <<newest, written>>
  BY DEF Begin, Prepare, Migrate, Quarantine, MoveFailed, rest
<1>2. tree \in [Places -> Trees \cup {None}]
  BY DEF TypeOK
<1>3. CASE Begin \/ Prepare \/ Migrate
  <2>1. /\ tree'["app"] = tree["app"] /\ tree'["standalone"] = tree["standalone"]
        /\ pc \in {"deploy", "idle", "prepare", "migrate"}
        /\ pc' \in {"prepare", "stop", "idle", "quarantine"}
        /\ UNCHANGED <<port, newest>>
    BY <1>2, <1>3 DEF Begin, Prepare, Migrate, Goto, Places, Units, units, rest
  <2>2. InPlace' = InPlace /\ InPlace \in {"app", "standalone"} /\ ~OnTrial /\ ~OnTrial'
    BY <2>1 DEF InPlace, Managed, OnTrial
  <2>3. port \in Units => tree'[port] = tree[port]
    BY <2>1 DEF Units
  <2>4. Serving' = Serving
    BY <2>1, <2>3 DEF Serving, TypeOK
  <2> QED
    BY <1>1, <2>1, <2>2, <2>4 DEF Update!vars, SavedTree, Settled
<1>4. CASE Quarantine
  <2>1. /\ tree'["app"] = None /\ tree'["quarantine"] = tree["app"]
        /\ tree'["standalone"] = tree["standalone"]
        /\ pc = "quarantine" /\ pc' = "promote" /\ UNCHANGED <<port, newest, mode>>
    BY <1>2, <1>4 DEF Quarantine, Goto, Places, Units, units, rest
  <2>2. port = None /\ Existing = Managed
    BY <2>1, PortTree DEF PlayInv, Early
  <2>3. ~OnTrial /\ ~OnTrial'
    BY <2>1 DEF OnTrial
  <2>4. tree'[InPlace'] = tree[InPlace]
    BY <2>1, <2>2 DEF InPlace, Managed, Existing
  <2> QED
    BY <1>1, <2>1, <2>2, <2>3, <2>4 DEF Update!vars, SavedTree, Serving, Settled
<1>5. CASE MoveFailed
  <2>1. /\ tree'["failed"] = tree["app"] /\ tree'["quarantine"] = tree["quarantine"]
        /\ pc = "moveFailed" /\ pc' = "restore" /\ UNCHANGED <<port, newest, mode, swapped>>
    BY <1>2, <1>5 DEF MoveFailed, Goto, Places, Units, units, rest
  <2>2. port = None /\ Managed
    BY <2>1, PortTree DEF PlayInv, Rescue
  <2>3. OnTrial' = OnTrial /\ SavedTree' = SavedTree
    BY <2>1 DEF OnTrial, SavedTree
  <2>4. tree'[InPlace'] = tree[InPlace]
    BY <2>1, <2>2 DEF InPlace
  <2> QED
    BY <1>1, <2>1, <2>2, <2>3, <2>4 DEF Update!vars, Serving, Settled
<1> QED
  BY <1>3, <1>4, <1>5

\* The new tree is put in place while nothing answers, with the state of the old one.
LEMMA SeenPromote ==
  ASSUME DeployInv, TrialInv, Promote
  PROVE  (\E t \in Tags : Update!Try(t) \/ Update!Install(t)) /\ Numbered'
<1> USE DEF DeployInv
<1>1. /\ pc = "promote" /\ pc' = "backup" /\ swapped' = {"app"}
      /\ UNCHANGED <<port, newest, mode, target, written>>
      /\ tree'["app"] = tree["staging"]
      /\ tree'["quarantine"] = tree["quarantine"] /\ tree'["standalone"] = tree["standalone"]
  BY DEF Promote, Goto, TypeOK, Places, Units, units, rest
<1>2. port = None /\ target \in Tags /\ tree["staging"] # None /\ tree["staging"].tag = target
  BY <1>1, PortTree DEF PlayInv, StateInv, TypeOK, Releases, Cutover
<1>3. Managed' /\ tree'[InPlace'].tag = target
  BY <1>1, <1>2, TagType DEF Managed, InPlace
<1>4. SavedTree = None /\ ~OnTrial
  BY <1>1 DEF SavedTree, OnTrial
<1>5. Serving = None /\ Serving' = None
  BY <1>1, <1>2 DEF Serving
<1>6. CASE Existing
  <2>1. tree[InPlace].tag = tree["quarantine"].tag /\ tree["quarantine"].state = newest /\ OnTrial'
    BY <1>1, <1>6 DEF InPlace, StateInv, Existing, OnTrial
  <2>2. SavedTree' = [release |-> tree[InPlace].tag, state |-> newest]
    BY <1>1, <2>1 DEF SavedTree
  <2>3. Update!Try(target) /\ Numbered'
    BY <1>1, <1>3, <1>4, <1>5, <2>1, <2>2 DEF Update!Try, TrialInv, Numbered
  <2> QED
    BY <1>2, <2>3
<1>7. CASE ~Existing
  <2>1. ~OnTrial' /\ SavedTree' = None /\ target \notin Bad
    BY <1>1, <1>7 DEF OnTrial, SavedTree, Existing, BadInv, Owned, PlayInv, Managed
  <2>2. Update!Install(target) /\ Numbered'
    BY <1>1, <1>3, <1>4, <1>5, <2>1 DEF Update!Install, TrialInv, Numbered
  <2> QED
    BY <1>2, <2>2
<1> QED
  BY <1>6, <1>7

\* The rescue brings back the tree of the cutover, with its state.
LEMMA SeenRestore ==
  ASSUME DeployInv, TrialInv, Restore
  PROVE  Update!TakeBack /\ Numbered'
<1> USE DEF DeployInv
<1>1. /\ pc = "restore" /\ pc' = "startOld"
      /\ UNCHANGED <<port, mode, written>> /\ newest' = tree["quarantine"].state
      /\ tree'["app"] = tree["quarantine"]
  BY DEF Restore, Goto, TypeOK, Places, Units, units
<1>2. OnTrial /\ port = None
  BY <1>1, PortTree DEF OnTrial, PlayInv, Existing
<1>3. /\ SavedTree = [release |-> tree["quarantine"].tag, state |-> tree["quarantine"].state]
      /\ SavedTree # None
  BY <1>2, Trial DEF SavedTree
<1>4. ~OnTrial' /\ SavedTree' = None
  BY <1>1 DEF OnTrial, SavedTree
<1>5. Managed' /\ InPlace' = "app"
  BY <1>1, RestoreManaged DEF InPlace
<1>6. Serving = None /\ Serving' = None
  BY <1>1, <1>2 DEF Serving
<1>7. Numbered'
  BY <1>1, <1>2, <1>4 DEF TrialInv, Numbered
<1> QED
  BY <1>1, <1>3, <1>4, <1>5, <1>6, <1>7 DEF Update!TakeBack

\* Stopping, starting, and the end of a run, in time or not.
LEMMA SeenUnits ==
  ASSUME DeployInv, StopOld \/ StopNew \/ AgentDies
  PROVE  (UNCHANGED Update!vars \/ Update!GoDown) /\ Settled
<1> USE DEF DeployInv
<1>1. /\ UNCHANGED <<tree, newest, written, mode, swapped>> /\ port' \in {port, None}
      /\ pc' = pc \/ (pc \in {"stop", "stopNew"} /\ pc' \in {"migrate", "moveFailed", "startOld"})
  BY DEF StopOld, StopNew, AgentDies, Goto, Halted, layout, rest, run
<1>2. OnTrial' = OnTrial
  BY <1>1 DEF StopOld, StopNew, AgentDies, Goto, OnTrial, PlayInv, run
<1>3. tree'[InPlace'] = tree[InPlace] /\ SavedTree' = SavedTree
  BY <1>1, <1>2 DEF InPlace, Managed, SavedTree
<1>4. Serving' = Serving \/ Serving' = None
  BY <1>1 DEF Serving
<1> QED
  BY <1>1, <1>2, <1>3, <1>4 DEF Update!vars, Update!GoDown, Settled

LEMMA SeenGrab ==
  ASSUME DeployInv, NEW u \in Units, Grab(u)
  PROVE  Update!ComeUp /\ Settled
<1> USE DEF DeployInv
<1>1. /\ port = None /\ port' = u /\ u \in active /\ Ready(u)
      /\ UNCHANGED <<tree, newest, written, mode, swapped, pc>>
  BY DEF Grab, layout, run, rest
<1>2. u = IF Owned THEN "app" ELSE "standalone"
  BY <1>1 DEF UnitInv
<1>3. tree[u] # None /\ tree[u].tag # None /\ tree[u].tag \notin Bad
  BY <1>1 DEF Ready, HasState
<1>4. InPlace = u
  <2>1. CASE Owned
    BY <1>1, <1>2, <1>3, <2>1, Trial DEF Managed, UnitInv
  <2>2. CASE ~Owned
    BY <1>2, <2>2, Trial
  <2> QED
    BY <2>1, <2>2
<1>5. InPlace' = InPlace /\ SavedTree' = SavedTree /\ OnTrial' = OnTrial
  BY <1>1 DEF InPlace, Managed, SavedTree, OnTrial
<1>6. Serving = None /\ Serving' = tree[u].tag
  BY <1>1, <1>2, TagType DEF Serving
<1> QED
  BY <1>1, <1>3, <1>4, <1>5, <1>6 DEF Update!ComeUp, Settled

\* A release is kept only if it comes up: the gate saw it answer, or the run was cut off
\* while such a release was in place.
LEMMA SeenEnds ==
  ASSUME DeployInv, Sound, "trial" \notin Weak, TrialInv, Gate \/ Killed \/ Reboot
  PROVE  (UNCHANGED Update!vars \/ Update!GoDown \/ Update!Keep) /\ Settled
<1> USE DEF DeployInv
<1>1. UNCHANGED <<tree, newest, written, mode, swapped>> /\ port' \in {port, None} /\ pc' = "idle"
  BY DEF Gate, Killed, Reboot, Goto, layout, units, rest
<1>2. ~OnTrial' /\ SavedTree' = None
  BY <1>1 DEF OnTrial, SavedTree
<1>3. pc # "restore" /\ (pc = "promote" => ~Existing)
  <2>1. CASE Gate
    BY <2>1 DEF Gate, Goto
  <2>2. CASE Killed \/ Reboot
    BY <2>2, WholeTrees DEF Killed, Reboot
  <2> QED
    BY <2>1, <2>2
<1>4. InPlace' = InPlace
  BY <1>1, <1>3 DEF InPlace, Managed, Existing
<1>5. Serving' = Serving \/ Serving' = None
  BY <1>1 DEF Serving
<1>6. CASE ~OnTrial
  <2>1. SavedTree' = SavedTree
    BY <1>2, <1>6 DEF SavedTree
  <2> QED
    BY <1>1, <1>2, <1>4, <1>5, <2>1 DEF Update!vars, Update!GoDown, Settled
<1>7. CASE OnTrial
  <2>1. Managed /\ InPlace = "app" /\ SavedTree # None
    BY <1>3, <1>7, Trial
  <2>2. tree["app"].tag \notin Bad
    <3>1. CASE Gate
      BY <3>1 DEF Gate, Goto, PlayInv, Later, TrialInv
    <3>2. CASE Killed \/ Reboot
      BY <2>1, <3>2 DEF Killed, Reboot, Mixed
    <3> QED
      BY <3>1, <3>2
  <2> QED
    BY <1>1, <1>2, <1>4, <1>5, <2>1, <2>2 DEF Update!Keep, Settled
<1> QED
  BY <1>6, <1>7

\* Every step of the deployment is one of an Upgrade, or none.
LEMMA UpgradeStep ==
  ASSUME DeployInv, Sound, "trial" \notin Weak, TrialInv, [Next]_vars
  PROVE  [Update!Next]_Update!vars /\ TrialInv'
<1>1. ASSUME Settled, UNCHANGED Update!vars \/ Update!GoDown \/ Update!ComeUp \/ Update!Keep
      PROVE  [Update!Next]_Update!vars /\ TrialInv'
  <2>1. Numbered'
    BY <1>1 DEF Settled, TrialInv, Numbered, SavedTree
  <2>2. Serving' \notin Bad
    BY <1>1, TagType DEF TrialInv, Update!vars, Update!GoDown, Update!ComeUp, Update!Keep
  <2> QED
    BY <1>1, <2>1, <2>2 DEF Update!Next, TrialInv
<1>2. ASSUME Numbered',
             \/ Update!Write \/ Update!TakeBack
             \/ \E t \in Tags : Update!Try(t) \/ Update!Install(t)
      PROVE  [Update!Next]_Update!vars /\ TrialInv'
  <2>1. Serving' = Serving
    BY <1>2 DEF Update!Write, Update!TakeBack, Update!Try, Update!Install
  <2> QED
    BY <1>2, <2>1 DEF Update!Next, TrialInv
<1>3. CASE UNCHANGED vars
  <2>1. Settled /\ UNCHANGED Update!vars
    BY <1>3 DEF vars, layout, units, run, rest, Settled, OnTrial, SavedTree, Update!vars, Serving,
       InPlace, Managed
  <2> QED
    BY <1>1, <2>1
<1>4. CASE Next
  <2>1. CASE Write \/ Promote \/ Restore
    BY <1>2, <2>1, SeenWrite, SeenPromote, SeenRestore
  <2>2. CASE \E u \in Units : Grab(u)
    BY <1>1, <2>2, SeenGrab
  <2>3. CASE Gate \/ Killed \/ Reboot \/ StopOld \/ StopNew \/ AgentDies
    BY <1>1, <2>3, SeenEnds, SeenUnits
  <2>4. CASE \/ Cancel \/ Consume \/ (\E t \in Tags : Request(t))
             \/ Begin \/ Prepare \/ Migrate \/ Quarantine \/ MoveFailed
    BY <1>1, <2>4, SeenRequest, SeenMoves
  <2>5. CASE \/ ReadRequest \/ RewritePin \/ RewriteFails \/ AlreadyAt \/ (\E t \in Tags : Pin(t))
             \/ BackupWeb \/ Publish \/ Start \/ GateFails \/ StartOld \/ RestoreWeb \/ Fail
    BY <1>1, <2>5, SeenStays
  <2> QED
    BY <1>4, <2>1, <2>2, <2>3, <2>4, <2>5 DEF Next, RunStep
<1> QED
  BY <1>3, <1>4

(***************************************************************************)
(* Theorems.                                                               *)
(***************************************************************************)
\* The invariant holds throughout.
LEMMA DeployInductive ==
  ASSUME Sound
  PROVE  Spec => []DeployInv
<1>1. DeployInv /\ [Next]_vars => DeployInv'
  BY DeployStep
<1> QED
  BY <1>1, DeployStart, PTL DEF Spec

\* No update, failed or cut off, loses what the agent wrote or lets an older state be
\* served: for any releases, layouts, writes, failures and stops, unless a run is cut
\* off between two renames or an adoption fails after its promotion.
THEOREM StateSurvives ==
  ASSUME "swap" \notin Weak, "adoption" \notin Weak
  PROVE  Spec => []NewestKept
<1>1. Sound
  BY DEF Sound
<1> QED
  BY <1>1, DeployInductive, NewestFollows, PTL

\* When there is nothing to do, the web root has the release that is served: besides, no
\* run may be cut off between the swap of the trees and that of the web root.
THEOREM WebFollows ==
  ASSUME "swap" \notin Weak, "adoption" \notin Weak, "web" \notin Weak
  PROVE  Spec => []NothingToDo
<1>1. Sound
  BY DEF Sound
<1>2. DeployInv /\ DeployInv' /\ WebInv /\ [Next]_vars => WebInv'
  <2>1. CASE Next
    BY <1>1, <2>1, WebStep
  <2>2. CASE UNCHANGED vars
    <3>1. UNCHANGED <<tree, web, pc, mode, swapped>>
      BY <2>2 DEF vars, layout, run
    <3> QED
      BY <3>1 DEF WebInv, Owned, Managed, Existing, Rescue
  <2> QED
    BY <2>1, <2>2
<1>3. DeployInv /\ WebInv => NothingToDo
  <2> SUFFICES ASSUME DeployInv, WebInv, pc = "idle", Serving = pin
               PROVE  web.live = pin
    BY DEF NothingToDo
  <2>1. port # None
    BY TagType DEF Serving, DeployInv, TypeOK
  <2>2. Owned = Managed /\ port = (IF Managed THEN "app" ELSE "standalone") /\ tree[port].tag = pin
    BY <2>1, PortTree DEF Serving
  <2> QED
    BY <2>2 DEF WebInv, Rescue
<1> QED
  BY <1>1, <1>2, <1>3, DeployInductive, DeployStart, PTL DEF Spec

\* An owner's request is gone only once the pin names its release: besides, the owner
\* may not cancel what the applier has read.
THEOREM RequestsStay ==
  ASSUME "swap" \notin Weak, "adoption" \notin Weak, "cancel" \notin Weak
  PROVE  Spec => RequestKept
<1>1. Sound
  BY DEF Sound
<1>2. DeployInv /\ RequestInv /\ [Next]_vars => RequestInv'
  <2>1. CASE Next
    BY <1>1, <2>1, RequestStep
  <2>2. CASE UNCHANGED vars
    <3>1. UNCHANGED <<tree, pc, mode, target, pin>>
      BY <2>2 DEF vars, layout, run, rest
    <3> QED
      BY <3>1 DEF RequestInv, Owned, Managed, Existing, RequestIn, Queued
  <2> QED
    BY <2>1, <2>2
<1>3. DeployInv /\ RequestInv /\ [Next]_vars =>
        \A t \in Tags : Kept = t /\ Kept' # t => pin = t \/ Cancel \/ pc = "moveFailed"
  BY <1>1, KeptStep
<1> QED
  BY <1>1, <1>2, <1>3, DeployInductive, DeployStart, PTL DEF Spec, RequestKept

\* A run is a transaction on the agent and its state, whatever fails or is cut off in it
\* and however often: besides, no run is killed while a release that does not come up is
\* in place.
THEOREM UpdateIsTransaction ==
  ASSUME "swap" \notin Weak, "adoption" \notin Weak, "trial" \notin Weak
  PROVE  Spec => ImplementsUpgrade
<1>1. Sound
  BY DEF Sound
<1>2. Init => Update!Init /\ TrialInv
  <2> SUFFICES ASSUME Init PROVE Update!Init /\ TrialInv
    OBVIOUS
  <2>1. PICK t \in Tags \ Bad, l \in Layouts :
          /\ tree = [d \in Places |-> IF d \in Units THEN Install(t)[l][d] ELSE None]
          /\ port = IF l \in {"managed", "leftover"} THEN "app" ELSE "standalone"
    BY DEF Init
  <2>2. pc = "idle" /\ newest = 1 /\ written = 1
    BY DEF Init
  <2>3. DeployInv
    BY DeployStart
  <2>4. port = (IF Managed THEN "app" ELSE "standalone") /\ Owned = Managed /\ port # None
    BY <2>1, <2>3, PortTree, TagType
  <2>5. InPlace = port /\ ~OnTrial
    BY <2>2, <2>4 DEF InPlace, OnTrial
  <2>6. tree[port].tag = t
    BY <2>1, Choices DEF Places, Units, Install, Tree
  <2> QED
    BY <2>2, <2>4, <2>5, <2>6, TagType DEF Update!Init, TrialInv, Numbered, Serving, SavedTree
<1>3. DeployInv /\ TrialInv /\ [Next]_vars => [Update!Next]_Update!vars /\ TrialInv'
  BY <1>1, UpgradeStep
<1> QED
  BY <1>1, <1>2, <1>3, DeployInductive, PTL DEF Spec, ImplementsUpgrade, Update!Spec
=============================================================================
