------------------------------- MODULE Deploy -------------------------------
(***************************************************************************)
(* ops/deploy-unattended.sh, the Ansible role it runs (roles/continuum)    *)
(* and the helpers of ops/lib/continuum-adopt.sh: how a release replaces   *)
(* the one that runs while the agent's state survives.  A timer starts a   *)
(* run; a lock lets one run at a time.  The run stages the release, stops  *)
(* the old unit, copies the state, renames trees and links, starts the new *)
(* unit and waits for its version; when a step fails it rolls back.        *)
(*                                                                         *)
(* Before it, ops/apply-update-request.sh moves the pin to the release an  *)
(* owner requested.  The request is a file that the agent (updater.mjs)    *)
(* keeps among its own state, so runs copy and roll back that file too.    *)
(*                                                                         *)
(* The agent's state (config.yaml, memory, ciphertexts, pending) is the    *)
(* number of the write it holds.  Runs are vault-free, so a config is      *)
(* never rendered.  Backups, checksums, signatures and retention are left  *)
(* out: a run that does not pass the former ends before it touches the     *)
(* layout, and the latter deletes what no run reads.                       *)
(*                                                                         *)
(* Implements Upgrade (InPlace, SavedTree).                                *)
(***************************************************************************)
EXTENDS Naturals

CONSTANTS
  Tags,          \* releases that the allowlist has, the newer one the greater
  Bad,           \* releases whose agent does not come up
  None,
  Layouts,       \* how the machine was installed: see Init
  Spool,         \* the unit whose requests CONTINUUM_UPDATE_REQUEST names
  Weak,          \* where a run may also be cut off or passed by: see Torn, Cancel
  MaxWrites, MaxPins, MaxFaults, MaxStops  \* bounds

ASSUME TagType == Bad \subseteq Tags /\ Tags \subseteq Nat /\ None \notin Nat \cup {"app", "standalone"}
ASSUME Choices == /\ Layouts \subseteq {"managed", "leftover", "standalone", "partial"}
                  /\ Weak \subseteq {"swap", "web", "trial", "adoption", "cancel"}
                  /\ Spool \in {"app", "standalone"}
ASSUME Numbers == /\ MaxWrites \in Nat \ {0} /\ MaxPins \in Nat
                  /\ MaxFaults \in Nat /\ MaxStops \in Nat

VARIABLES
  tree,         \* what is in each directory
  web,          \* the release in the web root and in the backup of this run
  enabled,      \* the units systemd starts when the machine boots
  active,       \* the units systemd keeps starting
  port,         \* the unit that answers on agent_port
  pc, target, mode, source,
  swapped,      \* continuum_swapped, continuum_webroot_swapped
  pin,          \* CONTINUUM_TARGET_TAG
  written, pins, faults, stops,
  newest        \* the last write that no rollback took back

layout == <<tree, web>>
units == <<enabled, active, port>>
run == <<pc, target, mode, source, swapped>>
rest == <<pin, written, pins, faults, stops, newest>>
vars == <<layout, units, run, rest>>

Units == {"app", "standalone"}   \* continuum-agent, torii-continuum-agent
Places == Units \cup {"staging", "quarantine", "failed"}
Releases == Tags \cup {None}
States == 0..MaxWrites
Modes == {"existing-ansible", "partial-adoption", "adopt-standalone"}
Applier == {"rewrite", "consume", "deploy"}
Cutover == {"stop", "migrate", "quarantine", "promote", "backup", "publish", "start", "gate"}
Rescue == {"stopNew", "moveFailed", "restore", "startOld", "restoreWeb"}

\* A directory that exists: its release (.git or VERSION) and state, if it has them,
\* and the release that memory/update-request.json asks for.
Trees == [tag : Releases, state : States \cup {None}, request : Releases]

\* A release and the state it had, as a rescue restores them: see SavedTree.
Saves == [release : Releases, state : States]

ASSUME NoTree == None \notin Trees \cup Saves

TypeOK ==
  /\ tree \in [Places -> Trees \cup {None}]
  /\ web \in [live : Releases, backup : Releases]
  /\ enabled \subseteq Units /\ active \subseteq Units /\ port \in active \cup {None}
  /\ pc \in {"idle", "prepare"} \cup Applier \cup Cutover \cup Rescue
  /\ target \in Releases /\ mode \in Modes \cup {None} /\ source \in Units \cup {None}
  /\ swapped \subseteq {"app", "web"}
  /\ pin \in Tags /\ written \in States /\ newest \in States
  /\ pins \in 0..MaxPins /\ faults \in 0..MaxFaults /\ stops \in 0..MaxStops

HasState(d) == tree[d] # None /\ tree[d].state # None

\* The unit finds a program and a config, and the program comes up.
Ready(u) == HasState(u) /\ tree[u].tag \notin Bad \cup {None}

\* The role has installed a release.
Managed == tree["app"] # None /\ tree["app"].tag # None

\* What /api/health says.
Serving == IF port = None THEN None ELSE tree[port].tag

(***************************************************************************)
(* The agent, its operator and systemd.                                    *)
(***************************************************************************)
Write ==
  /\ port # None /\ written < MaxWrites
  /\ written' = written + 1 /\ newest' = written + 1
  /\ tree' = [tree EXCEPT ![port].state = written + 1]
  /\ UNCHANGED <<web, units, run, pin, pins, faults, stops>>

\* A release that does not come up is not what a machine is adopted with: see Stranded.
Deployable(t) == t \in Bad /\ ~Managed => "adoption" \in Weak

\* The operator edits the pin, but not while the applier removes a request.
Pin(t) ==
  /\ t # pin /\ pins < MaxPins
  /\ pc # "consume" /\ Deployable(t)
  /\ pin' = t /\ pins' = pins + 1
  /\ UNCHANGED <<layout, units, run, written, faults, stops, newest>>

\* The owner asks for a newer release; one request waits at a time.
Request(t) ==
  /\ port # None /\ pins < MaxPins
  /\ t > tree[port].tag /\ tree[port].request = None /\ Deployable(t)
  /\ tree' = [tree EXCEPT ![port].request = t] /\ pins' = pins + 1
  /\ UNCHANGED <<web, units, run, pin, written, faults, stops, newest>>

\* The owner withdraws it; the applier may have read it.
Cancel ==
  /\ port # None /\ tree[port].request # None
  /\ port = Spool /\ pc \in {"rewrite", "consume"} => "cancel" \in Weak
  /\ tree' = [tree EXCEPT ![port].request = None]
  /\ UNCHANGED <<web, units, run, rest>>

\* A unit takes the port once its program runs; one that cannot is started again.
Grab(u) ==
  /\ port = None /\ u \in active /\ Ready(u)
  /\ port' = u
  /\ UNCHANGED <<layout, enabled, active, run, rest>>

AgentDies ==
  /\ port # None /\ faults < MaxFaults
  /\ port' = None /\ faults' = faults + 1
  /\ UNCHANGED <<layout, enabled, active, run, pin, written, pins, stops, newest>>

\* systemctl stop
Halted(u) == /\ active' = active \ {u} /\ port' = IF port = u THEN None ELSE port

(***************************************************************************)
(* The applier, before each run.                                           *)
(***************************************************************************)
RequestIn(d) == IF tree[d] = None THEN None ELSE tree[d].request
Queued == RequestIn(Spool)

\* What it read, it holds in target.
ReadRequest ==
  /\ pc = "idle" /\ Queued # None
  /\ pc' = "rewrite" /\ target' = Queued
  /\ UNCHANGED <<layout, units, mode, source, swapped, rest>>

RewritePin ==
  /\ pc = "rewrite"
  /\ pc' = "consume" /\ pin' = target
  /\ UNCHANGED <<layout, units, target, mode, source, swapped, written, pins, faults, stops, newest>>

\* Mutant: the request is removed all the same.
MutRewriteFails ==
  /\ pc = "rewrite" /\ faults < MaxFaults
  /\ pc' = "consume" /\ faults' = faults + 1
  /\ UNCHANGED <<layout, units, target, mode, source, swapped, pin, written, pins, stops, newest>>

\* The request is left for the next run.
RewriteFails ==
  /\ pc = "rewrite" /\ faults < MaxFaults
  /\ pc' = "deploy" /\ faults' = faults + 1
  /\ UNCHANGED <<layout, units, target, mode, source, swapped, pin, written, pins, stops, newest>>

\* Whatever is there by now.
Consume ==
  /\ pc = "consume"
  /\ pc' = "deploy"
  /\ tree' = IF tree[Spool] = None THEN tree ELSE [tree EXCEPT ![Spool].request = None]
  /\ UNCHANGED <<web, units, target, mode, source, swapped, rest>>

AlreadyAt ==
  /\ pc = "deploy" /\ Serving = pin
  /\ pc' = "idle"
  /\ UNCHANGED <<layout, units, target, mode, source, swapped, rest>>

(***************************************************************************)
(* A run until the cutover: the layout stays and the old unit runs.        *)
(***************************************************************************)
\* The live version is the target, or a run begins.  Its quarantine, failed
\* release and backup get names of their own; those of earlier runs stay on disk
\* until retention deletes them, and no run reads them.
Begin ==
  /\ pc = "deploy" \/ (pc = "idle" /\ Queued = None)
  /\ Serving # pin
  /\ pc' = "prepare" /\ target' = pin /\ swapped' = {}
  /\ tree' = [tree EXCEPT !["quarantine"] = None, !["failed"] = None]
  /\ web' = [web EXCEPT !.backup = None]
  /\ UNCHANGED <<units, mode, source, rest>>

Detected ==
  CASE Managed /\ HasState("app") -> "existing-ansible"
    [] ~Managed /\ HasState("app") -> "partial-adoption"
    [] OTHER -> IF HasState("standalone") THEN "adopt-standalone" ELSE None

Authoritative(m) ==
  IF m = "existing-ansible" \/ ~HasState("standalone") THEN "app" ELSE "standalone"

\* A fresh layout needs a vault, so the run fails.
Prepare ==
  /\ pc = "prepare"
  /\ mode' = Detected
  /\ IF Detected = None
       THEN pc' = "idle" /\ UNCHANGED <<tree, source>>
       ELSE /\ pc' = "stop" /\ source' = Authoritative(Detected)
            /\ tree' = [tree EXCEPT !["staging"] = [tag |-> target, state |-> None, request |-> None]]
  /\ UNCHANGED <<web, units, target, swapped, rest>>

(***************************************************************************)
(* The cutover.                                                            *)
(***************************************************************************)
Goto(from, to) == pc = from /\ pc' = to /\ UNCHANGED <<target, mode, source>>

StopOld ==
  /\ Goto("stop", "migrate")
  /\ IF mode = "existing-ansible"
       THEN Halted("app") /\ UNCHANGED enabled
       ELSE Halted("standalone") /\ enabled' = enabled \ {"standalone"}
  /\ UNCHANGED <<layout, swapped, rest>>

\* Mutant: moves the state.
MutMigrate ==
  /\ Goto("migrate", "quarantine")
  /\ tree' = [tree EXCEPT !["staging"] = [tree[source] EXCEPT !.tag = target],
                          ![source].state = None, ![source].request = None]
  /\ UNCHANGED <<web, units, swapped, rest>>

\* Never overwrites what is there.
Migrate ==
  /\ Goto("migrate", "quarantine")
  /\ tree' = IF HasState("staging") THEN tree
             ELSE [tree EXCEPT !["staging"] = [tree[source] EXCEPT !.tag = target]]
  /\ UNCHANGED <<web, units, swapped, rest>>

\* The two renames of promote_release.
Quarantine ==
  /\ Goto("quarantine", "promote")
  /\ tree' = [tree EXCEPT !["quarantine"] = tree["app"], !["app"] = None]
  /\ UNCHANGED <<web, units, swapped, rest>>

Promote ==
  /\ Goto("promote", "backup")
  /\ tree' = [tree EXCEPT !["app"] = tree["staging"], !["staging"] = None]
  /\ swapped' = {"app"}
  /\ UNCHANGED <<web, units, rest>>

\* The two renames of deploy_webroot.
BackupWeb ==
  /\ Goto("backup", "publish")
  /\ web' = [live |-> None, backup |-> web.live]
  /\ UNCHANGED <<tree, units, swapped, rest>>

Publish ==
  /\ Goto("publish", "start")
  /\ web' = [web EXCEPT !.live = tree["app"].tag]
  /\ swapped' = swapped \cup {"web"}
  /\ UNCHANGED <<tree, units, rest>>

\* Mutant: the unit file is unchanged, so nothing is started.
MutStart == Goto("start", "gate") /\ UNCHANGED <<layout, units, swapped, rest>>

Start ==
  /\ Goto("start", "gate")
  /\ enabled' = enabled \cup {"app"} /\ active' = active \cup {"app"}
  /\ UNCHANGED <<layout, port, swapped, rest>>

\* Mutant: the play ends when its retries are used up.
MutGate == Goto("gate", "idle") /\ UNCHANGED <<layout, units, swapped, rest>>

Gate ==
  /\ Goto("gate", "idle")
  /\ Serving = target
  /\ UNCHANGED <<layout, units, swapped, rest>>

\* All retries are used up.
GateFails ==
  /\ Goto("gate", "stopNew")
  /\ Serving # target /\ (port = None => ~Ready("app"))
  /\ UNCHANGED <<layout, units, swapped, rest>>

(***************************************************************************)
(* The rescue.                                                             *)
(***************************************************************************)
\* Between two renames: nothing is at the path they replace.
Torn == \/ pc \in {"promote", "restore"} /\ tree["quarantine"] # None /\ "swap" \notin Weak
        \/ pc = "publish" /\ web.backup # None /\ "web" \notin Weak

\* The standalone unit is to be started again, and the promoted tree to stay.
Stranded == mode # "existing-ansible" /\ "app" \in swapped /\ "adoption" \notin Weak

\* A step of the play returns an error; to stop the old unit is always a success.
Fail ==
  /\ pc \in (Cutover \ {"stop"}) \cup {"prepare"} /\ ~Torn /\ ~Stranded /\ faults < MaxFaults
  /\ faults' = faults + 1
  /\ Goto(pc, IF pc = "prepare" THEN "idle" ELSE "stopNew")
  /\ UNCHANGED <<layout, units, swapped, pin, written, pins, stops, newest>>

StopNew ==
  /\ Goto("stopNew", IF mode = "existing-ansible" /\ "app" \in swapped THEN "moveFailed" ELSE "startOld")
  /\ Halted("app") /\ enabled' = enabled \ {"app"}
  /\ UNCHANGED <<layout, swapped, rest>>

\* The two renames of rollback_release.
MoveFailed ==
  /\ Goto("moveFailed", "restore")
  /\ tree' = [tree EXCEPT !["failed"] = tree["app"], !["app"] = None]
  /\ UNCHANGED <<web, units, swapped, rest>>

Restore ==
  /\ Goto("restore", "startOld")
  /\ tree' = [tree EXCEPT !["app"] = tree["quarantine"], !["quarantine"] = None]
  /\ newest' = tree["quarantine"].state
  /\ UNCHANGED <<web, units, swapped, pin, written, pins, faults, stops>>

\* Mutant: only a standalone unit is started again.
MutStartOld ==
  /\ Goto("startOld", "restoreWeb")
  /\ IF mode = "existing-ansible"
       THEN UNCHANGED <<active, enabled>>
       ELSE /\ active' = active \cup {"standalone"} /\ enabled' = enabled \cup {"standalone"}
  /\ UNCHANGED <<layout, port, swapped, rest>>

\* Of an existing install the unit is started only if the trees were swapped.
StartOld ==
  /\ Goto("startOld", "restoreWeb")
  /\ IF mode = "existing-ansible"
       THEN /\ active' = IF "app" \in swapped THEN active \cup {"app"} ELSE active
            /\ UNCHANGED enabled
       ELSE /\ active' = active \cup {"standalone"} /\ enabled' = enabled \cup {"standalone"}
  /\ UNCHANGED <<layout, port, swapped, rest>>

\* Mutant: the web root is forgotten.
MutRestoreWeb == Goto("restoreWeb", "idle") /\ UNCHANGED <<layout, units, swapped, rest>>

RestoreWeb ==
  /\ Goto("restoreWeb", "idle")
  /\ web' = IF "web" \in swapped /\ web.backup # None
              THEN [live |-> web.backup, backup |-> None] ELSE web
  /\ UNCHANGED <<tree, units, swapped, rest>>

(***************************************************************************)
(* The run is killed, or the machine boots again.                          *)
(***************************************************************************)
\* Between the swap of the trees and that of the web root, or between their returns;
\* or before a release that does not come up is rolled back.
Mixed ==
  /\ Managed
  /\ \/ web.live # tree["app"].tag /\ "web" \notin Weak
     \/ tree["app"].tag \in Bad /\ "trial" \notin Weak

Killed ==
  /\ pc # "idle" /\ ~Torn /\ ~Mixed /\ stops < MaxStops
  /\ stops' = stops + 1
  /\ Goto(pc, "idle")
  /\ UNCHANGED <<layout, units, swapped, pin, written, pins, faults, newest>>

Reboot ==
  /\ ~Torn /\ ~Mixed /\ stops < MaxStops
  /\ stops' = stops + 1
  /\ Goto(pc, "idle")
  /\ active' = enabled /\ port' = None
  /\ UNCHANGED <<layout, enabled, swapped, pin, written, pins, faults, newest>>

(***************************************************************************)
(* The specification.                                                      *)
(***************************************************************************)
\* How the machine was installed: by the role, with or without the standalone
\* install it once adopted, by install-agent.sh alone, or by the latter and an
\* adoption that stopped half-way.
Tree(t, n) == [tag |-> t, state |-> n, request |-> None]
Install(t) ==
  [managed    |-> [app |-> Tree(t, 1), standalone |-> None],
   leftover   |-> [app |-> Tree(t, 1), standalone |-> Tree(t, 0)],
   standalone |-> [app |-> None, standalone |-> Tree(t, 1)],
   partial    |-> [app |-> Tree(None, 0), standalone |-> Tree(t, 1)]]

Init ==
  /\ \E t \in Tags \ Bad, l \in Layouts :
       /\ tree = [d \in Places |-> IF d \in Units THEN Install(t)[l][d] ELSE None]
       /\ port = IF l \in {"managed", "leftover"} THEN "app" ELSE "standalone"
       /\ pin = t /\ web = [live |-> t, backup |-> None]
  /\ enabled = {port} /\ active = {port}
  /\ pc = "idle" /\ target = None /\ mode = None /\ source = None /\ swapped = {}
  /\ written = 1 /\ newest = 1 /\ pins = 0 /\ faults = 0 /\ stops = 0

RunStep ==
  \/ ReadRequest \/ RewritePin \/ Consume \/ AlreadyAt
  \/ Begin \/ Prepare
  \/ StopOld \/ Migrate \/ Quarantine \/ Promote \/ BackupWeb \/ Publish
  \/ Start \/ Gate \/ GateFails
  \/ StopNew \/ MoveFailed \/ Restore \/ StartOld \/ RestoreWeb

Next ==
  \/ RunStep
  \/ Write
  \/ \E t \in Tags : Pin(t) \/ Request(t)
  \/ Cancel \/ RewriteFails
  \/ \E u \in Units : Grab(u)
  \/ AgentDies \/ Fail \/ Killed \/ Reboot

\* The timer starts a run every five minutes and a run goes on.  A unit comes up
\* within seconds, so a run that stops it again and again does not keep it down.
Fairness == WF_vars(RunStep) /\ \A u \in Units : SF_vars(Grab(u))

Spec == Init /\ [][Next]_vars /\ Fairness

(***************************************************************************)
(* Properties.                                                             *)
(***************************************************************************)
\* Whatever serves has the newest state: nothing that was written to the wallet
\* or the memories is gone after an update, a failed one or a stop in between
\* (migrate_state, promote_release, rollback_release), but for what a release
\* wrote before it was rolled back.  Nor is the newest state ever only in
\* the staging directory, which stage_reset of the next run deletes.
NewestKept ==
  /\ TypeOK
  /\ port # None => tree[port].state = newest
  /\ \E d \in Places \ {"staging"} : HasState(d) /\ tree[d].state = newest

\* When run_deploy says that there is nothing to do, the browser application of
\* that release is published too.
NothingToDo == pc = "idle" /\ Serving = pin => web.live = pin

\* The agent answers again, whatever fails or stops, even while the pin names a
\* release that does not come up: the rescue or the next run starts it.
ComesBack == port = None ~> port # None

\* A release that is pinned or requested and comes up is served in the end, unless the
\* request is gone or another release pinned: ops/README.md, "converges within ~5 min on
\* the timer", and "exactly as a manual pin edit would".
Converges ==
  \A t \in Tags \ Bad : pin = t \/ Queued = t ~> Serving = t \/ (pin # t /\ Queued # t)

\* What is queued; between the two renames of a swap it is in the quarantine.
Kept == RequestIn(IF Spool = "app" /\ tree["app"] = None THEN "quarantine" ELSE Spool)

\* A queued request is gone only once the pin names its release, whichever steps of the
\* applier or of a run fail or are cut off and however often: unless the owner cancels it,
\* or it was made to a release that is rolled back (apply_request, migrate_state).
RequestKept ==
  [][\A t \in Tags : Kept = t /\ Kept' # t => pin = t \/ Cancel \/ pc = "moveFailed"]_vars

(***************************************************************************)
(* An update is an Upgrade.  Between its two renames the release in place  *)
(* is in the quarantine, and between those of a rescue beside the failed.  *)
(***************************************************************************)
InPlace ==
  IF pc = "restore" THEN "failed"
  ELSE IF pc = "promote" /\ mode = "existing-ansible" THEN "quarantine"
  ELSE IF Managed THEN "app" ELSE "standalone"

\* On trial, until the gate or the rescue has decided, is an update but no adoption.
OnTrial ==
  /\ pc \in {"backup", "publish", "start", "gate", "stopNew", "moveFailed", "restore"}
  /\ mode = "existing-ansible" /\ "app" \in swapped

SavedTree ==
  IF OnTrial THEN [release |-> tree["quarantine"].tag, state |-> tree["quarantine"].state] ELSE None

Update == INSTANCE Upgrade
  WITH up <- Serving, release <- tree[InPlace].tag, state <- newest, saved <- SavedTree

\* A run is a transaction on the agent and its state: whatever fails or is cut off in it,
\* the release changes only while nothing answers, what the rescue brings back is the
\* release and the state of the cutover, and none is kept that does not come up.
ImplementsUpgrade == Update!Spec
=============================================================================
