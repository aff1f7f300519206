------------------------------ MODULE BlueGreen -------------------------------
(***************************************************************************)
(* The blue-green deployment of the hub (core/orchestrator/bluegreen.py):  *)
(* start the idle colour beside the active one, wait until it is healthy,  *)
(* cut over, and on any failure put the previous compose file back.  The   *)
(* file is stored in Dokploy, which runs `docker compose up' on it, as it  *)
(* is then, once for every deployment it was asked for, in order.          *)
(*                                                                         *)
(* Compose is modelled as the code counts on it: it starts what runs in    *)
(* the file and is not up with that commit, stops the services of the file *)
(* that have no replica, and leaves alone what the file does not name, so  *)
(* the container of the legacy compose file stays.  It may fail half way.  *)
(* A container that is healthy stays so: what the deployer does with it is *)
(* the question.  One deployer at a time; no stored file is offline.       *)
(***************************************************************************)
EXTENDS Naturals, FiniteSets

CONSTANTS
  Shas,         \* shas one may deploy
  Broken,          \* those whose container never gets healthy
  Installed,       \* the sha in service at first
  DeployBound, QueueBound   \* bounds: deployments begun, compose runs outstanding

ASSUME BlueGreenAssumption ==
  /\ Installed \in Shas \ Broken /\ Broken \subseteq Shas
  /\ DeployBound \in Nat /\ QueueBound \in Nat

Colours  == {"blue", "green"}
Services == Colours \cup {"legacy"}
OtherColour(c) == CHOOSE d \in Colours : d # c

VARIABLES
  composeFile,   \* what Dokploy has stored: the marker, and the services with a replica
  containers,    \* by service: commit and health
  upQueue,       \* compose runs asked for and not yet run
  upResult,      \* how the latest one asked for stands
  deployer,      \* the deployer's memory
  begun,         \* deployments begun
  lost           \* history: a switch that had begun to bite was dropped

blueGreenVars == <<composeFile, containers, upQueue, upResult, deployer, begun, lost>>

Absent == [sha |-> Installed, health |-> "absent"]
\* The compose files: parse_state finds no marker in the legacy one.
Legacy    == [active |-> "legacy", sha |-> [c \in Colours |-> Installed], running |-> {"legacy"}]
AtRest == [at |-> "idle", phase |-> "overlap", sha |-> Installed, target |-> "blue",
           previous |-> Legacy, file |-> Legacy]

Names(file) == IF file.active = "legacy" THEN {"legacy"} ELSE Colours
ShaOf(file, s) == IF s = "legacy" THEN Installed ELSE file.sha[s]

-----------------------------------------------------------------------------
\* plan_next, and the files of the two phases.

NextColour(file) == IF file.active = "legacy" THEN "blue" ELSE OtherColour(file.active)

\* Fault: the overlap starts the new colour only.
OverlapAlone(file, s) ==
  [active |-> IF file.active = "legacy" THEN "green" ELSE file.active,
   sha |-> [file.sha EXCEPT ![NextColour(file)] = s], running |-> {NextColour(file)}]
Overlap(file, s) ==
  IF file.active = "legacy"
  THEN [active |-> "green", sha |-> [c \in Colours |-> s], running |-> {"blue"}]
  ELSE [active |-> file.active, sha |-> [file.sha EXCEPT ![NextColour(file)] = s], running |-> Colours]

Cutover(file, s) ==
  [active |-> NextColour(file), running |-> {NextColour(file)},
   sha |-> IF file.active = "legacy" THEN [c \in Colours |-> s] ELSE [file.sha EXCEPT ![NextColour(file)] = s]]

Applies(phase, file) == deployer' = [deployer EXCEPT !.at = "save", !.phase = phase, !.file = file]

-----------------------------------------------------------------------------
\* run_bluegreen_deploy.

\* A commit that the marker names as active counts as deployed.
CountsAsDeployed(s) == composeFile.active \in Colours /\ composeFile.sha[composeFile.active] = s

BeginDeploy(s) ==
  /\ deployer.at = "idle" /\ begun < DeployBound /\ begun' = begun + 1
  /\ ~ CountsAsDeployed(s)
  /\ deployer' = [at |-> "save", phase |-> "overlap", sha |-> s, target |-> NextColour(composeFile),
                  previous |-> composeFile, file |-> Overlap(composeFile, s)]
  /\ UNCHANGED <<composeFile, containers, upQueue, upResult, lost>>

\* apply_compose: store the file, ask for a deployment, poll its result.
SaveFile ==
  /\ deployer.at = "save"
  /\ composeFile' = deployer.file
  /\ lost' = (lost \/ (/\ deployer.phase = "restore"
                          /\ composeFile = Cutover(deployer.previous, deployer.sha)))
  /\ deployer' = [deployer EXCEPT !.at = "ask"]
  /\ UNCHANGED <<containers, upQueue, upResult, begun>>

AskDeployment ==
  /\ deployer.at = "ask" /\ upQueue < QueueBound
  /\ upQueue' = upQueue + 1 /\ upResult' = "running"
  /\ deployer' = [deployer EXCEPT !.at = "poll"]
  /\ UNCHANGED <<composeFile, containers, begun, lost>>

Applied ==
  /\ deployer.at = "poll" /\ upResult = "done"
  /\ deployer' = [deployer EXCEPT !.at =
       CASE deployer.phase = "overlap" -> "gate" [] deployer.phase = "cutover" -> "public" [] OTHER -> "idle"]
  /\ UNCHANGED <<composeFile, containers, upQueue, upResult, begun, lost>>

\* The gate: the new colour's own route answers the new commit.
\* Fault: the gate is the public route, which any colour with that commit answers.
PublicGate == \E s \in Services : containers[s].health = "healthy" /\ containers[s].sha = deployer.sha
ColourIsServing ==
  containers[deployer.target] = [sha |-> deployer.sha, health |-> "healthy"]

\* remove_legacy is tried, and may fail.
PassGate ==
  /\ deployer.at = "gate" /\ ColourIsServing
  /\ Applies("cutover", Cutover(deployer.previous, deployer.sha))
  /\ \/ UNCHANGED containers
     \/ /\ deployer.previous.active = "legacy"
        /\ containers' = [containers EXCEPT !["legacy"] = Absent]
  /\ UNCHANGED <<composeFile, upQueue, upResult, begun, lost>>

\* Nothing but the new colour is left, and the marker does not name it yet.
BareMigration ==
  /\ deployer.phase = "cutover" /\ deployer.at = "save"
  /\ deployer.previous.active = "legacy" /\ containers["legacy"] = Absent

\* An error of any call, a deployment that failed or timed out, a gate that never passed:
\* the previous file is applied, unless restore_allowed refuses it.
Fails ==
  /\ deployer.at \in {"save", "ask", "poll", "gate"}
  /\ \/ deployer.phase # "restore" /\ Applies("restore", deployer.previous)
     \/ deployer' = AtRest
  /\ lost' = (lost \/ BareMigration)
  /\ UNCHANGED <<composeFile, containers, upQueue, upResult, begun>>

\* The public route shows the commit, or never does: nothing is written either way.
EndsPublic ==
  /\ deployer.at = "public" /\ deployer' = AtRest
  /\ UNCHANGED <<composeFile, containers, upQueue, upResult, begun, lost>>

\* The deployer stops; Dokploy goes on with what it was asked for.
DeployerStops ==
  /\ deployer.at # "idle" /\ deployer' = AtRest
  /\ lost' = (lost \/ BareMigration)
  /\ UNCHANGED <<composeFile, containers, upQueue, upResult, begun>>

-----------------------------------------------------------------------------
\* Dokploy and Docker.

UpOne(s) ==
  IF s \notin composeFile.running THEN Absent
  ELSE IF containers[s].health # "absent" /\ containers[s].sha = ShaOf(composeFile, s) THEN containers[s]
  ELSE [sha |-> ShaOf(composeFile, s), health |-> "starting"]

\* The services in S are brought to what the file says.
Up(S) == containers' = [s \in Services |-> IF s \in S THEN UpOne(s) ELSE containers[s]]

ComposeUp ==
  /\ upQueue > 0 /\ upQueue' = upQueue - 1
  /\ \/ Up(Names(composeFile)) /\ upResult' = IF upQueue = 1 THEN "done" ELSE upResult
     \/ \E S \in SUBSET Names(composeFile) : Up(S) /\ upResult' = IF upQueue = 1 THEN "failed" ELSE upResult
  /\ UNCHANGED <<composeFile, deployer, begun, lost>>

GetsHealthy(s) ==
  /\ containers[s].health = "starting" /\ containers[s].sha \notin Broken
  /\ containers' = [containers EXCEPT ![s].health = "healthy"]
  /\ UNCHANGED <<composeFile, upQueue, upResult, deployer, begun, lost>>

-----------------------------------------------------------------------------
\* The hub runs from the legacy file, or from a colour.
BlueGreenInit ==
  /\ \/ /\ composeFile = Legacy
        /\ containers = [s \in Services |-> IF s = "legacy" THEN [sha |-> Installed, health |-> "healthy"] ELSE Absent]
     \/ /\ composeFile = [active |-> "green", sha |-> [c \in Colours |-> Installed], running |-> {"green"}]
        /\ containers = [s \in Services |-> IF s = "green" THEN [sha |-> Installed, health |-> "healthy"] ELSE Absent]
  /\ upQueue = 0 /\ upResult = "done" /\ deployer = AtRest
  /\ begun = 0 /\ lost = FALSE

BlueGreenNext ==
  \/ \E s \in Shas : BeginDeploy(s)
  \/ SaveFile \/ AskDeployment \/ Applied \/ PassGate \/ Fails \/ EndsPublic \/ DeployerStops
  \/ ComposeUp \/ \E s \in Services : GetsHealthy(s)

BlueGreenSpec == BlueGreenInit /\ [][BlueGreenNext]_blueGreenVars
-----------------------------------------------------------------------------
\* Properties.

\* A deployment, however it fails and wherever the deployer stops, leaves the hub with a
\* healthy container, but for two ways of dropping a switch: a stored cutover is taken back
\* (the previous colour is gone and starts cold while the new one is stopped), and the
\* legacy container is removed while the cutover is never stored.
Lit == \E s \in Services : containers[s].health = "healthy"
StaysLit == Lit \/ lost

\* Not so (bluegreen.py:63, "The blue-green switch failed; the previous colour was kept"):
\* StaysLit without its exception.
AlwaysLit == Lit
=============================================================================
