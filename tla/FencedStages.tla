---------------------------- MODULE FencedStages -----------------------------
(***************************************************************************)
(* The two stages of the line that act under a resource lease:             *)
(* integration (core/line/stage_integration.py), which merges into the     *)
(* shared branch, and release (core/line/stage_release.py), which deploys  *)
(* to the shared target, smokes it and rolls it back.                      *)
(*                                                                         *)
(* Neither stage heartbeats its lease.  The lease, the state refs, the     *)
(* branch and the production target are shared by hosts; a handler is cut  *)
(* at each call to one of them, and may crash anywhere.  Nothing keeps two *)
(* executions of one run apart: a worker whose store heartbeat fails goes  *)
(* on with its handler (cloud_worker.py:638-643) while the claim expires   *)
(* and another worker begins the same stage.  They share the run's lease   *)
(* and its token.                                                          *)
(*                                                                         *)
(* A run's commit is named by the run.  A smoke check looks at what is     *)
(* installed: it can pass only on a working commit, and can always fail.   *)
(***************************************************************************)
EXTENDS ResourceLease, Sequences

CONSTANTS
  Branch, Target,   \* the two resources
  StageOfUser,      \* [Users -> {"integration", "release"}]
  Working,          \* the runs whose commit works in production
  First,            \* the commit installed at the start
  MaxSmokeFailures, \* _MAX_CONSECUTIVE_SMOKE_FAILURES
  StageBound        \* bound: executions of a user

ASSUME StageAssumption ==
  /\ {Branch, Target} \subseteq Resources /\ Branch # Target
  /\ \A u \in Users : StageOfUser[u] \in {"integration", "release"}
  /\ MaxSmokeFailures \in Nat \ {0} /\ StageBound \in Nat

VARIABLES
  at,         \* by user: where its handle() is
  executions,
  tip,        \* the shared branch: the number of merges
  base,       \* by user: the tip its branch was rebased on
  installed,  \* the production target
  lastGood,   \* refs/darkfac/release/last-good
  strikes,    \* by run: its smoke-fail refs
  seen,       \* by user: the ReleaseState it loaded
  proven,     \* ghost: the last commit that passed its smoke
  merged,     \* the runs whose pull request is merged
  armed,      \* the runs whose pull request GitHub is to merge by itself (--auto)
  late,       \* the commits that the provider deploys though no stage waits for them
  overlapped, \* ghost: the runs that had two executions of a stage at once
  unfenced    \* ghost: a lease expired under an execution or was released under it by
              \* another one of its run; or what had been left to GitHub or to the provider
              \* happened in the middle of an execution

integrationVars == <<tip, base, merged, armed>>
releaseVars     == <<installed, lastGood, strikes, seen, proven, late>>
stageVars == <<at, executions, integrationVars, releaseVars, overlapped, unfenced>>
fencedVars == <<leaseVars, stageVars>>

ReleaseUsers == {u \in Users : StageOfUser[u] = "release"}
Running(u)   == at[u] \notin {"idle", "success", "failed"}

Goto(u, where) == at' = [at EXCEPT ![u] = where]

-----------------------------------------------------------------------------
\* Both stages.

SameStage(u, v) == HolderOf[u] = HolderOf[v] /\ StageOfUser[u] = StageOfUser[v]

\* handle begins, whatever other executions of the run are doing.  Release loads its
\* state, before the lease; a commit already recorded, or a pull request already merged,
\* is a success.
BeginStage(u) ==
  /\ at[u] = "idle" /\ executions[u] < StageBound
  /\ executions' = [executions EXCEPT ![u] = @ + 1]
  /\ overlapped' = overlapped \cup
       {r \in LeaseRuns : r = HolderOf[u] /\ \E v \in Users : SameStage(u, v) /\ Running(v)}
  /\ seen' = [seen EXCEPT ![u] = [good |-> lastGood, strikes |-> strikes]]
  /\ Goto(u, IF \/ StageOfUser[u] = "release" /\ lastGood = HolderOf[u]
                \/ StageOfUser[u] = "integration" /\ HolderOf[u] \in merged
             THEN "success" ELSE "acquire")
  /\ UNCHANGED <<leaseVars, integrationVars, installed, lastGood, strikes, proven, late, unfenced>>

ResourceOf(u) == IF StageOfUser[u] = "release" THEN Target ELSE Branch

\* acquire; ResourceBusyError is a retry.
AcquireStage(u) ==
  /\ at[u] = "acquire"
  /\ IF Free(u, ResourceOf(u))
     THEN AcquireLease(u, ResourceOf(u)) /\ Goto(u, "leased")
     ELSE Goto(u, "idle") /\ UNCHANGED leaseVars
  /\ UNCHANGED <<executions, integrationVars, releaseVars, overlapped, unfenced>>

\* The release of u frees the row under another execution with the same token.
FreesAnother(u) == Mine(u) /\ \E v \in Users \ {u} : Running(v) /\ held[v] = held[u]

\* The handler returns; the lease is released in the finally block.
Leaves(u, where) ==
  /\ Goto(u, where) /\ ReleaseLease(u)
  /\ unfenced' = (unfenced \/ FreesAnother(u))

\* The handler goes on.
GoesOn(u, where) == Goto(u, where) /\ UNCHANGED <<leaseVars, unfenced>>

\* The early returns under the lease, to be retried or for good: a conflict, a failed
\* push, no pull request, checks pending or red, a merge refused or not visible yet; no
\* commercial acceptance, no smoke configured.
ReturnEarly(u) ==
  /\ at[u] \in {"leased", "rebased", "checked", "merged"}
  /\ \E where \in {"idle", "failed"} : Leaves(u, where)
  /\ UNCHANGED <<executions, integrationVars, releaseVars, overlapped>>

\* A deployment that was started may go on without its stage; the provider deploys what
\* the branch then is at.
MayLandLate == late' = late \/ \E r \in LeaseRuns : late' = late \cup {r}

\* The worker dies, before or after the provider has been asked.
CrashStage(u) ==
  /\ Running(u)
  /\ Goto(u, "idle") /\ ForgetLease(u)
  /\ IF at[u] \in {"deploying", "rollback"} THEN MayLandLate ELSE UNCHANGED late
  /\ UNCHANGED <<executions, integrationVars, installed, lastGood, strikes, seen, proven, overlapped, unfenced>>

\* The fencing check before the merge, before the deployment and before the smoke.
FencingCheck(u) ==
  /\ \/ at[u] = "rebased"
     \/ at[u] = "leased" /\ StageOfUser[u] = "release"
     \/ at[u] = "deployed"
  /\ IF IsHeldBy(u)
     THEN GoesOn(u, CASE at[u] = "rebased"  -> "checked"
                      [] at[u] = "leased"   -> "deploying"
                      [] at[u] = "deployed" -> "smoking")
     ELSE Leaves(u, "idle")
  /\ UNCHANGED <<executions, integrationVars, releaseVars, overlapped>>

-----------------------------------------------------------------------------
\* Integration.

\* Fault: a branch that an execution of the run rebased is not rebased again.
RebaseOnce(u) ==
  LET rebased == {base[v] : v \in {w \in Users : SameStage(u, w) /\ base[w] # -1}} IN
  /\ at[u] = "leased" /\ StageOfUser[u] = "integration"
  /\ \E t \in IF rebased = {} THEN {tip} ELSE rebased : base' = [base EXCEPT ![u] = t]
  /\ Goto(u, "rebased")
  /\ UNCHANGED <<leaseVars, executions, tip, merged, armed, releaseVars, overlapped, unfenced>>

\* Rebase, push, pull request and checks.
Rebase(u) ==
  /\ at[u] = "leased" /\ StageOfUser[u] = "integration"
  /\ base' = [base EXCEPT ![u] = tip]
  /\ Goto(u, "rebased")
  /\ UNCHANGED <<leaseVars, executions, tip, merged, armed, releaseVars, overlapped, unfenced>>

\* The pull request of run r is merged into the branch, once.
Merged(r) == merged' = merged \cup {r} /\ tip' = IF r \in merged THEN tip ELSE tip + 1

\* _merge_pr: gh merges at once, or finds the pull request merged; or the branch is
\* protected, and GitHub is asked to merge when it can, the lease released meanwhile.
Merge(u) ==
  /\ at[u] = "checked"
  /\ \/ Merged(HolderOf[u]) /\ GoesOn(u, "merged") /\ UNCHANGED armed
     \/ /\ armed' = armed \cup {HolderOf[u]}
        /\ Leaves(u, "idle") /\ UNCHANGED <<tip, merged>>
  /\ UNCHANGED <<executions, base, releaseVars, overlapped>>

\* GitHub merges, whoever holds the lease and is about to merge.
AutoMerge(r) ==
  /\ r \in armed \ merged
  /\ Merged(r)
  /\ unfenced' = (unfenced \/ \E u \in Users : at[u] \in {"rebased", "checked"})
  /\ UNCHANGED <<leaseVars, at, executions, base, armed, releaseVars, overlapped>>

\* _confirm_remote_ancestry; what is not there yet is a retry (ReturnEarly).
ConfirmMerge(u) ==
  /\ at[u] = "merged"
  /\ Leaves(u, "success")
  /\ UNCHANGED <<executions, integrationVars, releaseVars, overlapped>>

-----------------------------------------------------------------------------
\* Release.

\* Fault: the installed digest is not looked at.
DeployedUnverified(u, sha, claimed) == claimed

\* The deployment is believed only if the target reports the commit.
Deployed(u, sha, claimed) == claimed /\ sha = HolderOf[u]

\* _deploy: the adapter reports success or not, and the target is as it was or at some
\* commit of the branch.  What failed, was still in progress when the polls ran out or
\* could not be verified may land later.  Some refusals are final.
DeployEnds(u, claimed, sha) ==
  /\ at[u] = "deploying"
  /\ installed' = sha
  /\ IF Deployed(u, sha, claimed)
     THEN GoesOn(u, "deployed") /\ UNCHANGED late
     ELSE (\E where \in {"idle", "failed"} : Leaves(u, where)) /\ MayLandLate
  /\ UNCHANGED <<executions, integrationVars, lastGood, strikes, seen, proven, overlapped>>

\* The provider ends a deployment nobody waits for, perhaps before another one's smoke.
LateDeploy(r) ==
  /\ r \in late
  /\ installed' = r /\ late' = late \ {r}
  /\ unfenced' = (unfenced \/ \E u \in Users : at[u] \in {"deployed", "smoking"})
  /\ UNCHANGED <<leaseVars, at, executions, integrationVars, lastGood, strikes, seen, proven, overlapped>>

\* save: the loaded state, with this run's strikes, is pushed over the refs.
Saved(u, good, count) ==
  /\ lastGood' = IF good = NoOne THEN lastGood ELSE good
  /\ strikes' = [r \in LeaseRuns |-> IF r = HolderOf[u] THEN count
                                 ELSE IF seen[u].strikes[r] > 0 THEN seen[u].strikes[r] ELSE strikes[r]]

SmokePasses(u) ==
  /\ at[u] = "smoking" /\ installed \in Working
  /\ Saved(u, HolderOf[u], 0)
  /\ proven' = HolderOf[u]
  /\ Leaves(u, "success")
  /\ UNCHANGED <<executions, integrationVars, installed, seen, late, overlapped>>

\* The smoke fails: the strike is recorded; with a last good commit to go back to, the
\* rollback follows.  Otherwise the failure is logged on the branch, or not.
SmokeFails(u, logged) ==
  LET count == seen[u].strikes[HolderOf[u]] + 1 IN
  /\ at[u] = "smoking"
  /\ Saved(u, seen[u].good, count)
  /\ IF seen[u].good = NoOne
     THEN Leaves(u, IF count >= MaxSmokeFailures \/ ~ logged THEN "failed" ELSE "idle")
     ELSE GoesOn(u, "rollback")
  /\ UNCHANGED <<executions, integrationVars, installed, seen, proven, late, overlapped>>

\* adapter.rollback, the smoke of what it restored, and the log on the branch: anything
\* but a proven restoration is a failure for a human.  A rollback that failed may have
\* asked the provider for a redeployment.
Rollback(u, restored, proved) ==
  /\ at[u] = "rollback"
  /\ installed' = IF restored THEN seen[u].good ELSE installed
  /\ IF restored THEN UNCHANGED late ELSE MayLandLate
  /\ Leaves(u, IF restored /\ proved /\ strikes[HolderOf[u]] < MaxSmokeFailures THEN "idle" ELSE "failed")
  /\ UNCHANGED <<executions, integrationVars, lastGood, strikes, seen, proven, overlapped>>

-----------------------------------------------------------------------------
StageTick ==
  /\ LeaseTick
  /\ unfenced' = (unfenced \/ \E u \in Users : Running(u) /\ Mine(u) /\ rows[held[u].resource].expires = rclock + 1)
  /\ UNCHANGED <<at, executions, integrationVars, releaseVars, overlapped>>

StagesInit ==
  /\ LeaseInit
  /\ at = [u \in Users |-> "idle"] /\ executions = [u \in Users |-> 0]
  /\ tip = 0 /\ base = [u \in Users |-> -1]
  /\ installed = First /\ lastGood \in {First, NoOne} /\ proven = lastGood
  /\ strikes = [r \in LeaseRuns |-> 0]
  /\ seen = [u \in Users |-> [good |-> NoOne, strikes |-> strikes]]
  /\ merged = {} /\ armed = {} /\ late = {} /\ overlapped = {} /\ unfenced = FALSE

StageSteps(u) ==
  \/ BeginStage(u) \/ AcquireStage(u) \/ ReturnEarly(u) \/ CrashStage(u) \/ FencingCheck(u)
  \/ Rebase(u) \/ Merge(u) \/ ConfirmMerge(u)
  \/ \E claimed \in BOOLEAN, sha \in LeaseRuns \cup {installed} : DeployEnds(u, claimed, sha)
  \/ SmokePasses(u) \/ \E logged \in BOOLEAN : SmokeFails(u, logged)
  \/ \E restored, proved \in BOOLEAN : Rollback(u, restored, proved)

StagesNext == \/ StageTick
              \/ \E u \in Users : StageSteps(u)
              \/ \E r \in LeaseRuns : AutoMerge(r) \/ LateDeploy(r)

StagesSpec == StagesInit /\ [][StagesNext]_fencedVars
-----------------------------------------------------------------------------
\* Properties.

\* Two runs never deploy, smoke or roll back the shared target at the same time, whatever
\* crashes, is retried or overlaps, unless a lease ran out under one of them or was
\* released under it by another execution of its own run.
OneDeployer ==
  \A u, v \in ReleaseUsers :
    /\ HolderOf[u] # HolderOf[v]
    /\ at[u] \in {"deploying", "deployed", "smoking", "rollback"}
    /\ at[v] \in {"deploying", "deployed", "smoking", "rollback"}
    => unfenced

\* A commit recorded as the last good one works: what was smoked is what was recorded.
\* The exceptions are a lease lost in between, a late deployment between the verification
\* and the smoke, and a run with two executions, one of which may roll back what the
\* other smokes.
GoodIsGood == lastGood \in Working \cup {First, NoOne} \cup overlapped \/ unfenced

\* A merge lands on the tip its branch was rebased and checked on: no other run merged
\* in between, across retries, crashes and second executions, unless a lease was lost or
\* GitHub made a merge that was left to it just then.
MergeOnTested ==
  [][\A u \in Users : tip' # tip /\ at[u] = "checked" /\ at'[u] = "merged" =>
       base[u] = tip \/ unfenced]_fencedVars

\* Not so: "only one run deploys to a shared production target at a time".  No lease need
\* expire: an execution that returns frees the row under another one of its run, which
\* has passed its fencing check.  (Nor does a lease of 180 s, which nothing renews, cover
\* a deployment that is polled for up to 900 s.)
OneRunDeploys ==
  \A u, v \in ReleaseUsers :
    HolderOf[u] # HolderOf[v] => ~ (at[u] = "deploying" /\ at[v] = "deploying")

\* Not so: "refs/darkfac/release/last-good -> the last SHA that passed smoke".  The
\* state is loaded before the lease is taken, and a failed smoke saves it back.
LastGoodIsLatest == lastGood = proven
=============================================================================
