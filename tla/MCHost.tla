------------------------------- MODULE MCHost --------------------------------
(* Small instances of what the hosts share: the resource leases, the stages  *)
(* that run under them, and the line lock of one machine.                    *)
EXTENDS FencedStages, LineLock, TLC

CONSTANTS a1, a2, b1, m1, m2, m3, A, B, branch, vps, l1, l2, l3

\* Two executions of run A and one of run B release, and integrate.
HolderOfUsers == a1 :> A @@ a2 :> A @@ b1 :> B @@ m1 :> A @@ m2 :> B @@ m3 :> A
StagesOfUsers == [u \in {a1, a2, b1} |-> "release"] @@ [u \in {m1, m2, m3} |-> "integration"]

\* The parts do not meet; each behaviour is of one of them.
VARIABLE side
hostVars == <<fencedVars, lockVars, side>>

LeaseUsers == {a1, a2, b1}
HandlersOf(p) == CASE p = "release"     -> {a1, a2, b1}
                   [] p = "integration" -> {m1, m2, m3}
                   [] OTHER             -> {}

HostInit == /\ side \in {"lease", "release", "integration", "lock"}
            /\ StagesInit /\ LockInit
            /\ side # "lock" => lockFile = NoFile /\ posix
            /\ side # "release" => lastGood = First

HostNext ==
  /\ \/ side = "lease" /\ UNCHANGED <<stageVars, lockVars>>
                       /\ (LeaseTick \/ \E u \in LeaseUsers : ResourceCalls(u))
                       /\ rows'[branch] = NoRow /\ rows'[vps].token =< 3   \* bounds
     \/ side \in {"release", "integration"} /\ UNCHANGED lockVars
                       /\ \/ StageTick
                          \/ \E u \in HandlersOf(side) : StageSteps(u)
                          \/ \E r \in LeaseRuns : AutoMerge(r) \/ LateDeploy(r)
                       /\ rclock' =< LeaseTtl   \* bound
     \/ side = "lock" /\ LockNext /\ UNCHANGED fencedVars
  /\ UNCHANGED side

\* Bound: a behaviour ends where the ghosts excuse it.
BoundedHost == ~ unfenced /\ ~ mishap /\ HostNext

\* The release alone, and the lock alone, without that bound.
ReleaseOnly == HostInit /\ side = "release" /\ [][HostNext]_hostVars
LockOnly    == HostInit /\ side = "lock" /\ [][HostNext]_hostVars
=============================================================================
