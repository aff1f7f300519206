--------------------------- MODULE WorkflowRuntime ---------------------------
(***************************************************************************)
(* The local workflow runtime (core/workflow/runtime.py): one SQLite store *)
(* of runs with a budget, jobs with dependencies and conflict keys, and    *)
(* leases; every public method is one BEGIN IMMEDIATE transaction, hence   *)
(* one action.  A call that raises rolls back, the reconcile it may have   *)
(* begun included (complete_job on an expired lease), and is no step; a    *)
(* replay that returns a saved result is no step either.                   *)
(*                                                                         *)
(* A lease is named by its job and attempt: claim_next gives every lease   *)
(* the next attempt number of its job.  Times are countdowns: `ttl' of an  *)
(* active lease, `wait' of a job that is scheduled for a retry.  Costs are *)
(* small integers.                                                         *)
(*                                                                         *)
(* Left out: the outbox, an append-only table whose dedupe keys follow     *)
(* from the columns kept here; last_error; created_at and job_id as the    *)
(* last tie-breakers of claim_next (a free choice); ready_at of a new job, *)
(* which no caller sets; DELIVERED, which the runtime refuses everywhere.  *)
(***************************************************************************)
EXTENDS Integers, FiniteSets, Sums

CONSTANTS
  Runs, Jobs, Workers,
  RunOf, StageOf, Priority, DependsOn, ConflictKeys, Estimate,  \* JobSpec, by job
  MaxAttempts,      \* JobSpec.max_attempts, by job
  ProjectOf, Ceiling,                                           \* by run
  StageLimits,      \* stage_limits: a function on the limited stages
  InitialState,     \* initial_state of register_run
  RunTargets,       \* the states clients ask transition_run for
  IdemKeys,         \* explicit idempotency keys in use
  Costs,            \* the actual_cost values workers report
  LeaseTime,        \* lease_seconds, in ticks
  RetryDelay        \* retry_delay_seconds, in ticks

ASSUME RuntimeAssumption ==
  /\ RunOf \in [Jobs -> Runs]
  /\ DependsOn \in [Jobs -> SUBSET Jobs]
  /\ \A j \in Jobs : j \notin DependsOn[j] /\ IsFiniteSet(ConflictKeys[j])
  /\ Estimate \in [Jobs -> Nat] /\ Priority \in [Jobs -> Nat]
  /\ MaxAttempts \in [Jobs -> Nat \ {0}]
  /\ Ceiling \in [Runs -> Nat]
  /\ \A st \in DOMAIN StageLimits : StageLimits[st] \in Nat \ {0}
  /\ Costs \subseteq Nat
  /\ LeaseTime \in Nat \ {0} /\ RetryDelay \in Nat
  /\ IsFiniteSet(Jobs)

VARIABLES
  runs,      \* runs: state, budget_reserved, budget_spent
  jobs,      \* jobs: status, attempt, and the countdown of ready_at
  leases,    \* leases by job and attempt; `charged' is what completion charged
  runOps     \* runtime_operations of type run_transition

runtimeVars == <<runs, jobs, leases, runOps>>

-----------------------------------------------------------------------------
\* The closed workflow graph.

Pending == {"needs_spec", "planning_high", "ready_for_handoff", "waiting_human",
            "waiting_access", "waiting_budget", "needs_replan", "blocked_policy",
            "failed_validation", "succeeded", "independent_review"}

DispatchableStates == {"implementing_economy", "validating", "independent_review", "retryable",
                       "retry_scheduled", "waiting_capacity", "waiting_dependency"}

TerminalStates == {"delivered", "failed", "cancelled", "skipped_by_policy"}

WorkflowStates == Pending \cup DispatchableStates \cup TerminalStates

\* ALLOWED_TRANSITIONS; every state that is not terminal may also be cancelled.
Forward(state) ==
  CASE state = "needs_spec"           -> {"planning_high"}
    [] state = "planning_high"        -> {"ready_for_handoff", "waiting_human", "waiting_dependency",
                                          "needs_replan", "failed_validation"}
    [] state = "ready_for_handoff"    -> {"implementing_economy", "blocked_policy", "needs_replan"}
    [] state = "implementing_economy" -> {"validating", "retryable", "retry_scheduled",
                                          "waiting_capacity", "failed"}
    [] state = "validating"           -> {"independent_review", "failed_validation", "retryable",
                                          "waiting_dependency"}
    [] state = "independent_review"   -> {"delivered", "needs_replan", "failed_validation"}
    [] state = "waiting_human"        -> {"planning_high", "ready_for_handoff"}
    [] state = "waiting_dependency"   -> {"implementing_economy", "validating"}
    [] state \in {"waiting_access", "needs_replan", "blocked_policy"} -> {"planning_high"}
    [] state = "waiting_budget"       -> {"ready_for_handoff"}
    [] state = "waiting_capacity"     -> {"implementing_economy"}
    [] state = "retryable"            -> {"implementing_economy", "retry_scheduled", "failed"}
    [] state = "retry_scheduled"      -> {"implementing_economy", "failed"}
    [] state = "failed_validation"    -> {"implementing_economy", "planning_high", "failed"}
    [] state = "succeeded"            -> {"independent_review"}
    [] OTHER                          -> {}

AllowedTransitions(state) ==
  Forward(state) \cup (IF state \in TerminalStates THEN {} ELSE {"cancelled"})

-----------------------------------------------------------------------------
\* Rows.

Attempts(j)  == 1 .. MaxAttempts[j]
JobStatuses  == {"absent", "ready", "claimed", "succeeded", "failed", "retry_scheduled",
                 "waiting_budget", "cancelled"}
SettledJobs  == {"succeeded", "failed", "cancelled"}
NoLease      == [status |-> "absent", ttl |-> 0, charged |-> 0]
LeaseRows    == [status : {"absent", "active", "completed", "expired", "cancelled"},
                 ttl : 0 .. LeaseTime, charged : Nat]

JobsOf(r)       == {j \in Jobs : RunOf[j] = r}
Claimed(js)     == {j \in Jobs : js[j].status = "claimed"}
AtLeastZero(n)  == IF n > 0 THEN n ELSE 0

-----------------------------------------------------------------------------
\* Runs and jobs enter.

RegisterRun(r) ==
  /\ runs[r].state = "absent"
  /\ runs' = [runs EXCEPT ![r].state = InitialState]
  /\ UNCHANGED <<jobs, leases, runOps>>

\* enqueue_job asks only that the run exists: a job may be added to a run that is over.
EnqueueJob(j) ==
  /\ runs[RunOf[j]].state # "absent"
  /\ jobs[j].status = "absent"
  /\ jobs' = [jobs EXCEPT ![j].status = "ready"]
  /\ UNCHANGED <<runs, leases, runOps>>

\* transition_run.  Without an explicit key the operation key is the transition
\* itself; a key already recorded for the same run and target returns the saved
\* result and moves nothing, any other reuse is a conflict.
DefaultKey(r, target) == <<r, runs[r].state, target>>
Recorded(key)         == \E op \in runOps : op.key = key
Replays(r, target, key) == [key |-> key, run |-> r, target |-> target] \in runOps

Transitions(r, target, key) ==
  /\ runs[r].state # "absent" /\ target # "delivered"
  /\ ~ Recorded(key)
  /\ target # runs[r].state
  /\ target \in AllowedTransitions(runs[r].state)

TransitionRun(r, target, key) ==
  /\ Transitions(r, target, key)
  /\ runs' = [runs EXCEPT ![r].state = target]
  /\ runOps' = runOps \cup {[key |-> key, run |-> r, target |-> target]}
  /\ UNCHANGED <<jobs, leases>>

-----------------------------------------------------------------------------
\* Leases.

\* _reconcile_unlocked: leases that have run out, and the tables it leaves.
RunOut(j) == {a \in Attempts(j) : leases[j][a].status = "active" /\ leases[j][a].ttl = 0}
Expired   == {j \in Jobs : RunOut(j) # {}}

\* Fault: an expired job is retried without regard to its attempts.
ExpiredJobForever(j) == [jobs[j] EXCEPT !.status = "retry_scheduled", !.wait = RetryDelay]

ExpiredJob(j) ==
  IF jobs[j].attempt < MaxAttempts[j]
  THEN [jobs[j] EXCEPT !.status = "retry_scheduled", !.wait = RetryDelay]
  ELSE [jobs[j] EXCEPT !.status = "failed", !.wait = 0]

Due(row) == IF row.status = "retry_scheduled" /\ row.wait = 0
            THEN [row EXCEPT !.status = "ready"] ELSE row

ReconciledJobs == [j \in Jobs |-> Due(IF j \in Expired THEN ExpiredJob(j) ELSE jobs[j])]

ReconciledLeases ==
  [j \in Jobs |-> [a \in Attempts(j) |-> IF a \in RunOut(j)
                                          THEN [leases[j][a] EXCEPT !.status = "expired"]
                                          ELSE leases[j][a]]]

\* Fault: the reservation of an expired lease is kept.
ReconciledRunsKept == runs

ReconciledRuns ==
  [r \in Runs |-> [runs[r] EXCEPT !.reserved = AtLeastZero(@ - Total(Estimate, Expired \cap JobsOf(r)))]]

Reconcile ==
  /\ jobs' = ReconciledJobs
  /\ leases' = ReconciledLeases
  /\ runs' = ReconciledRuns
  /\ UNCHANGED runOps

\* Fault: conflict keys are not looked at.
AdmissibleConflicting(js, rs, j) ==
  /\ js[j].status \in {"ready", "waiting_budget"}
  /\ StageOf[j] \in DOMAIN StageLimits =>
       Cardinality({i \in Claimed(js) : StageOf[i] = StageOf[j]}) < StageLimits[StageOf[j]]
  /\ \A d \in DependsOn[j] : js[d].status = "succeeded"
  /\ rs[RunOf[j]].state \in DispatchableStates

\* Fault: a dependency that has failed counts as done.
AdmissibleAfterFailure(js, rs, j) ==
  /\ js[j].status \in {"ready", "waiting_budget"}
  /\ StageOf[j] \in DOMAIN StageLimits =>
       Cardinality({i \in Claimed(js) : StageOf[i] = StageOf[j]}) < StageLimits[StageOf[j]]
  /\ \A i \in Claimed(js) : ConflictKeys[i] \cap ConflictKeys[j] = {}
  /\ \A d \in DependsOn[j] : js[d].status \in SettledJobs
  /\ rs[RunOf[j]].state \in DispatchableStates

\* The filters of claim_next before the budget.
Admissible(js, rs, j) ==
  /\ js[j].status \in {"ready", "waiting_budget"}
  /\ StageOf[j] \in DOMAIN StageLimits =>
       Cardinality({i \in Claimed(js) : StageOf[i] = StageOf[j]}) < StageLimits[StageOf[j]]
  /\ \A i \in Claimed(js) : ConflictKeys[i] \cap ConflictKeys[j] = {}
  /\ \A d \in DependsOn[j] : js[d].status = "succeeded"
  /\ rs[RunOf[j]].state \in DispatchableStates

\* Fault: what is reserved already is not subtracted.
AffordableTwice(rs, j) == Ceiling[RunOf[j]] - rs[RunOf[j]].spent >= Estimate[j]

Affordable(rs, j) ==
  Ceiling[RunOf[j]] - rs[RunOf[j]].reserved - rs[RunOf[j]].spent >= Estimate[j]

Ranked(js, rs) == {j \in Jobs : Admissible(js, rs, j) /\ Affordable(rs, j)}

Load(js, j) == Cardinality({i \in Claimed(js) : ProjectOf[RunOf[i]] = ProjectOf[RunOf[j]]})

\* Fewest active jobs of the project first, then the highest priority.
Before(js, i, j) ==
  \/ Load(js, i) < Load(js, j)
  \/ Load(js, i) = Load(js, j) /\ Priority[i] > Priority[j]

\* Admissible jobs that the budget does not cover wait for it; the scan marks
\* them whether or not it claims another.
Marked(js, rs) ==
  [j \in Jobs |-> IF Admissible(js, rs, j) /\ ~ Affordable(rs, j)
                  THEN [js[j] EXCEPT !.status = "waiting_budget"] ELSE js[j]]

ClaimedRow(row) == [row EXCEPT !.status = "claimed", !.attempt = @ + 1]

ClaimNext(w) ==
  LET js == ReconciledJobs
      rs == ReconciledRuns
      marked == Marked(js, rs)
  IN
  /\ IF Ranked(js, rs) = {}
     THEN jobs' = marked /\ leases' = ReconciledLeases /\ runs' = rs
     ELSE \E j \in Ranked(js, rs) :
            /\ \A i \in Ranked(js, rs) : ~ Before(js, i, j)
            /\ jobs' = [marked EXCEPT ![j] = ClaimedRow(marked[j])]
            /\ leases' = [ReconciledLeases EXCEPT
                            ![j][js[j].attempt + 1] = [status |-> "active", ttl |-> LeaseTime,
                                                       charged |-> 0]]
            /\ runs' = [rs EXCEPT ![RunOf[j]].reserved = @ + Estimate[j]]
  /\ UNCHANGED runOps

\* Fault: a failed job is retried for ever.
CompletedJobForever(j, outcome) ==
  CASE outcome = "succeeded" -> [jobs[j] EXCEPT !.status = "succeeded"]
    [] outcome = "cancelled" -> [jobs[j] EXCEPT !.status = "cancelled"]
    [] OTHER -> [jobs[j] EXCEPT !.status = "retry_scheduled", !.wait = RetryDelay]

CompletedJob(j, outcome) ==
  CASE outcome = "succeeded" -> [jobs[j] EXCEPT !.status = "succeeded"]
    [] outcome = "cancelled" -> [jobs[j] EXCEPT !.status = "cancelled"]
    [] OTHER -> ExpiredJob(j)

\* complete_job by the worker that owns lease a of job j.
CompleteJob(j, a, outcome, cost) ==
  /\ leases[j][a].status = "active" /\ leases[j][a].ttl > 0
  /\ runs' = [runs EXCEPT ![RunOf[j]].reserved = AtLeastZero(@ - Estimate[j]),
                          ![RunOf[j]].spent = @ + cost]
  /\ leases' = [leases EXCEPT ![j][a] = [status |-> "completed", ttl |-> 0, charged |-> cost]]
  /\ jobs' = [jobs EXCEPT ![j] = CompletedJob(j, outcome)]
  /\ UNCHANGED runOps

\* Fault: the leases of a cancelled run stay active.
CancelledLeasesKept(r) == leases

CancelledLeases(r) ==
  [j \in Jobs |-> IF RunOf[j] = r /\ jobs[j].status = "claimed"
                  THEN [a \in Attempts(j) |-> IF leases[j][a].status = "active"
                                              THEN [leases[j][a] EXCEPT !.status = "cancelled", !.ttl = 0]
                                              ELSE leases[j][a]]
                  ELSE leases[j]]

CancelRun(r) ==
  /\ runs[r].state \notin TerminalStates \cup {"absent"}
  /\ leases' = CancelledLeases(r)
  /\ jobs' = [j \in Jobs |-> IF RunOf[j] = r /\ jobs[j].status \notin SettledJobs \cup {"absent"}
                             THEN [jobs[j] EXCEPT !.status = "cancelled", !.wait = 0] ELSE jobs[j]]
  /\ runs' = [runs EXCEPT ![r].state = "cancelled", ![r].reserved = 0]
  /\ UNCHANGED runOps

-----------------------------------------------------------------------------
Down(n) == AtLeastZero(n - 1)

RuntimeTick ==
  /\ jobs' = [j \in Jobs |-> [jobs[j] EXCEPT !.wait = Down(@)]]
  /\ leases' = [j \in Jobs |-> [a \in Attempts(j) |-> [leases[j][a] EXCEPT !.ttl = Down(@)]]]
  /\ UNCHANGED <<runs, runOps>>

RuntimeInit ==
  /\ runs = [r \in Runs |-> [state |-> "absent", reserved |-> 0, spent |-> 0]]
  /\ jobs = [j \in Jobs |-> [status |-> "absent", attempt |-> 0, wait |-> 0]]
  /\ leases = [j \in Jobs |-> [a \in Attempts(j) |-> NoLease]]
  /\ runOps = {}

LeaseCalls ==
  \/ \E w \in Workers : ClaimNext(w)
  \/ Reconcile
  \/ \E j \in Jobs : \E a \in Attempts(j), outcome \in SettledJobs, cost \in Costs \cup {Estimate[j]} :
       CompleteJob(j, a, outcome, cost)

RuntimeNext ==
  \/ \E r \in Runs : RegisterRun(r) \/ CancelRun(r)
  \/ \E j \in Jobs : EnqueueJob(j)
  \/ \E r \in Runs, target \in RunTargets :
       \E key \in IdemKeys \cup {DefaultKey(r, target)} : TransitionRun(r, target, key)
  \/ LeaseCalls
  \/ RuntimeTick

RuntimeSpec == RuntimeInit /\ [][RuntimeNext]_runtimeVars
-----------------------------------------------------------------------------
\* Properties.

\* Rows of the four tables.
RuntimeTypeOK ==
  /\ \A r \in Runs : /\ runs[r].state \in WorkflowStates \cup {"absent"}
                     /\ runs[r].reserved \in Nat /\ runs[r].spent \in Nat
  /\ \A j \in Jobs : /\ jobs[j].status \in JobStatuses
                     /\ jobs[j].attempt \in 0 .. MaxAttempts[j]
                     /\ jobs[j].wait \in 0 .. RetryDelay
                     /\ leases[j] \in [Attempts(j) -> LeaseRows]

\* A job is claimed exactly while the lease of its current attempt is active, so a
\* late complete_job of an earlier attempt, or of a cancelled run, finds no lease.
OneLeasePerJob ==
  \A j \in Jobs : \A a \in Attempts(j) :
    leases[j][a].status = "active" <=> jobs[j].status = "claimed" /\ jobs[j].attempt = a

\* claim_next's promise to jobs that run at the same time: no shared conflict key,
\* no more than the limit of a stage.
Coexistence ==
  /\ \A i, j \in Claimed(jobs) : i # j => ConflictKeys[i] \cap ConflictKeys[j] = {}
  /\ \A st \in DOMAIN StageLimits :
       Cardinality({j \in Claimed(jobs) : StageOf[j] = st}) =< StageLimits[st]

\* A job that runs, or has run, was started after its dependencies had succeeded,
\* and they still count as succeeded.
DependenciesFirst ==
  \A j \in Jobs : jobs[j].attempt > 0 => \A d \in DependsOn[j] : jobs[d].status = "succeeded"

\* budget_reserved is what the running jobs of the run were estimated at: no
\* completion, expiry or cancellation leaks a reservation or gives one back twice
\* (MAX(0, ...) would hide that).
ReservedBacked ==
  \A r \in Runs : runs[r].reserved = Total(Estimate, Claimed(jobs) \cap JobsOf(r))

\* A run spends at most its ceiling, but for what attempts cost over their estimates.
Overruns(r) ==
  Total([j \in Jobs |-> Total([a \in Attempts(j) |-> AtLeastZero(leases[j][a].charged - Estimate[j])],
                             Attempts(j))],
        JobsOf(r))

CeilingHolds == \A r \in Runs : runs[r].reserved + runs[r].spent =< Ceiling[r] + Overruns(r)

\* A settled job is never run again.
SettledStays ==
  [][\A j \in Jobs : jobs[j].status \in SettledJobs => jobs'[j] = jobs[j]]_runtimeVars
=============================================================================
