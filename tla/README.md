# Verification of the DarkFactory production line

DarkFactory turns demands into delivered software. A demand becomes a *run*; a run
is worked off stage by stage (grill, planning, development, validation, review,
integration, build_deploy, retrospective) by *cloud workers* on a small fleet of
hosts. Everything the workers, the coordinator and the owner agree on is in one
database, the *control store*. This directory models that store and the processes
around it in TLA+, model-checks them with TLC and proves with TLAPS the main properties
of the store, the line of workers, the runtime and its budgets, the leases, the remote
suite, the dispatcher and the deployment. Paths below are relative to the repository.

## 1. Inventory

The line:

| Part | State it keeps | Operations | Talks to |
| --- | --- | --- | --- |
| Control store, `core/workflow/control_store.py` and its Postgres twin `core/orchestrator/adapters/control_postgres.py` | tables `runs`, `jobs`, `claims`, `fleet_reservations`, `external_operations` (and the append-only `outbox`, `reconciliation_ledger`) | accept, claim, heartbeat, finish, reconcile, record_operation, resume_job, cancel_run, reserve_cycle, heartbeat_reservation, release_reservation, drain_host, renew_open_run_reservations, reconcile_fleet_reservations | called by the parts below, one transaction per call |
| Successor rule, `core/workflow/successors.py` | none of its own | materialize_result | applied to the store by workers and by the orphan sweep |
| Cloud worker, `core/orchestrator/cloud_worker.py` | local variables of one poll, a heartbeat thread | poll, claim, dispatch, beat, finish, materialize, release the cycle, sweeps | store, stage handlers |
| Orphan sweep, `core/line/orphan_runs.py` | none | find, replay, re-check, park | store; run by idle workers |
| Coordinator, `core/orchestrator/cloud_coordinator.py` | lists read from the store | lease sweep, reservation renewal and sweep, admission | store |
| Owner, `core/line/human.py`, `core/line/cancellation.py` | – | resume a parked job, cancel a run | store |

The services around it:

| Part | State it keeps | Operations | Talks to |
| --- | --- | --- | --- |
| Workflow runtime, `core/workflow/runtime.py` | SQLite tables of runs with budgets, jobs with dependencies and conflict keys, leases, idempotency keys | register_run, enqueue_job, claim_next, heartbeat, complete_job, fail_job, transition_run, cancel, reconcile | the cycle service, local workers |
| Cycle service, `core/workflow/cycle.py` | correction trackers, in memory | start_development, submit_candidate, run_validation, submit_review, ... | the runtime, several transactions per method |
| Execution budget, `core/execution/budget.py` | three SQLite tables | reserve, commit, release, upgrade, expire | model callers in several threads and processes |
| Resilient provider, `core/execution/resilience.py` | two circuit breakers, in memory | generate, verdicts, reset | local and cloud models |
| Remote suite, `core/harness/remote_worker.py`, `remote_dispatch.py`, `cache.py` | jobs in memory, records on disk, git refs, processes, a verdict cache | submit, cancel, restart, poll; the job thread, the watchdog, start-up recovery | clients on other hosts, over HTTP |
| Resource leases, `core/line/resource_lease.py`, and the stages under them, `stage_integration.py`, `stage_release.py` | one row per branch or target; the branch, the deployed commit, state refs in git | acquire, heartbeat, release, is_held_by; merge, deploy, smoke, roll back | GitHub, the deploy provider |
| Line lock, `core/line/line_lock.py` | one file per machine | acquire with recovery of a stale lock, beat, release | the file system |
| Fleet dispatcher, `core/line/fleet_dispatcher.py`, and admission store, `core/line/admission_store.py` | queue and runs in memory; failures, reservations, the recovery latch in a store; a file of pending proofs | a cycle: reap, choose, probe, admit, launch, deploy, prove | runs (own processes), the deploy provider |
| Blue-green deployment, `core/orchestrator/bluegreen.py` | one deployer's variables; the compose file in Dokploy; containers | overlap, gate, cutover, restore | Dokploy, Docker |

What makes this hard: a job is settled in **several transactions** (finish, then a
read, then materialize_result, then the release of the reservation) by a process
that may die between any two; **leases and reservations expire** while their holder
is still at work; every call carries a **clock reading of its caller**, and the poll
loop reuses one reading for minutes; two storage adapters **differ** in when they
close a run; sweeps run on every idle worker at once; the owner cancels and resumes
at any moment. Around the line, services keep **part of their state in memory and part
on disk** and are restarted (cycle trackers, suite jobs, the dispatcher's runs);
**state is read before a lease is taken or a transaction begun** and written after it
(release state, budget balances); and things are **left to somebody else** (GitHub's
auto-merge, a provider's deployment, a queued compose run) and happen when nobody waits
for them any more.

What makes each part correct:

* store: one holder per job, no job running without a holder, fencing tokens that
  only grow, settled jobs final, reservations unique per host and ticket and bounded;
* line: one open job per run, nothing open on a run that is over, a completed run
  has delivered, a cancelled one stays dead, an active one is never forgotten;
* fleet: a claim does not outlive its reservation, a slot is given back; one run per
  host and ticket, no attempt that failed made again, recovery ended by a proof;
* runtime and cycle: one lease per job, dependencies done first, reserved cost exactly
  that of live leases and under the ceiling, corrections bounded;
* budget and circuits: balances that are the sum of what is reserved, ceilings kept, no
  more probes than trials, no breaker stuck half open;
* remote suite: no verdict nobody earned, one run per key, every record closed;
* shared targets: a lost lease stays lost, one deployer, merges only on the tip that
  was tested, a last good commit that did pass its smoke, one launch per machine;
* deployment: the hub is never left without a healthy container.

The other parts of the repository are listed with their status in `PROJECT.json`.

## 2. Modules

```
Successors            the successor rule, pure
  ControlStore        five tables, one action per store operation, Spec
    StoreRefinement      the store as an implementation of StageLease (abstract)
      ControlStoreProofs theorems about ControlStore, the implementation among them
      MCStore            small instances of the store
    CloudLine         workers, sweeps, coordinator, owner on top of the store
      CloudLineProofs    theorems about CloudLine
      MCLine             small instances of the line
Sums                  sums over the rows of a table
  SumProofs              their laws
WorkflowRuntime       the embedded runtime
  Cycle               the cycle service on top of it
    WorkflowRuntimeProofs  theorems about both
ExecutionBudget       the budget manager
  ExecutionBudgetProofs  theorems about ExecutionBudget
    MCEngine             small instances of the three
ResourceLease         leases with fencing tokens
  FencedStages        integration and release under them
LineLock              the lock file of a machine
    HostProofs           theorems about the three
    MCHost               small instances of the three
FleetDispatcher       the dispatcher, its admission store, the runs it launched
BlueGreen             the blue-green deployment
  DeliveryProofs         theorems about both
    MCDelivery           small instances of the two
    MCServices        MCEngine, MCDelivery and MCHost in one run
RemoteSuite           the remote validation suite and its clients
ModelCircuit          circuit breakers in front of the models
  SuiteProofs            theorems about both
    MCSuite              small instances of the two
```

Where one MC module instantiates several components that do not meet, a variable says
which of them a behaviour is of, and the others stay in one initial state: the state
spaces add up and do not multiply.

**Successors** translates the first half of `materialize_result`. A job key is a
run, a stage and an iteration (`ticket_id` and `plan_version` are fixed by the run).
A cause_code is reduced to what the rule reads in it: the stage of `retry:<stage>`,
and whether it has a `not_before` or is a `base_red` wait. `SuccessorKeys`,
`CapExceeded`, `DbStatus` and `Gated` are the successor list, the loop guard, the
recorded status and the claim gate.

**ControlStore** has one variable per table, and one action per operation whose
guard is the operation's checks and early returns and whose updates are its SQL. A
refused call (`StaleLeaseError`, a busy host, ...) rolls back and is no step. `Next`
lets any client call anything at any time, so what is shown here needs nothing of the
callers. The one exception is `materialize_result`, which is given a job that has been
claimed once, or a new one to park: `MaterializeSome` is what its two callers do.

*Time.* Expiry times are countdowns (`ttl`, `gate`), update stamps are ages. `lag` is
how old the caller's clock reading is, between 0 and `MaxLag`; a stored time has
passed for the caller when `t + lag =< 0`. The saturation of countdowns at `Floor` and
of ages above `MaxAge` keeps the state finite and hides nothing a guard can tell apart.

*Adapters.* `FinishClosesRun` is TRUE for SQLite, whose finish closes the run when a
success leaves nothing open, and FALSE for Postgres, where only `materialize_result`
does. `Managed` is `fleet_managed_enabled()`: no claim without a reservation.

**CloudLine** gives each worker a program counter: `idle`, `handler` (with the state of
its heartbeat thread), `returned`, `bounce`, `resolved`, `closing`, and `repair`,
`recheck` for the orphan sweep. Each step is one transaction or one read of the code.
`since` is the age of `effective_now`, which `poll_and_execute_once` reads before its
sweeps and hands to claim, finish and materialize. `Crash` is possible everywhere. The
coordinator's admission is two steps, `ListAdmission` and `ReserveOffer`. A handler is
any result of `HandlerResults`; an exception in it is a plain retry, as the worker
makes it. `Recycle` is a modelling device: ids are fresh uuids in the code, so the row
of a closed claim that nobody refers to may stand for a later one. It is taken at
once, so it adds no interleavings.

**StageLease** is what the store promises of a job, without tables: an owner, a fencing
token that grows with each owner, the token its external operation was recorded under,
and whether it is settled. `Grant`, `Act` and `Withdraw` are its only steps.
**StoreRefinement** maps the tables to it; every
transaction of the store is such a step or none: `store_leases` checks it and
**ControlStoreProofs** proves it.

**WorkflowRuntime** has one action per public method, each a transaction; leases are named
by job and attempt. **Cycle** adds the methods of the service, cut at every call they make
to the runtime: `todo` holds the calls a method has still to make, and a restart or an
exception drops them. The trackers are lost with the process, so the bound on corrections
(`ReworkBounded`, whose ghost counts since the last start) is one per life of the service;
nothing in the code bounds them through restarts.

**ExecutionBudget** cuts each method between its reads and its first write, because Python's
sqlite3 begins a transaction at the first write. `store`, `pending` and `writer` are the
committed tables, the open transaction's and its owner.

**ModelCircuit** gives each thread a place in `generate`; verdicts arrive in any order.

**RemoteSuite** has the manager's memory, the disk, the git refs and the processes apart,
so that a restart, a crash and the successor's recovery lose exactly what they lose. HTTP
requests interleave with the job thread, the watchdog and each other; the job thread is cut
where another thread can act. `_set_status` and `_persist` hold no lock where it matters, so
every call of them is three steps, kept in `call` by actor (the job thread, the restart
request, each client's requests): the look at `interrupted`, the fields with the serialized
record, the write of the file. The flag `raced` is a ghost: a restart closed the job while
another call on it was past its check. Left out: the unhandled exception of the job thread
(`_worker_loop`, which closes the job), and evidence that does not parse or names another
commit, which the client reports as a failure without a suite.

**ResourceLease** is one row per resource with acquire, heartbeat, release; a *user* is one
execution of a stage handler, and executions of a run share its holder_id. **FencedStages**
adds the integration and release handlers, cut at each call to the lease table, the branch,
the refs or the target; what is left to GitHub (`armed`) and to the provider (`late`: also what
failed, was not verified, or lost its worker) happens later by itself. A second execution of a
run's stage may begin at any time: the heartbeat thread of a worker returns after one failed
renewal (`cloud_worker.py:638-643`) while its handler goes on, and when the claim has expired
another worker runs the stage. The two share the row and its token. `overlapped` is a ghost:
the runs that had two executions of a stage at once. `unfenced` is another: a lease expired
under an execution or was released under it by another of its run, or something left to GitHub
or the provider fell into the middle of one.

**LineLock** has a step per file-system call of `acquire`, `_recover_stale`, `_beat` and
`release`, for any number of launches. The platform is chosen at the start (`posix`: an open
file can be moved); `Reserving` is the fleet mode. `mishap` is a ghost: an open lock was moved;
or a lock was created while a live launch's, misjudged, was aside; or a launch that overslept
wrote or deleted its successor's lock.

**FleetDispatcher** follows `run_cycle`: `mind` is the process's memory (its phase, its queue,
what it launched), the other variables survive a stop. Admission checks, reservations with
their expiry, breakers by ticket, host and resource version, the recovery latch, the deploy
of what was merged and the proof from production are steps of the cycle; the runs are
processes that end by themselves.

**BlueGreen** cuts the deployment at every call to Dokploy: a compose run that was asked for
happens later, on the file stored *then*, and may fail half way. `lost` remembers the two
cases in which the code itself gives up a healthy container.

Definitions marked `Fault:` are deliberate mistakes. They are not used by any
specification; substituting one for the definition it precedes (`PROJECT.json`,
"mutants") shows that the property listed with it would notice.

## 3. Properties and runs

Passing runs (distinct states):

| Run | Specification | Checks | States | Shows |
| --- | --- | --- | --- | --- |
| `store_leases` | `LeaseSpec`, one run, two lease ids, SQLite | `TypeOK`, `LeaseIntegrity`, `RunningIsLeased`, `TokensFence`, `SettledJobsFinal`, `OperationsFenced`, `StageLeases` | 70 k | leases under every operation of the store, and the refinement of StageLease |
| `store_fleet` | `FleetSpec`, two runs, two hosts, managed | `FleetExclusive`, `FencingMonotone` | 355 k | claims under reservations that expire, drain, are released; competition for hosts and tickets |
| `line_safe` | `LineSpec`, two workers, Postgres | `LinearRun`, `TerminalQuiet`, `CompletedMeansDelivered`, `CancelledStaysDead` | 870 k | the run as a whole |
| `line_live` | `FairLineSpec` | `RunsSettle` | 160 k | no active run is forgotten, whatever crashes |
| `line_sqlite` | `FairLineSpec`, SQLite | `GhostsClosed` | 24 k | questions left on finished runs are closed |
| `line_fleet` | `FairLineSpec`, managed | `ClaimsUnderReservation`, `SlotsReturn` | 160 k | workers, coordinator and reservations together; slots come back |
| `services` | `ServicesSpec` | runtime: `OneLeasePerJob`, `DependenciesFirst`, `ReservedBacked`, `CeilingHolds`, `SettledStays`; cycle: `ReworkBounded`; budget: `BalanceBacked`, `CeilingsHold`; dispatcher: `OneRunEach`, `FailsOnce`, `RecoveryProven`; deployment: `StaysLit`; leases and stages: `LostStaysLost`, `OneDeployer`, `GoodIsGood`, `MergeOnTested`; lock: `LineExclusive` | 1 160 k | the services around the line, and what the hosts share, one part per behaviour |
| `suite` | `SuiteSpec` | suite: `VerdictEarned`, `SharedRun`, `InterruptedKept`, `JobsClose`; circuits: `ProbesBounded`, `CircuitMoves` | 270 k | the remote suite through cancellations, stalls, restarts and crashes, with every call of `_set_status` cut in three; the circuits |

Runs that end in a counterexample, each a disagreement between the code and what the
repository says of it (quotations in `PROJECT.json`, "findings"):

| Run | Property | What the counterexample shows |
| --- | --- | --- |
| `bug_late_cancel` | `CancelledStaysDead` | a cancellation between finish and materialize_result is followed by a new pending job |
| `bug_swallow` | `SuccessRoutesOn` | a stage is retried and later sends the run back to an earlier one; the new success there derives a successor whose key the retries have taken, the insert does nothing, nothing is open, and the run is closed as completed with nothing delivered |
| `bug_rework` | `SubmittedIsValidating` | the second submit_candidate of a run replays the idempotency key of the first transition to VALIDATING and moves nothing: a corrected candidate is never validated |
| `bug_release` | `LastGoodIsLatest` | release loads its state before it takes the deploy lease; a failed smoke saves that old state back over a newer last-good commit |

Statements of the repository that TLC also refutes, each a definition of its module that
no run checks:

* `OneLinePerMachine` (LineLock), the docstring of `line_lock.py` (lines 9 and 25: two racing
  launches "never both own the lock"). On POSIX two launches are enough: one creates the file,
  the other takes it, not yet written, for a stale lock, moves it aside and deletes it, and both
  operate the line. On Windows an open file cannot be moved, and a third launch is needed, which
  creates the lock while a misjudged one is aside; the put-back overwrites it. `LineExclusive`,
  which holds, excepts these cases (`mishap`). `LockOnly` in MCHost shows it.
* `OneRunDeploys` (FencedStages), the docstring of `resource_lease.py` (line 7: "only one run
  deploys to a shared production target at a time"). Two executions of one run share the row
  and its token; the first to return frees it while the other deploys, and another run deploys
  beside it, with no lease expired. It also fails without a second execution: a deployment is
  polled for up to 900 s under a lease of 180 s that nothing renews. `ReleaseOnly` in MCHost
  shows it.
* `InterruptedStays` (RemoteSuite), the comment at `remote_worker.py:723`, that the run thread
  "must not overwrite" the verdict of a restart: the thread passes the check of `_set_status`,
  mark_interrupted closes the job, and the thread writes "running" or a verdict over it.
  Named in `suite.cfg`, it is refuted, and so is the next one.
* `InterruptedReaped` (RemoteSuite), the docstring at `remote_worker.py:975`, that the job child
  is "not left orphaned": the thread starts the suite after mark_interrupted closed the job.
* `FinishUnexpired` (CloudLine): the expiry test of finish uses the clock reading of the
  poll, so a worker whose lease has run out still settles its job. `ParkedRunOpen`: on SQLite
  the run is closed before the next stage is inserted, and that stage can park in a completed
  run. `ReplanEnqueuesPlanning`: planning at iteration 0 always exists already, so a replan
  inserts nothing.
* `HoldoutEarned` (RemoteSuite): a client that asked for the holdout can share a job
  without it and store its pass under its own cache key.
* `OneRecovery` (FleetDispatcher): the slot of a recovery delivery is extended by the
  dispatcher that launched it alone; after a restart it expires and a second delivery starts.
* `TicketsMove` (FleetDispatcher), that free hosts are kept busy: a ticket with an open breaker
  goes back to the head of the queue, for every host and every cycle, and those behind it are
  never dispatched. `QueueSpec` in MCDelivery, with `ThreeTickets` and `OneHost`, shows it.
* `AlwaysLit` (BlueGreen), the docstring of BlueGreenError: a stored cutover that is taken
  back, and a legacy container removed before a cutover that is never stored.

One remark has no definition: `drain_host` has no caller yet; reserve_cycle does not count a
draining reservation, which still admits claims, though `FleetReservation` promises one
cycle per host (`FleetExclusive` is about active cycles).

A stop of the deployer in the first switch from the legacy file leaves a marker that names
green with the new commit, though blue runs: a retry for the same commit returns at once as
deployed (`CountsAsDeployed`), and the legacy container is not removed later.

`CHECK_DEADLOCK FALSE` everywhere: lease and reservation ids are finite in the store
runs, a line whose runs are all over may stop, and the bounded services end.

## 4. Bounds, and why they are enough

* *Stages.* Two or three productive stages and the retrospective. The rule is the same
  for every stage except build_deploy, which the three-stage line keeps.
* *Runs, workers, hosts.* Runs share only hosts and tickets, so properties of a run are
  checked with one run and two workers (two are enough for a holder and a usurper), and
  properties of reservations with two or three runs and two hosts.
* *Ids.* Two leases, two reservations: in the store runs this bounds the length
  of a behaviour, in the line runs (`Recycle`) only how many are live.
* *Time.* A lease lasts one or two ticks; a clock reading is up to `MaxLag` ticks old,
  so an expiry can fall on either side of it. The store runs use `MaxLag = 0`: old
  readings are exercised by the line runs, where they come from the worker's program,
  and by the proofs, which hold for every `MaxLag`.
* *Counters.* `MaxRetries`, `MAX_STAGE_ITERATIONS` and `MAX_SAME_STAGE_RETRIES` are 0 or
  1 instead of 3, 10 and 30: the cap is reached and overrun. `MaxIteration` bounds the
  keys; a materialize that would pass it is disabled, and `line_live` leaves room for the
  iteration at which the orphan sweep parks a run. There a plain retry turns the loop once, and
  a run sent back trips its cap at once. `ResumeBound` and `ClaimBound` end
  the owner's resumes and the fleet's requeues, which the code does not limit.
* *Timing assumptions*, each a constant so that a run can do without it. `MinHandler = 1`:
  a handler takes longer than the gap between finish and materialize. Without it
  `LinearRun` fails: finish(retry) requeues the job before its successor exists, a second
  worker takes the run on, and the successor arrives too. `Undisturbed`: no tick and no cancellation falls into that gap
  (dropping it gives `bug_late_cancel`). `line_live` assumes neither. `MaxPollLag` is how
  long an idle worker's sweeps delay its claim. It is 0 in `line_safe`: with a delay,
  stamps of one tick's granularity let the orphan sweep mistake an older job for the last
  one (listed as a hazard; in the code stamps are in microseconds and the sweep waits
  for minutes). The theorems about the line (§6) hold for every `MaxPollLag` shorter than
  a handler and than a lease.
* *Symmetry* (lease and reservation ids, the two workers with their hosts) is used for safety
  only.
* *Runtime and cycle.* Four jobs in two runs with a dependency, a shared conflict key and a
  limited stage, one of the two already registered, one worker (a lease that expires is its own
  rival), and a third run driven
  by the cycle service with three corrections and one restart: the cap is reached twice.
* *Budget.* One process, three reservations, a window shorter than their age; attempts and
  concurrency at their limits. Between two processes a stale balance can be written: the
  model has it, the properties are not claimed for it.
* *Suite.* Two jobs, one outage (a restart, a crash or a stall), and two parts: two clients
  with one key that do not ask again, with an outage or cancellations in one behaviour; and one
  client that asks again once, so that its second job meets what the first one left, and cancels
  the first job only. The theorems of §6 have neither bound. *Circuit.* Two threads, a threshold
  of two, one trial, one interruption.
* *Leases and stages.* Executions a1, a2 of run A and b1 of run B release, m1, m3 of A and m2 of B
  integrate, each begun once (`StageBound`) and at any moment: two of A may overlap, and each
  lease can be lost to a rival, to time and to its own run. The clock goes to three for the
  leases alone, to the end of one lease under the stages. A behaviour ends where `unfenced` or
  `mishap` excuses it.
* *Line lock.* Three launches, on either platform, before them a ghost that died with a full or
  an empty lock, or none.
* *Dispatcher.* Two tickets, two hosts, two launches, one stop, one class of error besides a
  failed launch; reservations, cooldown and
  deploy window of one tick. `RecoveryThreshold` is 1 so that recovery is reached at all:
  `FailsOnce` shows that the default of 3 never is. Reaping takes no time.
* *Blue-green.* Two deployments (three were also tried), three compose runs outstanding, three
  commits of which one never gets healthy; the proof (§6) needs none of these bounds.

## 5. Fairness

`FairLineSpec` assumes weak fairness of the clock, of the coordinator's scan, of every
worker's polls and sweeps, and of each step of a worker that has begun to settle a job:
these are loops that run for ever (`run_forever`, `_supervision_loop`) and straight-line
code. `HandlerDone` is fair because agents and commands run under time-outs. Strong
fairness is assumed of `RepairOrphan` only: with weak fairness a worker could die in the
middle of every repair it ever begins. Nothing is assumed of heartbeats, of the owner, or
against crashes; admission is not fair either.

`RemoteFairness`: the job thread, the calls and requests under way and the watchdog go on while
the daemon is up, an exit that was asked for happens a second later, and the service manager starts the daemon again.
Clients are not fair. The circuits: provider calls return (they have time-outs), callers keep
asking (strong, for a request finds the circuit half open or not by chance), time passes.
`DispatcherFairness`: the loop goes on, time passes, and runs end, which they do under
time-outs; no passing run needs it (`TicketsMove`, which TLC refutes, is stated under it).

## 6. Proofs

Each theorem holds for every value of the constants that satisfies the assumptions its
module names (types, non-empty sets, positive limits; `MaxLag =< MaxAge` for the store),
hence without the bounds of section 4.

| Module | Theorem | States |
| --- | --- | --- |
| `ControlStoreProofs` | `Invariance` | `Spec => []IInv` |
| | `TypeCorrect`, `LeasesExclusive`, `NoStrandedJob`, `TokensUnique` | the four state invariants of the store |
| | `SettledFinal`, `TokensIncrease`, `OperationsMonotone` | the three action properties |
| | `FleetSafety`, `FleetBounded` | the reservation invariants |
| | `StoreImplements` | `Spec => StageLeases`: the store implements StageLease |
| `CloudLineProofs` | `LineInvariance` | `LineSpec => []LineSound` |
| | `OneJobAtATime`, `ClosedIsQuiet` | a run has one open job, and none when it is over |
| | `DeadStaysDead` | a cancelled run and its jobs do not move |
| | `CompletedIsDelivered` | a completed run has delivered, where no handler sends a run back |
| | `ClaimsKeepReservations` | no claim outlives its reservation, with one worker to a host of a managed fleet |
| `WorkflowRuntimeProofs` | `RuntimeInvariance`, `OneLease`, `SettledIsFinal`, `DependenciesHold` | one lease per job, settled jobs final, dependencies first |
| | `ReservationsBacked`, `CeilingKept` | reserved money is that of the claimed jobs; ceilings |
| | `JobsCoexist`, `RuntimeTyped` | claimed jobs share no conflict key and keep to the stage limits; types |
| | `LoopBounded`, `DrivenOneLease`, `DrivenMoney` | corrections bounded; the runtime's invariants while the cycle drives it |
| `ExecutionBudgetProofs` | `BalanceKept`, `CeilingsKept` | the balance is the sum of the active reservations; ceilings of the budget and of every window |
| | `AttemptsBounded` | open reservations and attempts |
| `SumProofs` | (lemmas) | laws of sums over finite sets |
| `SuiteProofs` | `RemoteInvariance`, `VerdictsEarned`, `RunsShared`, `RestartedStays` | no verdict nobody earned, one run per key, a job closed by a restart stays closed unless a call was past its check |
| | `ProbesCounted` | no more probes than trials |
| `HostProofs` | `LeasesTyped`, `LostForGood` | a lost resource lease stays lost |
| | `StagesInvariance`, `DeploysAlone`, `LastGoodWorks`, `MergesOnTip` | one deploying run, a good last-good, merges on the tested tip, while no lease is lost |
| | `OneLine` | of any launches, on either platform, at most one operates the line, until a mishap |
| `DeliveryProofs` | `SwitchInvariance`, `HubStaysLit` | a hub that answers goes on answering |
| | `DispatcherInvariance`, `HostsAndTicketsSingle`, `FailuresSingle`, `RecoveryEndsProven` | one run per host and ticket, no failure twice, recovery ends with a proof |

*Store.* `IInv` is `TypeOK /\ LeaseIntegrity /\ RunningIsLeased /\ TokensFence /\ Unborn`.
The lease invariants need each other: reconcile looks a job up by the token of an expired
claim, cancel_run releases every claim of a run, and neither checks the other table.
`Unborn` (no job without a run, no token without a job) is the strengthening: accept and
materialize_result insert rows with token 0, which would reset a token if the row had been
claimed. Instead of seventeen separate preservation proofs, every action but claim is shown
*quiet*: each job is kept as it is or put to rest with a token no smaller, and an active
claim closes exactly when its job is put to rest (`Loosens`). One lemma (`LoosensPreserves`)
then carries the invariant, and the action properties follow from the same shape. `Claim`
is the only step that starts a job and is treated on its own. For the reservations a step
either adds no active row, keeping the others, or is reserve_cycle after its own sweep
(`FleetShape`); the ceiling uses the cardinality lemmas of `FiniteSetTheorems`.

*Refinement.* The same shapes give the refinement: a claim is a `Grant`, record_operation an
`Act`, and a quiet step a `Withdraw`, for the jobs that it puts to rest lose their owner and
keep or raise their token.

*Line.* The theorems assume `Timely`: the Postgres adapter, whose finish leaves the run open;
transactions stamped with the clock reading of the poll; `Undisturbed`; an idle worker's
reading is younger than a handler or a lease lasts (`MaxPollLag`), and no reading is older
than the orphan sweep waits; no handler returns `cancelled`, which is the worker's own word;
build_deploy ends the DAG. Nothing is assumed of the number of runs, workers, stages and ids,
of retries, bounces, replans and waits, or of crashes. Each hypothesis but the last two is
needed: section 4 names what breaks without it, and on SQLite finish itself closes the run.
The invariant gives each run a *leader* (`Leads`): its open job or, when nothing is open, the
job stamped last, which is the one the orphan sweep will replay. All else is time. While a
worker settles a job, or repairs an orphan, no other can finish a job of that run, for whoever
holds a claim there has only just begun (`Calm`); its own job still leads and has the status
that finish left, or one that a reclaim may have made of it (`ResolvedSound`); of two repairs
of one orphan the second finds the successors of the first (`RepairSound`, `Done`). A worker
that may still finish read its clock after all other jobs of the run were stamped
(`Handled`), so what it writes is stamped newest. Steps are sorted by what they do to a run:
soft ones (claims, beats, resumes, reclaims), which move only open jobs; cancellations; and
those that record a result and follow up. The lemmas of the store's proof are used as they are.

*Completed means delivered.* Besides `Timely` this assumes that the line is `Straight`: no
result names an earlier stage, none asks for a replan, and the stages from grill to
build_deploy can be ranked so that the DAG goes up. The assumption is needed, for a run that
was sent back can be closed with nothing delivered (`bug_swallow`). What follows a job must be
*new*, or its insert does nothing and the run is closed: so the invariant (`OnTrack`) says that
a run which neither delivered nor failed is led by its `Farthest` job, no other being of a
higher rank or of a later iteration; hence neither a retry nor the next stage exists yet.

*Claims and reservations.* A slot is given up by three parties: a sweep or a cancellation,
which releases the claims of the run with it, and the worker that settled the run's last
stage, which does not look at the claims again. That this worker takes no claim away is the
theorem's work: in the meantime the owner may have answered, and the job may have been claimed
anew, but under the same reservation only by a worker of the same host, which is the one that
is still settling (`OnePerHost`: the runbook's one cycle per host, which the line lock of the
machine enforces), and an older claim of its own would be a second open job of the run
(`OneJobAtATime`). So a worker that holds a lease knows of no other active claim under its
reservation (`Seated`). Without managed mode, or with two workers on one host, TLC finds the
slot taken from a live claim within the bounds of `line_fleet`.

*Sums.* The balances of the stores are `SUM(...)` over rows. `SumProofs` shows that adding,
removing or changing a row changes the sum by as much, though the sum is defined by recursion
over the elements in the order of CHOOSE: each law is an induction on the cardinality of a
set, done by a least counterexample because the library's induction rules take an operator.

*Money.* Runtime: a run's reserved money is the sum of the estimates of its claimed jobs, and
with what was spent it is under the ceiling plus what attempts cost over their estimate
(complete_job does not ask). An active lease is not yet charged (`Uncharged`), or completing
it would count twice. Budget: the theorems assume one process (`OneProcess`), whose lock
serializes the methods; between two, a method writes a balance it read before another's
commit. The invariant is that both views of the tables, committed and pending, are sound, and
that what a method has read is still what it will write over (`Ready`). The attempts limit is
checked against attempts that are over, so open reservations may pass it: what is kept is the
sum of both (`Limited`), which a commit leaves alone.

*Suite.* The invariant goes job by job. A job has a *duty* left (it waits in the queue, is at one
place of the thread, or is still to be queued by the request that posted it) at most once. What a
call has read and not yet written is part of the state: the invariant says of every call under
way that its job is known, that the record it will write has the job's key, and that a result in
it is that of the job's process, which has ended. Memory and disk agree only up to these calls.
A closed job that is still to be run carries the flag that says who closed it, and flags only grow
while the daemon serves: so a job that a call past its check reopens beside a new one of its key
is one of the exceptions of `RunsShared`. A client's verdict is that of a process that ran.
`RestartedStays` holds because a job that a restart closed and no call raced is
`worker_restarted` and interrupted in memory: every later call stops at the check, and what is
still to be written of it says the same; the successor's recovery keeps closed records.
The circuits: a half-open breaker has let through as many probes as it counts.

*Resource leases.* The type invariant is inductive once it says that no lease object is
ahead of its row's token. An object that has lost its row stays lost because acquire gives a
row that changes hands a token above every object's, and release keeps the token.

*Fenced stages.* A resource lease is per run, and nothing keeps two executions of one run apart.
So the invariant does not say that one execution acts: it says that every execution past acquire
passes is_held_by, hence that executions which act on one resource are of one run, and that a run
with two of them is in `overlapped`. What one of them rebased is still on the tip, unless another
execution of its run has merged it; what it deployed is still installed, or its run has overlapped and a second execution may
have rolled it back. All of it is under `unfenced`, which is set by the step that ends its
premises: the stages do not heartbeat, so a lease may expire (`StageTick`), and the release of one
execution frees the row of the other (`FreesAnother`). Types and the places of each stage hold
without it. The proofs assume that `Branch` and `Target` are different resources
(integration_resource_id and deploy_resource_id have different prefixes).

*Line lock.* The theorem assumes nothing of the launches or the platform. While a launch holds the
lock and has not slept, its lock is in place, or in the hands of a launch that misjudged it,
with nothing in its place; that one will put it back, because what it reads is not what it
observed: whoever it observed was dead or slept by then, and stays so. The three mishaps are
exactly what breaks this: a lock not yet written has nothing to read; a lock created in the place
of a misjudged one is a second; and a launch that overslept believes the lock its own.

*Deployment.* Compose runs happen late and read the file stored then, so the invariant is
about files: each file that an outstanding or later compose run may meet *keeps* a healthy
container (the one its marker names, or the legacy one), and two files that may follow each
other keep the same one. `lost` excuses the two cases in which the code gives it up.

*Runtime.* The invariant speaks of one job at a time (`JobSound`): the active leases of a job
are the one of its current attempt while it is claimed and none otherwise, and a job that may
still start has an attempt left. Every call makes each job stay, turn, start or stop
(`JobStep`), after its own sweep where it has one. The cycle makes only calls of the runtime,
so the same lemmas serve for the cycle, with the workers' calls interleaved. That claimed jobs
may run together (`Together`) is a fact about a set of jobs that every part of it keeps: calls
only take jobs out of it, and claim_next adds one that it admitted beside those its own sweep
and marks leave. `RuntimeTyped` assumes that runs are registered in a state of the graph (an
enumeration in the code).

*Dispatcher.* The runs it has launched are numbered without gaps (a run is never
overwritten); a flight is a run on its host whose scope has not failed; and while hosts are
served no live run is on a ticket still queued, nor on a host that is neither an orphan's nor
in flight (`DispatchSound`). The last is what makes `OneRunEach` inductive, and it holds after
a restart because Choose looks at all live runs, its own or not.

*Only model-checked*: liveness under fairness (`RunsSettle`, `GhostsClosed`, `SlotsReturn`,
`JobsClose`, `CircuitMoves`), which is out of the prover's reach, and the `bug_` runs.

## 7. Not modelled, and why

Inside the modelled parts: the outbox and the reconciliation ledger (append-only, read by
no guard here), costs, evidence and output references; the order in which claim scans the
queue and `ready_age_sec` (a free choice instead); LIMITs of the sweeps; row locks of a
Postgres transaction; owner notifications; host health and capacity probes and the host
order of the fleet policy (a free choice of a free host); the stage handlers other than
integration and release, which hand back a result after agent work (`HandlerResults`); the
dispatcher's resumed deliveries, recovery tickets and operational checkouts; the rendering
of compose files and the redeploy script around the deployment.

Not modelled at all, with the reason in `PROJECT.json`: user interface, reporting, planning
documents, content generation, and wrappers of git, Docker, HTTP and command-line agents.
They are the larger part of the repository's lines; what they keep is written by one process
and read by people.

In no run because they are proved: `RuntimeTypeOK` (`RuntimeTyped`), `Coexistence`
(`JobsCoexist`), `AttemptsNearLimit` (`AttemptsBounded`), `FleetCapacity` (`FleetBounded`) and
`LineTypeOK`, a part of the invariant of `LineInvariance`.

## 8. Plan

Done: `Successors`, `ControlStore`, `CloudLine`, `StageLease` and the refinement;
`WorkflowRuntime`, `Cycle`, `ExecutionBudget`, `ModelCircuit`, `RemoteSuite`,
`ResourceLease`, `FencedStages`, `LineLock`, `FleetDispatcher`, `BlueGreen`; eight modules of
proofs, the line, the budgets and the remote suite among them.

Left, in order of importance:

1. `NotifyOnce`: `_notify_once` and record_operation under crashes and reclaims.
2. `PgLocks`: lock order of finish, cancel_run and the sweeps in Postgres.
3. `SuiteLock`: the lock of a machine's suite, like the line lock.
4. `LedgerMerge`: merging of demand and owner-action ledgers (idempotent, commutative,
   no lost decision).
5. `FleetPolicy`: host ranking as an operator checked against its stated order.
