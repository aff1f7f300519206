------------------------------ MODULE CloudLine ------------------------------
(***************************************************************************)
(* The processes that drive the control store: the cloud workers           *)
(* (core/orchestrator/cloud_worker.py), which claim a job, run its stage,  *)
(* finish it and materialize its successors in separate transactions; the  *)
(* sweeps an idle worker runs while it polls, orphan runs among them       *)
(* (core/line/orphan_runs.py); the coordinator's recovery scan             *)
(* (core/orchestrator/cloud_coordinator.py); and the owner, who resumes    *)
(* and cancels.                                                            *)
(*                                                                         *)
(* A worker is a small program: proc[w].pc is where it stands, and the     *)
(* other fields are the local variables alive there.  `since' is the age   *)
(* of the clock reading (effective_now) its next transactions will use.    *)
(*                                                                         *)
(* Left out: what a stage handler does (any result of HandlerResults, or   *)
(* an exception, which the worker turns into a plain retry); owner         *)
(* messages; the workspace, artifact and context sweeps, which never touch *)
(* the store; the line lock of the host (one worker per host); the outbox. *)
(* drain_host has no caller in the repository and is not part of Next.     *)
(***************************************************************************)
EXTENDS ControlStore

CONSTANTS
  HandlerResults,  \* the results the handler of a stage may return, by stage
  IdleLimit,       \* ORPHAN_IDLE_LIMIT, in ticks
  FreshFinish,     \* TRUE: finish reads the clock anew; FALSE: as the poll loop calls it
  MinHandler,      \* timing: a handler takes at least this many ticks
  Undisturbed,     \* timing: no tick and no cancellation falls between the
                   \* transactions by which a worker settles one job or one orphan
  MaxPollLag,      \* bound: how long an idle worker's sweeps delay its claim
  ResumeBound,     \* bound: the owner resumes a job while its token is below
  ClaimBound       \* bound: a worker claims a job while its token is below

ASSUME LineAssumption ==
  /\ HandlerResults \in [Stages -> SUBSET Results]
  /\ IdleLimit \in Nat /\ MinHandler \in Nat /\ ResumeBound \in Nat /\ ClaimBound \in Nat
  /\ FreshFinish \in BOOLEAN /\ Undisturbed \in BOOLEAN
  /\ MaxPollLag \in Lags
  /\ IdleLimit + MaxPollLag < MaxAge

VARIABLES
  proc,    \* the local state of every worker
  offer    \* the admission the coordinator has chosen and not yet reserved

lineVars == <<vars, proc, offer>>

-----------------------------------------------------------------------------
\* Worker states.

Idle    == [pc |-> "idle"]
NoOffer == [pc |-> "none"]
Parking == [outcome |-> "waiting_human", target |-> NoStage, delay |-> "none"]
Failure == [Parking EXCEPT !.outcome = "failed"]

WorkerStates ==
  UNION {
    [pc : {"idle"}],
    [pc : {"handler"}, lease : Leases, since : Lags, beat : {"first", "lease", "cycle", "off"}],
    [pc : {"returned", "bounce"}, lease : Leases, since : Lags, result : Results],
    [pc : {"resolved"}, lease : Leases, since : Lags, result : Results, top : -1 .. MaxIteration],
    [pc : {"closing"}, lease : Leases, result : Results],
    [pc : {"repair", "recheck"}, key : Keys, since : Lags, result : Results] }

Offers == {NoOffer} \cup [pc : {"reserve"}, run : Runs, host : Hosts]

Timed(w) == proc[w].pc \in {"handler", "returned", "bounce", "resolved", "repair", "recheck"}

\* Between the transactions that settle one job, or that repair one orphan run.
Settling(w) == proc[w].pc \in {"bounce", "resolved", "repair", "recheck"}

\* The run a worker is settling.
SettledRun(w) == IF proc[w].pc \in {"repair", "recheck"} THEN proc[w].key.run
                 ELSE claims[proc[w].lease].key.run

Goto(w, state) == proc' = [proc EXCEPT ![w] = state]

-----------------------------------------------------------------------------
\* A worker and its stage.

\* poll_and_execute_once, the claim: effective_now was read lag ticks ago.
PollClaim(w, lag) ==
  \E k \in Keys, l \in Leases, x \in Reservations \cup {NoReservation} :
    /\ proc[w].pc = "idle"
    /\ jobs[k].token < ClaimBound
    /\ Claim(w, k, l, x, lag)
    /\ Goto(w, [pc |-> "handler", lease |-> l, since |-> lag, beat |-> "first"])
    /\ UNCHANGED offer

\* The reservation _beat_reservation renews: the claim's own while it is active,
\* else the one live reservation of the run, if that is active.
BeatTargets(l) ==
  LET x == claims[l].reservation IN
  IF x # NoReservation /\ reservations[x].status = "active"
  THEN {x}
  ELSE {y \in LiveOf(claims[l].key.run) : reservations[y].status = "active"}

BeatReservation(l, lag) ==
  IF BeatTargets(l) = {} THEN UNCHANGED vars
  ELSE \E x \in BeatTargets(l) : HeartbeatReservation(x, lag)

\* _start_lease_heartbeat: one beat of the reservation at the time of the claim,
\* then the lease and the reservation in turn.  A refused lease heartbeat ends
\* the thread; a refused reservation heartbeat does not.
FirstBeat(w) ==
  /\ proc[w].pc = "handler" /\ proc[w].beat = "first"
  /\ BeatReservation(proc[w].lease, proc[w].since)
  /\ Goto(w, [proc[w] EXCEPT !.beat = "lease"])
  /\ UNCHANGED offer

LeaseBeat(w) ==
  /\ proc[w].pc = "handler" /\ proc[w].beat = "lease"
  /\ \/ Heartbeat(proc[w].lease, 0) /\ Goto(w, [proc[w] EXCEPT !.beat = "cycle"])
     \/ /\ ~ CanFinish(proc[w].lease, 0)
        /\ Goto(w, [proc[w] EXCEPT !.beat = "off"])
        /\ UNCHANGED vars
  /\ UNCHANGED offer

CycleBeat(w) ==
  /\ proc[w].pc = "handler" /\ proc[w].beat = "cycle"
  /\ BeatReservation(proc[w].lease, 0)
  /\ Goto(w, [proc[w] EXCEPT !.beat = "lease"])
  /\ UNCHANGED offer

\* The handler returns or raises.  If the store then says that the run was
\* cancelled the result is discarded.
HandlerDone(w) ==
  /\ proc[w].pc = "handler"
  /\ proc[w].since >= MinHandler
  /\ \E result \in HandlerResults[claims[proc[w].lease].key.stage] :
       IF runs[claims[proc[w].lease].key.run] = "cancelled"
       THEN Goto(w, [pc |-> "closing", lease |-> proc[w].lease,
                     result |-> [Parking EXCEPT !.outcome = "cancelled"]])
       ELSE Goto(w, [pc |-> "returned", lease |-> proc[w].lease,
                     since |-> proc[w].since, result |-> result])
  /\ UNCHANGED <<vars, offer>>

\* store.finish, with the clock reading of the poll (or a fresh one).  A refused
\* finish raises StaleLeaseError through execute_step: the worker polls again.
\* Any other error of the store turns the result into a failure.
FinishStep(w) ==
  LET p   == proc[w]
      lag == IF FreshFinish THEN 0 ELSE p.since
      settling(result) ==
        IF result.target # NoStage
        THEN [p EXCEPT !.pc = "bounce", !.since = lag]
        ELSE [pc |-> "resolved", lease |-> p.lease, since |-> lag, result |-> result, top |-> -1]
  IN
  /\ p.pc = "returned"
  /\ \/ \E result \in {p.result, Failure} :
          Finish(p.lease, result.outcome, lag) /\ Goto(w, settling(result))
     \/ ~ CanFinish(p.lease, lag) /\ Goto(w, Idle) /\ UNCHANGED vars
  /\ UNCHANGED offer

\* materialize_result reads max_iteration of a bounce before its transaction.
ResolveBounce(w) ==
  LET p == proc[w] IN
  /\ p.pc = "bounce"
  /\ Goto(w, [pc |-> "resolved", lease |-> p.lease, since |-> p.since, result |-> p.result,
              top |-> TopFor(claims[p.lease].key, p.result)])
  /\ UNCHANGED <<vars, offer>>

\* Fault: the local variables of the settled job stay alive.
MaterializeStepStale(w) ==
  LET p == proc[w] IN
  /\ p.pc = "resolved"
  /\ \E overBudget \in BudgetReadings(p.result) :
       MaterializeResult(claims[p.lease].key, p.result, p.top, overBudget, p.since)
  /\ Goto(w, [p EXCEPT !.pc = "closing"])
  /\ UNCHANGED offer

MaterializeStep(w) ==
  LET p == proc[w] IN
  /\ p.pc = "resolved"
  /\ \E overBudget \in BudgetReadings(p.result) :
       MaterializeResult(claims[p.lease].key, p.result, p.top, overBudget, p.since)
  /\ Goto(w, [pc |-> "closing", lease |-> p.lease, result |-> p.result])
  /\ UNCHANGED offer

\* _handle_cycle_completion_or_parking: the status the reservation is released
\* with, and the row that is looked at (bound to the claim, else the run's).
SettleStatus(r, outcome) ==
  CASE outcome = "waiting_human" -> {"released"}
    [] outcome = "cancelled"     -> {"cancelled"}
    [] OTHER -> IF runs[r] \in {"completed", "failed", "cancelled"} /\ ~ HasOpen(jobs, r)
                THEN {runs[r]} ELSE {}

SettleTargets(l) ==
  LET x    == claims[l].reservation
      rows == IF x # NoReservation THEN {x} ELSE LiveOf(claims[l].key.run)
  IN  {y \in rows : reservations[y].status = "active"}

SettleCycle(w) ==
  LET l        == proc[w].lease
      statuses == SettleStatus(claims[l].key.run, proc[w].result.outcome)
  IN
  /\ proc[w].pc = "closing"
  /\ IF statuses = {} \/ SettleTargets(l) = {}
     THEN UNCHANGED vars
     ELSE \E x \in SettleTargets(l), s \in statuses : ReleaseReservation(x, s)
  /\ Goto(w, Idle)
  /\ UNCHANGED offer

\* The worker's process dies, or a step raises, at any point: its local state is
\* gone and it polls again after a restart.
Crash(w) ==
  /\ proc[w].pc # "idle"
  /\ Goto(w, Idle)
  /\ UNCHANGED <<vars, offer>>

-----------------------------------------------------------------------------
\* The sweeps of an idle worker.

\* Fault: only runs whose jobs all succeeded count as orphans.
OrphanedSucceeded(r, lag) ==
  /\ runs[r] = "active"
  /\ \A k \in JobsOf(r) : jobs[k].status # "absent" =>
       jobs[k].status = "succeeded" /\ jobs[k].age - lag > IdleLimit

\* find_orphan_run: an active run with no open job, idle for longer than the
\* limit.  Its newest job decides; jobs updated in the same tick tie.
Orphaned(r, lag) ==
  /\ runs[r] = "active"
  /\ ~ HasOpen(jobs, r)
  /\ \A k \in JobsOf(r) : jobs[k].status # "absent" => jobs[k].age - lag > IdleLimit

NewestJobs(r) ==
  {k \in JobsOf(r) : jobs[k].status # "absent" /\ Newest(k)}

\* _replay_result.  The cause_code of a retry is not kept in the model: any that
\* a handler gives.  A cancelled job is not replayed.
ReplayResults(k) ==
  LET plain(o) == {[Parking EXCEPT !.outcome = o]} IN
  CASE jobs[k].status = "succeeded"           -> plain("success")
    [] jobs[k].status \in {"failed", "replan"} -> plain(jobs[k].status)
    [] jobs[k].status = "retry"  -> {result \in HandlerResults[k.stage] : result.outcome = "retry"}
    [] OTHER                     -> {Parking}

FindOrphan(w, lag) ==
  /\ proc[w].pc = "idle"
  /\ \E r \in Runs : /\ Orphaned(r, lag)
                     /\ \E k \in NewestJobs(r) : \E result \in ReplayResults(k) :
                          Goto(w, [pc |-> "repair", key |-> k, since |-> lag, result |-> result])
  /\ UNCHANGED <<vars, offer>>

\* _park, on the stage that should follow, at its next free iteration.
Park(k, lag) ==
  LET stage  == IF k.stage \in DOMAIN PRODUCTIVE_DAG THEN PRODUCTIVE_DAG[k.stage] ELSE k.stage
      parked == [k EXCEPT !.stage = stage, !.iteration = TopIteration(k.run, stage) + 1]
  IN  parked \in Keys /\ MaterializeResult(parked, Parking, -1, FALSE, lag)

\* _repair: replay the outcome of the newest job, then look again; park the run
\* when there is nothing to replay, or when it is still active with nothing open.
RepairOrphan(w) ==
  LET p == proc[w] IN
  /\ p.pc = "repair"
  /\ IF p.result = Parking
     THEN Park(p.key, p.since) /\ Goto(w, Idle)
     ELSE /\ \E overBudget \in BudgetReadings(p.result) :
               MaterializeResult(p.key, p.result, TopFor(p.key, p.result), overBudget, p.since)
          /\ Goto(w, [p EXCEPT !.pc = "recheck"])
  /\ UNCHANGED offer

RecheckOrphan(w) ==
  LET p == proc[w] IN
  /\ p.pc = "recheck"
  /\ IF runs[p.key.run] = "active" /\ ~ HasOpen(jobs, p.key.run)
     THEN Park(p.key, p.since)
     ELSE UNCHANGED vars
  /\ Goto(w, Idle)
  /\ UNCHANGED offer

\* Fault: questions of completed and failed runs are not closed.
CloseGhostCancelled(w, lag) ==
  /\ proc[w].pc = "idle"
  /\ \E k \in Keys : /\ jobs[k].status = "waiting_human"
                     /\ runs[k.run] = "cancelled"
                     /\ CancelRun(k.run, lag)
  /\ UNCHANGED <<proc, offer>>

\* _close_ghost_open_job: a job that waits on a human in a run that is over.
CloseGhost(w, lag) ==
  /\ proc[w].pc = "idle"
  /\ \E k \in Keys : /\ jobs[k].status = "waiting_human"
                     /\ runs[k.run] \in {"completed", "failed", "cancelled"}
                     /\ CancelRun(k.run, lag)
  /\ UNCHANGED <<proc, offer>>

-----------------------------------------------------------------------------
\* The coordinator's scan and the owner.

LiveReservations == {x \in Reservations : reservations[x].status \in LiveReservation}

\* admit_eligible_cycles: a pending job of an active run whose run and ticket hold
\* no reservation, and a host that holds none; the reservation itself is a later
\* transaction and may be refused.
ListAdmission ==
  /\ offer = NoOffer
  /\ Cardinality(LiveReservations) < MaxFleetSlots
  /\ \E k \in Keys, h \in Hosts :
       /\ jobs[k].status = "pending" /\ runs[k.run] = "active"
       /\ \A x \in LiveReservations : /\ TicketOf[reservations[x].run] # TicketOf[k.run]
                                      /\ reservations[x].host # h
       /\ offer' = [pc |-> "reserve", run |-> k.run, host |-> h]
  /\ UNCHANGED <<vars, proc>>

ReserveOffer ==
  /\ offer # NoOffer
  /\ \/ \E x \in Reservations : ReserveCycle(offer.run, offer.host, x, 0)
     \/ ReserveRefused(offer.run, offer.host, 0) /\ UNCHANGED vars
  /\ offer' = NoOffer
  /\ UNCHANGED proc

\* Fault: the scan leaves expired reservations alone.
ScanLeasesOnly ==
  /\ Reconcile(0) \/ RenewOpenRunReservations(0)
  /\ UNCHANGED <<proc, offer>>

Scan ==
  /\ \/ Reconcile(0)
     \/ RenewOpenRunReservations(0)
     \/ ReconcileFleetReservations(0)
  /\ UNCHANGED <<proc, offer>>

OwnerResume ==
  /\ \E k \in Keys : jobs[k].token < ResumeBound /\ ResumeJob(k, 0)
  /\ UNCHANGED <<proc, offer>>

OwnerCancel ==
  /\ \E r \in Runs :
       /\ Undisturbed => \A w \in Workers : Settling(w) => SettledRun(w) # r
       /\ CancelRun(r, 0)
  /\ UNCHANGED <<proc, offer>>

Intake == \E r \in Runs : Accept(r, 0) /\ UNCHANGED <<proc, offer>>

-----------------------------------------------------------------------------
\* Time passes for the store and for the readings the workers hold.
LineTick ==
  /\ \A w \in Workers : Timed(w) => proc[w].since < MaxLag
  /\ Undisturbed => \A w \in Workers : ~ Settling(w)
  /\ Tick
  /\ proc' = [w \in Workers |-> IF Timed(w) THEN [proc[w] EXCEPT !.since = @ + 1] ELSE proc[w]]
  /\ UNCHANGED offer

\* A modelling device, not code: lease and reservation ids are fresh uuids, so the
\* row of a closed claim no worker refers to can stand for a future one.
Recyclable == {l \in Leases : /\ claims[l].status \in {"released", "expired"}
                              /\ \A w \in Workers : proc[w].pc \notin {"idle", "repair", "recheck"}
                                                      => proc[w].lease # l}
RecyclableReservations ==
  {x \in Reservations : /\ reservations[x].status \notin {"absent"} \cup LiveReservation
                        /\ \A l \in Leases : claims[l].status # "absent" => claims[l].reservation # x}

Recycle ==
  /\ Recyclable \cup RecyclableReservations # {}
  /\ claims' = [l \in Leases |-> IF l \in Recyclable THEN NoClaim ELSE claims[l]]
  /\ reservations' = [x \in Reservations |->
                        IF x \in RecyclableReservations THEN NoReservationRow ELSE reservations[x]]
  /\ UNCHANGED <<runs, jobs, ops, proc, offer>>

-----------------------------------------------------------------------------
LineInit == Init /\ proc = [w \in Workers |-> Idle] /\ offer = NoOffer

StageStep(w) ==
  \/ FirstBeat(w) \/ LeaseBeat(w) \/ CycleBeat(w)
  \/ HandlerDone(w) \/ FinishStep(w) \/ ResolveBounce(w) \/ MaterializeStep(w) \/ SettleCycle(w)

SweepStep(w) ==
  \/ \E lag \in 0 .. MaxPollLag : FindOrphan(w, lag) \/ CloseGhost(w, lag)
  \/ RepairOrphan(w) \/ RecheckOrphan(w)

WorkerStep(w) ==
  (\E lag \in 0 .. MaxPollLag : PollClaim(w, lag)) \/ StageStep(w) \/ SweepStep(w) \/ Crash(w)

\* Recycling is done at once, so that it adds no interleavings.
LineNext ==
  \/ Recycle
  \/ /\ Recyclable \cup RecyclableReservations = {}
     /\ \/ \E w \in Workers : WorkerStep(w)
        \/ ListAdmission \/ ReserveOffer \/ Scan
        \/ OwnerResume \/ OwnerCancel \/ Intake
        \/ LineTick

LineSpec == LineInit /\ [][LineNext]_lineVars

\* The poll loop, the coordinator's scan and the clock keep going; every handler
\* ends (agent and command time-outs see to that).  Workers do not die in the middle
\* of a repair every single time they attempt one.  Nothing else is promised of
\* crashes, heartbeats and the owner.
Polls(w)  == \E lag \in 0 .. MaxPollLag : PollClaim(w, lag)
Sweeps(w) == \E lag \in 0 .. MaxPollLag : FindOrphan(w, lag)
Closes(w) == \E lag \in 0 .. MaxPollLag : CloseGhost(w, lag)

Fairness ==
  /\ WF_lineVars(LineTick)
  /\ WF_lineVars(Recycle)
  /\ WF_lineVars(Scan)
  /\ SF_lineVars(\E w \in Workers : RepairOrphan(w))
  /\ \A w \in Workers :
       /\ WF_lineVars(Polls(w))
       /\ WF_lineVars(Sweeps(w))
       /\ WF_lineVars(Closes(w))
       /\ WF_lineVars(HandlerDone(w))
       /\ WF_lineVars(FinishStep(w))
       /\ WF_lineVars(ResolveBounce(w))
       /\ WF_lineVars(MaterializeStep(w))
       /\ WF_lineVars(SettleCycle(w))
       /\ WF_lineVars(RecheckOrphan(w))

FairLineSpec == LineSpec /\ Fairness
-----------------------------------------------------------------------------
\* Properties.

OpenJobs(r) == {k \in JobsOf(r) : jobs[k].status \in RUN_OPEN_JOB_STATUSES}

\* Local states of the workers and the coordinator.
LineTypeOK == proc \in [Workers -> WorkerStates] /\ offer \in Offers

\* The line is strictly linear (successors.py): a run never has two jobs to do at
\* once, however finish, reclaim, materialize and the sweeps interleave.
LinearRun == \A r \in Runs : Cardinality(OpenJobs(r)) =< 1

\* A run that is over has nothing left to do: no job of it waits, is queued or
\* runs, so the sweeps may close what they find on it.
TerminalQuiet == \A r \in Runs : runs[r] \in {"completed", "failed", "cancelled"} => OpenJobs(r) = {}

\* A run is closed as completed only after its build_deploy stage succeeded.
CompletedMeansDelivered ==
  \A r \in Runs : runs[r] = "completed" =>
    \E k \in JobsOf(r) : k.stage = "build_deploy" /\ jobs[k].status = "succeeded"

\* What the comment in materialize_result says of a run that was sent back to an
\* earlier stage: each success "must route through" the next stage at the same
\* iteration.  So the success of a productive stage leaves the run something to do.
SuccessRoutesOn ==
  [][\A w \in Workers :
       LET k == claims[proc[w].lease].key IN
         /\ proc[w].pc = "resolved" /\ proc'[w].pc = "closing"
         /\ proc[w].result.outcome = "success" /\ k.stage \in DOMAIN PRODUCTIVE_DAG
         => HasOpen(jobs', k.run)]_lineVars

\* A cancelled run stays cancelled, and none of its jobs moves again: what a
\* worker still holds of it is discarded.
CancelledStaysDead ==
  [][\A r \in Runs : runs[r] = "cancelled" =>
       /\ runs'[r] = "cancelled"
       /\ \A k \in JobsOf(r) : jobs'[k].status = jobs[k].status]_lineVars

\* What the comment on RUN_OPEN_JOB_STATUSES demands: a run with a parked job is
\* not closed as completed.
ParkedRunOpen ==
  \A k \in Keys : jobs[k].status \in {"waiting_human", "waiting_dependency"}
                    => runs[k.run] # "completed"

\* What the docstring of materialize_result says of a replan: it enqueues the
\* planning stage at iteration 0.
ReplanEnqueuesPlanning ==
  [][\A w \in Workers :
       /\ proc[w].pc = "resolved" /\ proc'[w].pc = "closing"
       /\ proc[w].result.outcome = "replan"
       => LET k == claims[proc[w].lease].key
          IN  jobs'[[k EXCEPT !.stage = "planning", !.iteration = 0]].status = "pending"]_lineVars

\* A question left open on a run that is over does not stay before the owner:
\* the sweep of waiting jobs closes it (or the owner answers).
GhostsClosed ==
  \A k \in Keys :
    jobs[k].status = "waiting_human" /\ runs[k.run] \in {"completed", "failed", "cancelled"}
      ~> jobs[k].status # "waiting_human" \/ runs[k.run] = "active"

\* A job leaves `running' for a result only while its lease has not expired by
\* the real clock.
FinishUnexpired ==
  [][\A w \in Workers :
       proc[w].pc = "returned" /\ proc'[w].pc \in {"bounce", "resolved"}
         => claims[proc[w].lease].ttl > 0]_lineVars

\* A claim made under a fleet reservation never outlives it: while the claim is
\* active the reservation is live, and held for the claim's run.
ClaimsUnderReservation ==
  \A l \in Leases : claims[l].status = "active" /\ claims[l].reservation # NoReservation =>
    claims[l].reservation \in LiveOf(claims[l].key.run)

\* A host slot is not lost: the reservation of a run that is over, or that has
\* nothing but a question to its owner, is given up by its worker or expires,
\* unless the run comes back to life first.
SlotsReturn ==
  \A x \in Reservations, r \in Runs :
    x \in LiveOf(r) /\ OpenJobs(r) = {} ~> x \notin LiveOf(r) \/ OpenJobs(r) # {}

\* Whatever crashes, an active run is not forgotten: it ends, or it waits for
\* somebody.
RunsSettle ==
  \A r \in Runs : runs[r] = "active" ~>
    \/ runs[r] \in {"completed", "failed", "cancelled"}
    \/ \E k \in JobsOf(r) : jobs[k].status \in {"waiting_human", "waiting_dependency"}
=============================================================================
