---------------------------- MODULE ControlStore ----------------------------
(***************************************************************************)
(* The control store of the factory (core/workflow/control_store.py and    *)
(* its Postgres twin core/orchestrator/adapters/control_postgres.py): the  *)
(* tables runs, jobs, claims, fleet_reservations and external_operations,  *)
(* and every operation that changes them.  An operation is one database    *)
(* transaction, hence one action.  Any client may call any operation at    *)
(* any time; what the cloud worker, the coordinator and the sweepers       *)
(* actually call, and when, is module CloudLine.                           *)
(*                                                                         *)
(* Time.  expires_at, not_before and updated_at are kept relative to the   *)
(* present: `ttl' and `gate' count down and `age' counts up at each Tick.  *)
(* Every operation takes `now' from its caller, who may have read the      *)
(* clock earlier: `lag' is how long ago.  A stored time t has passed for a *)
(* caller with lag d when t + d =< 0 (Passed).  Countdowns stop at Floor,  *)
(* one tick below what any lag can tell apart, and ages above MaxAge.      *)
(*                                                                         *)
(* Left out: the append-only tables outbox and reconciliation_ledger, which*)
(* no operation here reads; costs, evidence and output references, causes; *)
(* the order (created_at) in which claim scans the pending jobs, replaced  *)
(* by a choice; the LIMIT of the sweeps; ready_age_sec, by which a worker  *)
(* of low priority puts off a claim that it may make.  The columns of a    *)
(* claim or reservation that is no longer live are never read again, so    *)
(* its ttl is reset to Floor.                                              *)
(***************************************************************************)
EXTENDS Successors, FiniteSets

CONSTANTS
  Workers, Hosts, Tickets,
  HostOf,            \* the host a worker runs on
  Skills,            \* the stages whose required_capabilities a worker has
  TicketOf,          \* the ticket of a run
  Leases,            \* bound: lease ids, one per claim ever made
  Reservations,      \* bound: fleet reservation ids
  NoLease, NoReservation,
  LeaseDuration,     \* lease_duration_sec, in ticks
  PendingGrace,      \* RESERVATION_PENDING_GRACE_SEC, in ticks
  RetryDelay,        \* the wait a not_before asks for, in ticks
  MaxRetries,        \* jobs.max_retries
  MaxFleetSlots,     \* max_fleet_slots
  Managed,           \* fleet_managed_enabled()
  FinishClosesRun,   \* TRUE: SQLite adapter; FALSE: Postgres adapter
  MaxLag,            \* bound: how stale a caller's clock reading may be
  MaxAge             \* bound: ages above it are not told apart

ASSUME StoreAssumption ==
  /\ Runs # {} /\ Hosts # {}
  /\ HostOf \in [Workers -> Hosts]
  /\ Skills \in [Workers -> SUBSET Stages]
  /\ TicketOf \in [Runs -> Tickets]
  /\ NoLease \notin Leases
  /\ NoReservation \notin Reservations
  /\ IsFiniteSet(Reservations)
  /\ LeaseDuration \in Nat \ {0}
  /\ {PendingGrace, RetryDelay, MaxRetries, MaxLag, MaxAge} \subseteq Nat
  /\ MaxLag =< MaxAge
  /\ Reservations # {} => PendingGrace + MaxLag < MaxAge
  /\ MaxFleetSlots \in Nat
  /\ Managed \in BOOLEAN
  /\ FinishClosesRun \in BOOLEAN

VARIABLES
  runs,          \* runs.status by run id
  jobs,          \* the jobs table by key
  claims,        \* the claims table by lease id
  reservations,  \* the fleet_reservations table by reservation id
  ops            \* external_operations: the fencing token that last wrote
                 \* the operation row of a job, 0 when there is none

vars == <<runs, jobs, claims, reservations, ops>>

-----------------------------------------------------------------------------
\* Statuses and rows.

\* Fault: a retry that was recorded still counts as open.
OpenOrRetried == {"pending", "running", "waiting_human", "waiting_dependency", "retry"}

RUN_OPEN_JOB_STATUSES == {"pending", "running", "waiting_human", "waiting_dependency"}
SettledJobStatuses    == {"succeeded", "failed", "cancelled", "retry", "replan"}
JobStatuses           == {"absent"} \cup RUN_OPEN_JOB_STATUSES \cup SettledJobStatuses
RunStatuses           == {"absent", "active", "completed", "failed", "cancelled"}
LiveReservation       == {"active", "draining"}
ReleaseStatuses       == {"released", "completed", "failed", "cancelled"}
ReservationStatuses   == {"absent", "expired"} \cup LiveReservation \cup ReleaseStatuses

Floor  == -(MaxLag + 1)
Lags   == 0 .. MaxLag
Timers == Floor .. (LeaseDuration + RetryDelay)

JobRows == [status : JobStatuses, token : Nat, lease : Leases \cup {NoLease},
            retries : 0 .. MaxRetries, gate : Timers, age : 0 .. MaxAge + 1]

ClaimRows == [status : {"absent", "active", "released", "expired"}, key : Keys,
              token : Nat, reservation : Reservations \cup {NoReservation},
              ttl : Timers]

ReservationRows == [status : ReservationStatuses, run : Runs, host : Hosts, ttl : Timers]

NoJob == [status |-> "absent", token |-> 0, lease |-> NoLease,
          retries |-> 0, gate |-> Floor, age |-> 0]

NewJob(status, gate, lag) ==
  [NoJob EXCEPT !.status = status, !.gate = gate, !.age = lag]

\* The unused rows of the two id-indexed tables; their other columns are arbitrary.
NoClaim == [status |-> "absent", key |-> CHOOSE k \in Keys : TRUE, token |-> 0,
            reservation |-> NoReservation, ttl |-> Floor]

NoReservationRow == [status |-> "absent", run |-> CHOOSE r \in Runs : TRUE,
                     host |-> CHOOSE h \in Hosts : TRUE, ttl |-> Floor]

-----------------------------------------------------------------------------
\* Helpers.

\* _expired_at and its inline copies: the stored time is at or before now.
Passed(t, lag) == t + lag =< 0

JobsOf(r)      == {k \in Keys : k.run = r}

\* Fault: a parked job does not keep its run open.
HasOpenNarrow(js, r) == \E k \in {j \in Keys : j.run = r} : js[k].status \in {"pending", "running"}

\* Fault: failures are not looked for when a run is closed.
HasFailedNever(js, r) == FALSE

HasOpen(js, r) == \E k \in JobsOf(r) : js[k].status \in RUN_OPEN_JOB_STATUSES
HasFailed(js, r) == \E k \in JobsOf(r) : js[k].status = "failed"

LiveOf(r) == {x \in Reservations : /\ reservations[x].status \in LiveReservation
                                   /\ reservations[x].run = r}

ExpiredReservations(lag) ==
  {x \in Reservations : /\ reservations[x].status \in LiveReservation
                        /\ Passed(reservations[x].ttl, lag)}

Closed(row, status) == [row EXCEPT !.status = status, !.ttl = Floor]

\* Fault: any claim that ever existed passes the fence.
HoldsStale(l) == claims[l].status # "absent"

\* The job's current lease is l: the fencing check of heartbeat, finish and
\* record_operation, given that the claim row itself is active.
Holds(l) ==
  /\ claims[l].status = "active"
  /\ jobs[claims[l].key].token = claims[l].token
  /\ jobs[claims[l].key].lease = l

\* _check_finish_reservation_fence, shared with heartbeat.
ReservationFence(l, lag) ==
  LET x == claims[l].reservation
  IN  x # NoReservation => /\ reservations[x].status \in LiveReservation
                           /\ ~ Passed(reservations[x].ttl, lag)

\* Fault: the token starts again with the requeued job.
RequeuedJobReset(row, lag) ==
  [row EXCEPT !.status = "pending", !.token = 0, !.lease = NoLease, !.age = lag]

\* Fault: the claim is released and the job left running.
RequeuedJobKept(row, lag) == [row EXCEPT !.age = lag]

\* _requeue_expired_fleet_run, for a set R of runs: the running jobs go back to
\* pending under a new fencing token and every active claim is released.
RequeuedJob(row, lag) ==
  [row EXCEPT !.status = "pending", !.token = @ + 1, !.lease = NoLease, !.age = lag]

RequeuedJobs(R, lag) ==
  [k \in Keys |-> IF k.run \in R /\ jobs[k].status = "running"
                  THEN RequeuedJob(jobs[k], lag)
                  ELSE jobs[k]]

\* Fault: the claims of the runs are left active.
ReleasedClaimsNone(R) == claims

ReleasedClaims(R) ==
  [l \in Leases |->
     IF claims[l].status = "active" /\ claims[l].key.run \in R
     THEN Closed(claims[l], "released")
     ELSE claims[l]]

\* _expire_fleet_reservations: what a sweep leaves in the three tables.
SweptReservations(lag) ==
  [x \in Reservations |->
     IF x \in ExpiredReservations(lag)
     THEN Closed(reservations[x], "expired")
     ELSE reservations[x]]

SweptRuns(lag) == {reservations[x].run : x \in ExpiredReservations(lag)}

\* max_iteration: the highest iteration recorded for a stage of a run, or -1.
TopIteration(r, stage) ==
  LET present == {k.iteration : k \in {j \in JobsOf(r) : /\ j.stage = stage
                                                        /\ jobs[j].status # "absent"}}
  IN  IF present = {} THEN -1
      ELSE CHOOSE i \in present : \A j \in present : j =< i

-----------------------------------------------------------------------------
\* Intake.

\* accept, autonomous mode.  A repeated command finds its row and changes nothing.
Accept(r, lag) ==
  LET k == [run |-> r, stage |-> "grill", iteration |-> 0] IN
  /\ runs[r] = "absent"
  /\ runs' = [runs EXCEPT ![r] = "active"]
  /\ jobs' = [jobs EXCEPT ![k] = NewJob("pending", Floor, lag)]
  /\ UNCHANGED <<claims, reservations, ops>>

\* accept, documentary mode: a run that is born completed and has no job.
AcceptDocumentary(r) ==
  /\ runs[r] = "absent"
  /\ runs' = [runs EXCEPT ![r] = "completed"]
  /\ UNCHANGED <<jobs, claims, reservations, ops>>

-----------------------------------------------------------------------------
\* Leases.

\* The reservation row that claim looks at for job k: one live row of the run
\* (fetchone, without an order), or none.  In managed mode none is a refusal.
ClaimReservation(w, k, lag, x) ==
  IF LiveOf(k.run) = {}
  THEN ~ Managed /\ x = NoReservation
  ELSE /\ x \in LiveOf(k.run)
       /\ ~ Passed(reservations[x].ttl, lag)
       /\ reservations[x].host = HostOf[w]

\* Fault: the token is not advanced.
ClaimedJobSameToken(row, l, lag) ==
  [row EXCEPT !.status = "running", !.lease = l, !.age = lag]

\* The row of a job that lease l has just taken.
ClaimedJob(row, l, lag) ==
  [row EXCEPT !.status = "running", !.token = @ + 1, !.lease = l, !.age = lag]

Claim(w, k, l, x, lag) ==
  /\ jobs[k].status = "pending"
  /\ k.stage \in Skills[w]
  /\ Passed(jobs[k].gate, lag)
  /\ ClaimReservation(w, k, lag, x)
  /\ claims[l].status = "absent"
  /\ jobs' = [jobs EXCEPT ![k] = ClaimedJob(@, l, lag)]
  /\ claims' = [claims EXCEPT ![l] = [status |-> "active", key |-> k,
                                      token |-> jobs[k].token + 1,
                                      reservation |-> x,
                                      ttl |-> LeaseDuration - lag]]
  /\ reservations' = [y \in Reservations |->
                        IF y = x /\ reservations[y].status = "active"
                        THEN [reservations[y] EXCEPT !.ttl = LeaseDuration - lag]
                        ELSE reservations[y]]
  /\ UNCHANGED <<runs, ops>>

Heartbeat(l, lag) ==
  /\ Holds(l)
  /\ ~ Passed(claims[l].ttl, lag)
  /\ ReservationFence(l, lag)
  /\ claims' = [claims EXCEPT ![l].ttl = LeaseDuration - lag]
  /\ jobs' = [jobs EXCEPT ![claims[l].key].age = lag]
  /\ UNCHANGED <<runs, reservations, ops>>

\* Fault: retries are counted and not limited.
FinishedJobUncapped(row, outcome, lag) ==
  LET done == [row EXCEPT !.lease = NoLease, !.age = lag] IN
  CASE outcome = "success" -> [done EXCEPT !.status = "succeeded"]
    [] outcome = "retry"   -> [done EXCEPT !.status = "pending", !.retries = @ + 1]
    [] OTHER               -> [done EXCEPT !.status = outcome]

\* The row a finished job is left with.
FinishedJob(row, outcome, lag) ==
  LET done == [row EXCEPT !.lease = NoLease, !.age = lag] IN
  CASE outcome = "success" -> [done EXCEPT !.status = "succeeded"]
    [] outcome = "retry"   -> IF row.retries < MaxRetries
                              THEN [done EXCEPT !.status = "pending", !.retries = @ + 1]
                              ELSE [done EXCEPT !.status = "failed"]
    [] OTHER               -> [done EXCEPT !.status = outcome]

\* The finish of a caller whose claim passes every fence; any other call raises
\* StaleLeaseError and changes nothing.
CanFinish(l, lag) ==
  /\ Holds(l)
  /\ ~ Passed(claims[l].ttl, lag)
  /\ ReservationFence(l, lag)

Finish(l, outcome, lag) ==
  LET k  == claims[l].key
      js == [jobs EXCEPT ![k] = FinishedJob(@, outcome, lag)]
  IN
  /\ CanFinish(l, lag)
  /\ jobs' = js
  /\ claims' = [claims EXCEPT ![l] = Closed(@, "released")]
  /\ runs' = IF FinishClosesRun /\ outcome = "success" /\ ~ HasOpen(js, k.run)
             THEN [runs EXCEPT ![k.run] = "completed"]
             ELSE runs
  /\ UNCHANGED <<reservations, ops>>

\* reconcile: every active claim whose expiry has passed is marked expired and,
\* when its fencing token is still the job's, the job is requeued or failed.
ExpiredClaims(lag) ==
  {l \in Leases : claims[l].status = "active" /\ Passed(claims[l].ttl, lag)}

\* Fault: a job without retries left is neither requeued nor failed.
ReconciledJobStuck(row, lag) ==
  IF row.retries < MaxRetries
  THEN [row EXCEPT !.status = "pending", !.token = @ + 1, !.lease = NoLease,
                   !.retries = @ + 1, !.age = lag]
  ELSE row

\* Fault: the requeued job starts again from token 0.
ReconciledJobReset(row, lag) ==
  [row EXCEPT !.status = "pending", !.token = 0, !.lease = NoLease, !.age = lag]

ReconciledJob(row, lag) ==
  LET base == [row EXCEPT !.token = @ + 1, !.lease = NoLease, !.age = lag]
  IN  IF row.retries < MaxRetries
      THEN [base EXCEPT !.status = "pending", !.retries = @ + 1]
      ELSE [base EXCEPT !.status = "failed"]

Reconcile(lag) ==
  /\ ExpiredClaims(lag) # {}
  /\ claims' = [l \in Leases |-> IF l \in ExpiredClaims(lag)
                                 THEN Closed(claims[l], "expired")
                                 ELSE claims[l]]
  /\ jobs' = [k \in Keys |->
                IF \E l \in ExpiredClaims(lag) : /\ claims[l].key = k
                                                 /\ claims[l].token = jobs[k].token
                THEN ReconciledJob(jobs[k], lag)
                ELSE jobs[k]]
  /\ UNCHANGED <<runs, reservations, ops>>

\* record_operation: fenced like finish, except that the expiry of the claim is
\* not looked at and a reservation still counts at the instant it expires.
RecordOperation(l, lag) ==
  LET x == claims[l].reservation IN
  /\ Holds(l)
  /\ x # NoReservation => /\ reservations[x].status \in LiveReservation
                          /\ reservations[x].ttl + lag >= 0
  /\ ops' = [ops EXCEPT ![claims[l].key] = claims[l].token]
  /\ UNCHANGED <<runs, jobs, claims, reservations>>

-----------------------------------------------------------------------------
\* Successors, parking and cancellation.

\* The jobs table after materialize_result: the job itself if it is still open
\* for a result (or not there at all), and the successors that do not exist yet.
MaterializedJobs(k, result, top, overBudget, lag) ==
  LET status == DbStatus(k, result, top, overBudget)
      succs  == SuccessorKeys(k, result, top, overBudget)
      gate(j) == IF Gated(j, k, result, top, overBudget) THEN RetryDelay - lag ELSE Floor
  IN  [j \in Keys |->
         CASE j = k /\ jobs[j].status \in {"pending", "running"} ->
                [jobs[j] EXCEPT !.status = status, !.lease = NoLease, !.age = lag]
           [] j = k /\ jobs[j].status = "absent" -> NewJob(status, Floor, lag)
           [] j # k /\ j \in succs /\ jobs[j].status = "absent" ->
                NewJob("pending", gate(j), lag)
           [] OTHER -> jobs[j]]

MaterializeResult(k, result, top, overBudget, lag) ==
  LET js == MaterializedJobs(k, result, top, overBudget, lag) IN
  /\ SuccessorKeys(k, result, top, overBudget) \subseteq Keys
  /\ jobs' = js
  /\ claims' = [l \in Leases |->
                  IF jobs[k].status \in {"pending", "running"} /\ l = jobs[k].lease
                  THEN Closed(claims[l], "released")
                  ELSE claims[l]]
  /\ runs' = IF HasOpen(js, k.run) THEN runs
             ELSE [runs EXCEPT ![k.run] = IF HasFailed(js, k.run) THEN "failed" ELSE "completed"]
  /\ UNCHANGED <<reservations, ops>>

\* Fault: a cancelled job can be resumed like a parked one.
ResumeJobCancelled(k, lag) ==
  /\ jobs[k].status \in {"waiting_human", "waiting_dependency", "cancelled"}
  /\ jobs' = [jobs EXCEPT ![k] = [@ EXCEPT !.status = "pending", !.gate = Floor, !.age = lag]]
  /\ runs' = IF runs[k.run] = "completed" THEN [runs EXCEPT ![k.run] = "active"] ELSE runs
  /\ UNCHANGED <<claims, reservations, ops>>

ResumeJob(k, lag) ==
  /\ jobs[k].status \in {"waiting_human", "waiting_dependency"}
  /\ jobs' = [jobs EXCEPT ![k] = [@ EXCEPT !.status = "pending", !.gate = Floor, !.age = lag]]
  /\ runs' = IF runs[k.run] = "completed" THEN [runs EXCEPT ![k.run] = "active"] ELSE runs
  /\ UNCHANGED <<claims, reservations, ops>>

CancelRun(r, lag) ==
  /\ runs[r] # "absent"
  /\ jobs' = [k \in Keys |->
                IF k.run = r /\ jobs[k].status \in RUN_OPEN_JOB_STATUSES
                THEN [jobs[k] EXCEPT !.status = "cancelled", !.lease = NoLease, !.age = lag]
                ELSE jobs[k]]
  /\ claims' = ReleasedClaims({r})
  /\ reservations' = [x \in Reservations |->
                        IF x \in LiveOf(r) THEN Closed(reservations[x], "cancelled")
                        ELSE reservations[x]]
  /\ runs' = [runs EXCEPT ![r] = "cancelled"]
  /\ UNCHANGED ops

-----------------------------------------------------------------------------
\* Fleet reservations.

\* Active reservations once the expired ones have been swept.
ActiveAfterSweep(lag) ==
  {x \in Reservations : SweptReservations(lag)[x].status = "active"}

ActiveForTicket(r, lag) ==
  {x \in ActiveAfterSweep(lag) : TicketOf[reservations[x].run] = TicketOf[r]}

Repeated(r, h, lag) ==
  \E x \in ActiveForTicket(r, lag) : reservations[x].run = r /\ reservations[x].host = h

\* Fault: one slot too many.
ReservableOver(r, h, lag) ==
  /\ ActiveForTicket(r, lag) = {}
  /\ \A x \in ActiveAfterSweep(lag) : reservations[x].host # h
  /\ Cardinality(ActiveAfterSweep(lag)) =< MaxFleetSlots

\* Fault: the host is not looked at.
ReservableAnyHost(r, h, lag) ==
  /\ ActiveForTicket(r, lag) = {}
  /\ Cardinality(ActiveAfterSweep(lag)) < MaxFleetSlots

Reservable(r, h, lag) ==
  /\ ActiveForTicket(r, lag) = {}
  /\ \A x \in ActiveAfterSweep(lag) : reservations[x].host # h
  /\ Cardinality(ActiveAfterSweep(lag)) < MaxFleetSlots

\* reserve_cycle.  A refused request rolls the sweep back with it, so it changes
\* nothing; a repeated request (same ticket, run and host) commits the sweep only.
ReserveCycle(r, h, x, lag) ==
  /\ jobs' = RequeuedJobs(SweptRuns(lag), lag)
  /\ claims' = ReleasedClaims(SweptRuns(lag))
  /\ \/ /\ Repeated(r, h, lag)
        /\ reservations' = SweptReservations(lag)
     \/ /\ Reservable(r, h, lag)
        /\ reservations[x].status = "absent"
        /\ reservations' = [SweptReservations(lag) EXCEPT
                              ![x] = [status |-> "active", run |-> r, host |-> h,
                                      ttl |-> LeaseDuration - lag]]
  /\ UNCHANGED <<runs, ops>>

ReserveRefused(r, h, lag) == ~ Repeated(r, h, lag) /\ ~ Reservable(r, h, lag)

\* heartbeat_reservation.  A late heartbeat expires the reservation instead.
HeartbeatReservation(x, lag) ==
  /\ reservations[x].status \in LiveReservation
  /\ IF Passed(reservations[x].ttl, lag)
     THEN /\ reservations' = [reservations EXCEPT ![x] = Closed(@, "expired")]
          /\ jobs' = RequeuedJobs({reservations[x].run}, lag)
          /\ claims' = ReleasedClaims({reservations[x].run})
     ELSE /\ reservations' = [reservations EXCEPT ![x].ttl = LeaseDuration - lag]
          /\ UNCHANGED <<jobs, claims>>
  /\ UNCHANGED <<runs, ops>>

\* release_reservation.  A reservation already released is returned as it is; an
\* expired one is refused.
ReleaseReservation(x, status) ==
  /\ reservations[x].status \in LiveReservation
  /\ reservations' = [reservations EXCEPT ![x] = Closed(@, status)]
  /\ UNCHANGED <<runs, jobs, claims, ops>>

DrainHost(h) ==
  LET active == {x \in Reservations : /\ reservations[x].status = "active"
                                      /\ reservations[x].host = h}
  IN
  /\ active # {}
  /\ reservations' = [x \in Reservations |->
                        IF x \in active THEN [reservations[x] EXCEPT !.status = "draining"]
                        ELSE reservations[x]]
  /\ UNCHANGED <<runs, jobs, claims, ops>>

\* renew_open_run_reservations.  Unlike every other check, a reservation is
\* still renewed at the very instant it expires.
Renewable(lag) ==
  {x \in Reservations :
     /\ reservations[x].status = "active"
     /\ reservations[x].ttl + lag >= 0
     /\ \E k \in JobsOf(reservations[x].run) :
          \/ jobs[k].status = "waiting_dependency"
          \/ jobs[k].status = "pending" /\ jobs[k].age =< PendingGrace + lag}

RenewOpenRunReservations(lag) ==
  /\ Renewable(lag) # {}
  /\ reservations' = [x \in Reservations |->
                        IF x \in Renewable(lag)
                        THEN [reservations[x] EXCEPT !.ttl = LeaseDuration - lag]
                        ELSE reservations[x]]
  /\ UNCHANGED <<runs, jobs, claims, ops>>

ReconcileFleetReservations(lag) ==
  /\ ExpiredReservations(lag) # {}
  /\ reservations' = SweptReservations(lag)
  /\ jobs' = RequeuedJobs(SweptRuns(lag), lag)
  /\ claims' = ReleasedClaims(SweptRuns(lag))
  /\ UNCHANGED <<runs, ops>>

-----------------------------------------------------------------------------
\* The passage of time.

CountDown(t) == IF t > Floor THEN t - 1 ELSE Floor

\* A saturated age must not hide which job of a run is the newest: the newest
\* stop at MaxAge, the others one tick above.  The age of a settled job that is
\* not the newest is never looked at again.
Newest(k) == \A j \in JobsOf(k.run) : jobs[j].status # "absent" => jobs[k].age =< jobs[j].age

Older(k) ==
  CASE Newest(k)                              -> IF jobs[k].age < MaxAge THEN jobs[k].age + 1
                                                 ELSE jobs[k].age
    [] ~ Newest(k) /\ jobs[k].status \in SettledJobStatuses -> MaxAge + 1
    [] OTHER                                  -> IF jobs[k].age =< MaxAge THEN jobs[k].age + 1
                                                 ELSE jobs[k].age

Tick ==
  /\ jobs' = [k \in Keys |->
                IF jobs[k].status = "absent" THEN jobs[k]
                ELSE [jobs[k] EXCEPT !.gate = CountDown(@), !.age = Older(k)]]
  /\ claims' = [l \in Leases |-> [claims[l] EXCEPT !.ttl = CountDown(@)]]
  /\ reservations' = [x \in Reservations |-> [reservations[x] EXCEPT !.ttl = CountDown(@)]]
  /\ UNCHANGED <<runs, ops>>

-----------------------------------------------------------------------------
Init ==
  /\ runs = [r \in Runs |-> "absent"]
  /\ jobs = [k \in Keys |-> NoJob]
  /\ claims = [l \in Leases |-> NoClaim]
  /\ reservations = [x \in Reservations |-> NoReservationRow]
  /\ ops = [k \in Keys |-> 0]

\* What materialize_result reads before its transaction: the highest iteration of
\* the target of a bounce, and the wall-clock budget of a retry that waits.
TopFor(k, result) ==
  IF result.target = NoStage THEN -1 ELSE TopIteration(k.run, result.target)

BudgetReadings(result) ==
  IF result.target = NoStage /\ result.delay = "not_before" THEN BOOLEAN ELSE {FALSE}

\* A client hands materialize_result a job that was claimed once, or (the orphan
\* sweeper) a new job to be parked on a human.
MaterializeSome(lag) ==
  \E k \in Keys, result \in Results :
    /\ \/ jobs[k].token > 0
       \/ /\ runs[k.run] = "active"
          /\ jobs[k].status = "absent"
          /\ result.outcome = "waiting_human"
    /\ \E overBudget \in BudgetReadings(result) :
         MaterializeResult(k, result, TopFor(k, result), overBudget, lag)

LeaseStep(lag) ==
  \/ \E r \in Runs : Accept(r, lag)
  \/ \E w \in Workers, k \in Keys, l \in Leases,
       x \in Reservations \cup {NoReservation} : Claim(w, k, l, x, lag)
  \/ \E l \in Leases : Heartbeat(l, lag)
  \/ \E l \in Leases : RecordOperation(l, lag)
  \/ \E l \in Leases, o \in Outcomes : Finish(l, o, lag)
  \/ Reconcile(lag)

RunStep(lag) ==
  \/ MaterializeSome(lag)
  \/ \E k \in Keys : ResumeJob(k, lag)
  \/ \E r \in Runs : CancelRun(r, lag)
  \/ \E r \in Runs : AcceptDocumentary(r)

FleetStep(lag) ==
  \/ \E r \in Runs, h \in Hosts, x \in Reservations :
       runs[r] # "absent" /\ ReserveCycle(r, h, x, lag)
  \/ \E x \in Reservations : HeartbeatReservation(x, lag)
  \/ \E x \in Reservations, status \in ReleaseStatuses : ReleaseReservation(x, status)
  \/ \E h \in Hosts : DrainHost(h)
  \/ RenewOpenRunReservations(lag)
  \/ ReconcileFleetReservations(lag)

Next == Tick \/ \E lag \in Lags : LeaseStep(lag) \/ RunStep(lag) \/ FleetStep(lag)

Spec == Init /\ [][Next]_vars
-----------------------------------------------------------------------------
\* Properties.

\* Every table holds rows of its type.
TypeOK ==
  /\ runs \in [Runs -> RunStatuses]
  /\ jobs \in [Keys -> JobRows]
  /\ claims \in [Leases -> ClaimRows]
  /\ reservations \in [Reservations -> ReservationRows]
  /\ ops \in [Keys -> Nat]

\* Mutual exclusion of stage execution: an active claim is the current lease of a
\* running job, under the job's current fencing token.  Hence no job has two
\* active claims, whatever mix of claim, finish, reconcile, cancel_run,
\* materialize_result and reservation sweeps the clients interleave.
LeaseIntegrity ==
  \A l \in Leases :
    claims[l].status = "active" =>
      /\ jobs[claims[l].key].status = "running"
      /\ jobs[claims[l].key].lease = l
      /\ jobs[claims[l].key].token = claims[l].token

\* No stranded work: reconcile recovers a running job only through its active
\* claim, so a running job whose claim is not active would run forever.
RunningIsLeased ==
  \A k \in Keys :
    IF jobs[k].status = "running"
    THEN /\ jobs[k].lease \in Leases
         /\ claims[jobs[k].lease].status = "active"
         /\ claims[jobs[k].lease].key = k
    ELSE jobs[k].lease = NoLease

\* Fencing tokens identify a claim (the unique index uq_claims_job_fencing never
\* rejects an insert), and neither a claim nor an external operation carries a
\* token from the future of its job.
TokensFence ==
  /\ \A l \in Leases : claims[l].status # "absent" =>
       /\ claims[l].token =< jobs[claims[l].key].token
       /\ \A m \in Leases \ {l} :
            claims[m].status # "absent" /\ claims[m].key = claims[l].key
              => claims[m].token # claims[l].token
  /\ \A k \in Keys : ops[k] =< jobs[k].token

ActiveReservations == {x \in Reservations : reservations[x].status = "active"}

\* reserve_cycle's promise: at most one active cycle per host and per ticket.
FleetExclusive ==
  \A x, y \in ActiveReservations :
    x # y => /\ reservations[x].host # reservations[y].host
             /\ TicketOf[reservations[x].run] # TicketOf[reservations[y].run]

\* reserve_cycle's ceiling on active cycles.
FleetCapacity == Cardinality(ActiveReservations) =< MaxFleetSlots

\* A settled job stays as it was settled: no late finish, lease sweep, fleet
\* requeue, resume or cancellation reopens or relabels it.
SettledJobsFinal ==
  [][\A k \in Keys : jobs[k].status \in SettledJobStatuses
                        => jobs'[k].status = jobs[k].status]_vars

\* Fencing tokens never go back, and a job that starts running does so under a
\* token larger than that of every claim made on it before.
FencingMonotone ==
  [][\A k \in Keys :
       /\ jobs'[k].token >= jobs[k].token
       /\ jobs[k].status # "running" /\ jobs'[k].status = "running" =>
            \A l \in Leases : claims[l].status # "absent" /\ claims[l].key = k
                                => claims[l].token < jobs'[k].token]_vars

\* The external operation of a job is never overwritten by an older claim than
\* the one that recorded it last.
OperationsFenced == [][\A k \in Keys : ops'[k] >= ops[k]]_vars
=============================================================================
