--------------------------- MODULE CloudLineProofs ----------------------------
(***************************************************************************)
(* The production line is linear (CloudLine), for any runs, stages,        *)
(* workers, hosts and leases.  A run has one leader: its open job, or,     *)
(* when nothing is open, the job stamped last, which is the one the orphan *)
(* sweep replays.  What keeps two workers from following up on it twice is *)
(* time: while a worker settles a job or repairs an orphan nobody else can *)
(* finish a job of that run, because whoever claims one there has only     *)
(* just begun.  Timely names what that argument takes for granted.  Two    *)
(* results rest on it and assume more: on a Straight line a completed run  *)
(* has delivered, and with OnePerHost no claim outlives its reservation.   *)
(***************************************************************************)
EXTENDS CloudLine, ControlStoreProofs, SumProofs

\* What the handlers of the repository return: anything but a cancellation, which is the
\* worker's own word for a run that the store says is cancelled.
Verdicts == {result \in Results : result.outcome # "cancelled"}

\* The assumptions: the Postgres adapter, whose finish leaves the run to
\* materialize_result; transactions stamped with the clock reading of the poll; a handler
\* that takes longer than a poll, and no longer than the orphan sweep waits; leases that
\* outlast a poll; and no tick or cancellation between two transactions of one settlement.
Timely ==
  /\ ~ FinishClosesRun /\ ~ FreshFinish /\ Undisturbed
  /\ MaxPollLag < MinHandler /\ MaxPollLag < LeaseDuration
  /\ MaxLag =< IdleLimit
  /\ HandlerResults \in [Stages -> SUBSET Verdicts]
  /\ "build_deploy" \notin DOMAIN PRODUCTIVE_DAG

\* What the workers hand in: results of the handlers, and the worker's own failure.
Given == {Failure} \cup UNION {HandlerResults[st] : st \in Stages}

\* No handler sends the run back or plans it anew, and the stages from grill to
\* build_deploy are in order (rank).
Charts == [line : SUBSET Stages, rank : [Stages -> Nat]]

Ordered(chart) ==
  /\ "grill" \in chart.line
  /\ \A st \in chart.line \ {"build_deploy"} :
       /\ st \in DOMAIN PRODUCTIVE_DAG /\ PRODUCTIVE_DAG[st] \in chart.line
       /\ chart.rank[st] < chart.rank[PRODUCTIVE_DAG[st]]

Straight ==
  /\ \A st \in Stages : \A result \in HandlerResults[st] :
       result.outcome # "replan" /\ result.target = NoStage
  /\ \E chart \in Charts : Ordered(chart)

Chart == CHOOSE chart \in Charts : Ordered(chart)

-----------------------------------------------------------------------------
\* The jobs of a run.

Present(k) == jobs[k].status # "absent"
Open(k)    == jobs[k].status \in RUN_OPEN_JOB_STATUSES
Ended(r)   == runs[r] \in {"completed", "failed", "cancelled"}
Busy(r)    == Ended(r) \/ HasOpen(jobs, r)

\* The other jobs of the run of k.
Others(k) == {j \in Keys : j.run = k.run /\ j # k /\ Present(j)}

\* The leader of a run: the only job that may be open, and if it is not, the newest.
\* A job that has an open leader is older than any claim made now will be stamped.
Leads(k) ==
  /\ Present(k)
  /\ \A j \in Others(k) : /\ ~ Open(j)
                          /\ jobs[j].age > (IF Open(k) THEN MaxPollLag ELSE jobs[k].age)

\* The leader of an active run was not left with a retry: that is recorded in the
\* transaction that makes the next job or closes the run.
RunSound(r) ==
  /\ \A k \in JobsOf(r) : Open(k) => runs[r] = "active"
  /\ \A k \in JobsOf(r) : jobs[k].status = "cancelled" => runs[r] = "cancelled"
  /\ runs[r] = "active" => \E k \in JobsOf(r) : Leads(k) /\ jobs[k].status # "retry"

\* A run that has delivered or failed is decided.  One that is not is led by the job that
\* is farthest along the line, so what follows that job is not there yet.
Delivered(r) == \E k \in JobsOf(r) : k.stage = "build_deploy" /\ jobs[k].status = "succeeded"
Decided(r)   == Delivered(r) \/ HasFailed(jobs, r)

Farthest(k) ==
  /\ k.stage \in Chart.line
  /\ \A j \in Others(k) : /\ Chart.rank[j.stage] =< Chart.rank[k.stage]
                          /\ j.iteration =< k.iteration

OnTrack(r) ==
  /\ runs[r] = "completed" => Delivered(r)
  /\ runs[r] = "failed" => HasFailed(jobs, r)
  /\ runs[r] = "active" =>
       \/ Decided(r)
       \/ \E k \in JobsOf(r) : Leads(k) /\ Farthest(k) /\ jobs[k].status # "replan"

-----------------------------------------------------------------------------
\* The workers.

Working(w)    == proc[w].pc \in {"handler", "returned"}
HoldsLease(w) == proc[w].pc \in {"handler", "returned", "bounce", "resolved", "closing"}
Finished(w)   == proc[w].pc \in {"bounce", "resolved"}
KeyOf(w)      == claims[proc[w].lease].key

\* A worker that may still finish its job read the clock after the others were stamped.
Handled(r) ==
  \A w \in Workers : Working(w) /\ claims[proc[w].lease].status = "active" /\ KeyOf(w).run = r =>
    \A j \in Others(KeyOf(w)) : jobs[j].age > proc[w].since

\* Nobody can finish a job of the run now: who has claimed one has just begun.
Calm(r) ==
  \A l \in Leases : claims[l].status = "active" /\ claims[l].key.run = r =>
    /\ claims[l].ttl > 0
    /\ \A w \in Workers : Working(w) /\ proc[w].lease = l =>
         proc[w].pc = "handler" /\ proc[w].since =< MaxPollLag

\* What finish, and what others did before materialize_result, made of a job.
Recorded(outcome) ==
  CASE outcome = "success" -> {"succeeded"}
    [] outcome = "failed"  -> {"failed"}
    [] outcome = "retry"   -> {"pending", "running", "failed"}
    [] OTHER               -> {outcome, "pending", "running"}

\* Between finish and materialize_result.
ResolvedSound(w) ==
  LET k == KeyOf(w) IN
  /\ runs[k.run] = "active" /\ Leads(k)
  /\ proc[w].since > MaxPollLag
  /\ jobs[k].age =< MaxLag
  /\ ~ Open(k) => jobs[k].age > MaxPollLag
  /\ jobs[k].status \in Recorded(proc[w].result.outcome)
  /\ \A v \in Workers : Settling(v) /\ SettledRun(v) = k.run => v = w

\* What a repair replays.
Replays == {result \in Results : result.outcome \in {"success", "failed", "replan"}}

\* A repair replays the leader of an idle run, unless another repair already has.
Done(k, result) == \A s \in SuccessorKeys(k, result, -1, FALSE) : s \in Keys /\ Present(s)

RepairSound(w) ==
  LET k == proc[w].key  result == proc[w].result IN
  /\ result \in Replays /\ proc[w].since =< MaxPollLag
  /\ jobs[k].status = (IF result.outcome = "success" THEN "succeeded" ELSE result.outcome)
  /\ \/ Done(k, result) /\ Busy(k.run)
     \/ runs[k.run] = "active" /\ Leads(k) /\ ~ Open(k) /\ jobs[k].age > MaxPollLag

SettlerSound(w) ==
  /\ Settling(w) => Calm(SettledRun(w)) /\ runs[SettledRun(w)] \notin {"absent", "cancelled"}
  /\ Finished(w) => ResolvedSound(w)
  /\ proc[w].pc = "repair"   => RepairSound(w)
  /\ proc[w].pc = "recheck"  => Busy(proc[w].key.run)

WorkerSound(w) ==
  /\ HoldsLease(w) => claims[proc[w].lease].status # "absent"
  /\ proc[w].pc = "returned" \/ Finished(w) => proc[w].result \in Given
  /\ proc[w].pc = "returned" => proc[w].since > MaxPollLag

OfferSound == offer # NoOffer => runs[offer.run] # "absent"

LineSound ==
  /\ IInv /\ LineTypeOK /\ OfferSound
  /\ \A r \in Runs : RunSound(r) /\ Handled(r)
  /\ \A w \in Workers : WorkerSound(w) /\ SettlerSound(w)

-----------------------------------------------------------------------------
\* Rows and states.

\* A worker state has the fields of its place.
LEMMA Shapes ==
  ASSUME NEW p \in WorkerStates
  PROVE  /\ p.pc = "handler" => p \in [pc : {"handler"}, lease : Leases, since : Lags,
                                       beat : {"first", "lease", "cycle", "off"}]
         /\ p.pc \in {"returned", "bounce"} =>
              p \in [pc : {"returned", "bounce"}, lease : Leases, since : Lags, result : Results]
         /\ p.pc = "resolved" => p \in [pc : {"resolved"}, lease : Leases, since : Lags,
                                        result : Results, top : -1 .. MaxIteration]
         /\ p.pc = "closing" => p \in [pc : {"closing"}, lease : Leases, result : Results]
         /\ p.pc \in {"repair", "recheck"} =>
              p \in [pc : {"repair", "recheck"}, key : Keys, since : Lags, result : Results]
  BY DEF WorkerStates

\* The lease, the time and the result of a worker state belong to the constants' sets.
LEMMA Fields ==
  ASSUME NEW p \in WorkerStates
  PROVE  /\ p.pc \in {"handler", "returned", "bounce", "resolved", "closing"} => p.lease \in Leases
         /\ p.pc \in {"handler", "returned", "bounce", "resolved"} => p.since \in Lags
         /\ p.pc \in {"returned", "bounce", "resolved"} => p.result \in Results
         /\ p.pc \in {"repair", "recheck"} =>
              p.key \in Keys /\ p.since \in Lags /\ p.result \in Results
  BY Shapes

\* What is handed in is a verdict, and, where the line is straight, neither a bounce nor a
\* replan.
LEMMA GivenVerdicts ==
  ASSUME Timely
  PROVE  /\ Given \subseteq Verdicts
         /\ Straight => \A result \in Given : result.outcome # "replan" /\ result.target = NoStage
<1>1. /\ Failure \in Verdicts
      /\ Failure.outcome # "replan" /\ Failure.target = NoStage
  BY DEF Failure, Parking, Verdicts, Results, Outcomes
<1>2. \A st \in Stages : HandlerResults[st] \subseteq Verdicts
  BY DEF Timely
<1> QED  BY <1>1, <1>2 DEF Given, Straight

\* The fields of a worker of a typed state.
LEMMA WorkerFields ==
  ASSUME LineTypeOK, NEW w \in Workers
  PROVE  /\ HoldsLease(w) => proc[w].lease \in Leases
         /\ Working(w) => proc[w].since \in Lags
         /\ Finished(w) => proc[w].since \in Lags /\ proc[w].result \in Results
         /\ proc[w].pc = "returned" => proc[w].result \in Results
         /\ proc[w].pc \in {"repair", "recheck"} =>
              proc[w].key \in Keys /\ proc[w].since \in Lags /\ proc[w].result \in Results
<1>1. PICK p \in WorkerStates : p = proc[w]
  BY DEF LineTypeOK
<1> QED  BY <1>1, Fields DEF HoldsLease, Working, Finished

\* The times of the rows are integers.
LEMMA RowTimes ==
  ASSUME IInv
  PROVE  /\ \A k \in Keys : jobs[k].age \in Nat /\ jobs[k].age =< MaxAge + 1
         /\ \A k \in Keys : jobs[k].status \in JobStatuses /\ k.run \in Runs
         /\ \A l \in Leases : claims[l].ttl \in Int /\ claims[l].key \in Keys
         /\ MaxPollLag \in Nat /\ MaxLag \in Nat /\ MaxAge \in Nat /\ MinHandler \in Nat
         /\ IdleLimit \in Nat /\ \A lag \in Lags : lag \in Nat /\ lag =< MaxLag
<1>1. \A k \in Keys : jobs[k] \in JobRows /\ k.run \in Runs
  BY DEF IInv, TypeOK, Keys
<1>2. \A l \in Leases : claims[l] \in ClaimRows
  BY DEF IInv, TypeOK
<1>3. MaxLag \in Nat /\ MaxAge \in Nat /\ LeaseDuration \in Nat /\ RetryDelay \in Nat
  BY StoreAssumption
<1>4. Timers \subseteq Int /\ Lags \subseteq Nat /\ \A lag \in Lags : lag =< MaxLag
  BY <1>3 DEF Timers, Lags, Floor
<1>5. MaxPollLag \in Nat /\ MinHandler \in Nat /\ IdleLimit \in Nat
  BY <1>4, LineAssumption
<1>6. \A k \in Keys : jobs[k].age \in Nat /\ jobs[k].age =< MaxAge + 1 /\ jobs[k].status \in JobStatuses
  <2>1. \A a \in 0 .. MaxAge + 1 : a \in Nat /\ a =< MaxAge + 1
    BY <1>3
  <2>2. \A k \in Keys : jobs[k].age \in 0 .. MaxAge + 1 /\ jobs[k].status \in JobStatuses
    BY <1>1 DEF JobRows
  <2> QED  BY <2>1, <2>2
<1>7. \A l \in Leases : claims[l].ttl \in Int /\ claims[l].key \in Keys
  BY <1>2, <1>4 DEF ClaimRows
<1> QED  BY <1>1, <1>3, <1>4, <1>5, <1>6, <1>7

-----------------------------------------------------------------------------
\* Leaders.

\* A run has one leader.
LEMMA OneLeader ==
  ASSUME IInv, NEW j \in Keys, NEW k \in Keys, Leads(j), Leads(k), j.run = k.run
  PROVE  j = k
<1> SUFFICES ASSUME j # k PROVE FALSE
  OBVIOUS
<1>1. j \in Others(k) /\ k \in Others(j)
  BY DEF Others, Leads
<1>2. ~ Open(j) /\ ~ Open(k) /\ jobs[j].age > jobs[k].age /\ jobs[k].age > jobs[j].age
  BY <1>1 DEF Leads
<1> QED  BY <1>2, RowTimes

\* An open job leads its run, which is active.
LEMMA OpenLeads ==
  ASSUME IInv, NEW k \in Keys, RunSound(k.run), Open(k)
  PROVE  Leads(k) /\ runs[k.run] = "active"
<1>1. runs[k.run] = "active" /\ \E t \in JobsOf(k.run) : Leads(t)
  BY DEF RunSound, JobsOf
<1>2. PICK t \in JobsOf(k.run) : Leads(t)
  BY <1>1
<1>3. CASE t # k
  <2>1. k \in Others(t)
    BY <1>2, <1>3 DEF Others, JobsOf, Open, Present, RUN_OPEN_JOB_STATUSES
  <2> QED  BY <1>2, <2>1 DEF Leads
<1> QED  BY <1>1, <1>2, <1>3

\* The job of an active claim runs, and leads its run.
LEMMA ClaimLeads ==
  ASSUME LineSound, NEW l \in Leases, claims[l].status = "active"
  PROVE  LET k == claims[l].key IN
         /\ k \in Keys /\ k.run \in Runs /\ jobs[k].status = "running" /\ jobs[k].lease = l
         /\ Open(k) /\ Leads(k) /\ runs[k.run] = "active"
<1>1. PICK k \in Keys : k = claims[l].key
  BY RowTimes DEF LineSound
<1>2. jobs[k].status = "running" /\ jobs[k].lease = l /\ k.run \in Runs
  BY <1>1, ActiveClaim, RowTimes DEF LineSound
<1>3. Open(k)
  BY <1>2 DEF Open, RUN_OPEN_JOB_STATUSES
<1> QED  BY <1>1, <1>2, <1>3, OpenLeads DEF LineSound

-----------------------------------------------------------------------------
\* Steps.

\* Nothing in the run changes but an open job that is queued, or taken.
RunSoft(r) ==
  /\ runs'[r] = runs[r]
  /\ \A k \in JobsOf(r) :
       \/ jobs'[k] = jobs[k]
       \/ Open(k) /\ jobs'[k].status \in {"pending", "running"} /\ jobs'[k].age \in Lags

\* A soft step keeps what is present and open, and does not touch closed jobs.
LEMMA SoftJobs ==
  ASSUME IInv, NEW r \in Runs, RunSoft(r)
  PROVE  /\ \A k \in JobsOf(r) : Present(k)' = Present(k)
         /\ \A k \in JobsOf(r) : Open(k)' = Open(k)
         /\ \A k \in JobsOf(r) : ~ Open(k) => jobs'[k] = jobs[k]
<1>1. ASSUME NEW k \in JobsOf(r)
      PROVE  Present(k)' = Present(k) /\ Open(k)' = Open(k) /\ (~ Open(k) => jobs'[k] = jobs[k])
  BY DEF RunSoft, Present, Open, RUN_OPEN_JOB_STATUSES
<1> QED  BY <1>1

\* After a soft step a job has the same others.
LEMMA SoftOthers ==
  ASSUME IInv, NEW k \in Keys, RunSoft(k.run)
  PROVE  Others(k)' = Others(k)
<1>1. k.run \in Runs
  BY RowTimes
<1>2. \A j \in Keys : j.run = k.run => Present(j)' = Present(j)
  BY <1>1, SoftJobs DEF JobsOf
<1> QED  BY <1>2 DEF Others

\* A soft step leaves the leader of the run in place.
LEMMA SoftLeads ==
  ASSUME IInv, NEW k \in Keys, RunSoft(k.run), Leads(k)
  PROVE  Leads(k)'
<1>1. k.run \in Runs
  BY RowTimes
<1>2. Others(k)' = Others(k) /\ Present(k)' = Present(k) /\ Open(k)' = Open(k)
  BY <1>1, SoftOthers, SoftJobs DEF JobsOf
<1>3. ~ Open(k) => jobs'[k] = jobs[k]
  BY <1>1, SoftJobs DEF JobsOf
<1>4. ASSUME NEW j \in Others(k)
      PROVE  ~ Open(j)' /\ jobs'[j].age > (IF Open(k)' THEN MaxPollLag ELSE jobs'[k].age)
  <2>1. ~ Open(j) /\ j \in JobsOf(k.run)
    BY <1>4 DEF Leads, Others, JobsOf
  <2>2. jobs'[j] = jobs[j] /\ ~ Open(j)'
    BY <1>1, <2>1, SoftJobs
  <2>3. jobs[j].age > (IF Open(k) THEN MaxPollLag ELSE jobs[k].age)
    BY DEF Leads
  <2> QED  BY <2>2, <2>3, <1>2, <1>3
<1> QED  BY <1>2, <1>4 DEF Leads

\* A run stays sound through a soft step.
LEMMA SoftSound ==
  ASSUME IInv, NEW r \in Runs, RunSoft(r), RunSound(r)
  PROVE  RunSound(r)'
<1>1. runs'[r] = runs[r]
  BY DEF RunSoft
<1>2. ASSUME NEW k \in JobsOf(r), Open(k)'
      PROVE  runs'[r] = "active"
  BY <1>1, <1>2, SoftJobs DEF RunSound
<1>3. ASSUME NEW k \in JobsOf(r), jobs'[k].status = "cancelled"
      PROVE  runs'[r] = "cancelled"
  BY <1>1, <1>3 DEF RunSound, RunSoft
<1>4. ASSUME runs'[r] = "active"
      PROVE  \E k \in JobsOf(r) : Leads(k)' /\ jobs'[k].status # "retry"
  <2>1. PICK k \in JobsOf(r) : Leads(k) /\ jobs[k].status # "retry"
    BY <1>1, <1>4 DEF RunSound
  <2>2. Leads(k)'
    BY <2>1, SoftLeads DEF JobsOf
  <2>3. jobs'[k].status # "retry"
    BY <2>1 DEF RunSoft
  <2> QED  BY <2>2, <2>3
<1> QED  BY <1>2, <1>3, <1>4 DEF RunSound, JobsOf

\* A straight line has its chart.
LEMMA ChartOrdered ==
  ASSUME Straight
  PROVE  Chart \in Charts /\ Ordered(Chart)
  BY DEF Straight, Chart

\* A run is still decided if no job that has succeeded or failed changes its status.
LEMMA DecidedKeeps ==
  ASSUME NEW r \in Runs,
         \A k \in JobsOf(r) : jobs[k].status \in {"succeeded", "failed"} =>
                                jobs'[k].status = jobs[k].status
  PROVE  /\ Delivered(r) => Delivered(r)'
         /\ HasFailed(jobs, r) => HasFailed(jobs, r)'
         /\ Decided(r) => Decided(r)'
<1>1. ASSUME Delivered(r) PROVE Delivered(r)'
  <2>1. PICK k \in JobsOf(r) : k.stage = "build_deploy" /\ jobs[k].status = "succeeded"
    BY <1>1 DEF Delivered
  <2> QED  BY <2>1 DEF Delivered, JobsOf
<1>2. ASSUME HasFailed(jobs, r) PROVE HasFailed(jobs, r)'
  <2>1. PICK k \in JobsOf(r) : jobs[k].status = "failed"
    BY <1>2 DEF HasFailed
  <2> QED  BY <2>1 DEF HasFailed, JobsOf
<1> QED  BY <1>1, <1>2 DEF Decided

\* A soft step keeps a run on track.
LEMMA SoftTrack ==
  ASSUME IInv, NEW r \in Runs, RunSoft(r), OnTrack(r)
  PROVE  OnTrack(r)'
<1>1. runs'[r] = runs[r]
  BY DEF RunSoft
<1>2. \A k \in JobsOf(r) : jobs[k].status \in {"succeeded", "failed"} =>
                             jobs'[k].status = jobs[k].status
  BY DEF RunSoft, Open, RUN_OPEN_JOB_STATUSES
<1>3. /\ Delivered(r) => Delivered(r)'
      /\ HasFailed(jobs, r) => HasFailed(jobs, r)'
      /\ Decided(r) => Decided(r)'
  BY <1>2, DecidedKeeps
<1>4. ASSUME NEW k \in JobsOf(r), Leads(k), Farthest(k), jobs[k].status # "replan"
      PROVE  k \in (JobsOf(r))' /\ Leads(k)' /\ Farthest(k)' /\ jobs'[k].status # "replan"
  <2>1. k \in Keys /\ k.run = r
    BY DEF JobsOf
  <2>2. Others(k)' = Others(k) /\ Leads(k)'
    BY <1>4, <2>1, SoftOthers, SoftLeads
  <2>3. jobs'[k].status # "replan"
    BY <1>4 DEF RunSoft
  <2> QED  BY <1>4, <2>2, <2>3 DEF Farthest, JobsOf
<1>5. ASSUME runs[r] = "active"
      PROVE  \/ Decided(r)'
             \/ (\E k \in JobsOf(r) : Leads(k) /\ Farthest(k) /\ jobs[k].status # "replan")'
  BY <1>3, <1>4, <1>5 DEF OnTrack
<1> QED  BY <1>1, <1>3, <1>5 DEF OnTrack

\* No claim turns active but a new one, and a claim a worker refers to stays.
ClaimsMove ==
  /\ \A w \in Workers : HoldsLease(w) =>
       /\ claims'[proc[w].lease].status # "absent"
       /\ claims'[proc[w].lease].key = KeyOf(w)
  /\ \A l \in Leases : claims'[l].status = "active" =>
       \/ /\ claims[l].status = "active" /\ claims'[l].key = claims[l].key
          /\ claims'[l].ttl = claims[l].ttl \/ claims'[l].ttl > 0
       \/ claims[l].status = "absent" /\ claims'[l].ttl > 0

\* What a worker does that settles nothing: it stays, gives up, closes, goes on with its
\* job, or begins one.
GoesOn(w) ==
  /\ Working(w) /\ Working(w)'
  /\ proc'[w].lease = proc[w].lease /\ proc'[w].since = proc[w].since
  /\ proc'[w].pc = "returned" => /\ proc'[w].result \in Given
                                 /\ proc[w].pc = "returned" \/ proc[w].since >= MinHandler

Begins(w) ==
  /\ ~ HoldsLease(w) /\ proc'[w].pc = "handler" /\ proc'[w].since =< MaxPollLag
  /\ claims[proc'[w].lease].status = "absent" /\ claims'[proc'[w].lease].status # "absent"

Eases(w) ==
  \/ proc'[w] = proc[w]
  \/ proc'[w].pc = "idle"
  \/ proc'[w].pc = "closing" /\ HoldsLease(w) /\ proc'[w].lease = proc[w].lease
  \/ GoesOn(w)
  \/ Begins(w)

\* ... and what it does that begins or continues to settle.
Turns(w) ==
  /\ Settling(w)' /\ WorkerSound(w)' /\ SettlerSound(w)'
  /\ \A v \in Workers \ {w} : Finished(v) => KeyOf(v).run # SettledRun(w)'

\* A run that is cancelled stays so, with its jobs.
StaysDead(r) == runs[r] = "cancelled" =>
  /\ runs'[r] = "cancelled"
  /\ \A k \in JobsOf(r) : jobs'[k].status = jobs[k].status

\* A straight run stays on track.
StaysOnTrack(r) == Straight /\ OnTrack(r) => OnTrack(r)'

\* What a step does to a run: nothing that a settler cares about, or something sound.
RunSteps(r) ==
  \/ RunSoft(r)
  \/ /\ RunSound(r)' /\ Handled(r)' /\ StaysDead(r) /\ StaysOnTrack(r)
     /\ \A w \in Workers : Settling(w) /\ SettledRun(w) = r /\ proc'[w] = proc[w] => SettlerSound(w)'

LineStep ==
  /\ IInv' /\ LineTypeOK' /\ OfferSound'
  /\ \A r \in Runs : RunSteps(r)
  /\ ClaimsMove
  /\ \A w \in Workers : Eases(w) \/ Turns(w)

\* A step of the line leaves every worker sound, those that moved and those that did not.
LEMMA WorkersKeep ==
  ASSUME Timely, LineSound, LineStep, NEW w \in Workers
  PROVE  WorkerSound(w)'
<1>1. CASE Turns(w)
  BY <1>1 DEF Turns
<1>2. CASE proc'[w] = proc[w]
  <2>1. HoldsLease(w)' = HoldsLease(w) /\ Finished(w)' = Finished(w)
    BY <1>2 DEF HoldsLease, Finished
  <2>2. WorkerSound(w)
    BY DEF LineSound
  <2>3. HoldsLease(w)' => claims'[proc'[w].lease].status # "absent"
    BY <1>2, <2>1 DEF LineStep, ClaimsMove
  <2> QED  BY <1>2, <2>1, <2>2, <2>3 DEF WorkerSound
<1>3. CASE proc'[w].pc = "idle"
  BY <1>3 DEF WorkerSound, HoldsLease, Finished
<1>4. CASE proc'[w].pc = "closing" /\ HoldsLease(w) /\ proc'[w].lease = proc[w].lease
  BY <1>4 DEF WorkerSound, HoldsLease, Finished, LineStep, ClaimsMove
<1>5. CASE GoesOn(w)
  <2>1. proc'[w].pc = "returned" => proc'[w].since > MaxPollLag
    <3>1. proc[w].pc = "returned" => proc[w].since > MaxPollLag
      BY DEF LineSound, WorkerSound
    <3>2. proc[w].since \in Nat /\ MaxPollLag \in Nat /\ MinHandler \in Nat
      BY <1>5, WorkerFields, RowTimes DEF LineSound, GoesOn
    <3>3. proc[w].since >= MinHandler => proc[w].since > MaxPollLag
      BY <3>2 DEF Timely
    <3> QED  BY <1>5, <3>1, <3>3 DEF GoesOn
  <2> QED  BY <1>5, <2>1 DEF GoesOn, Working, WorkerSound, HoldsLease, Finished, LineStep, ClaimsMove
<1>6. CASE Begins(w)
  BY <1>6 DEF Begins, WorkerSound, HoldsLease, Finished
<1> QED  BY <1>1, <1>2, <1>3, <1>4, <1>5, <1>6 DEF LineStep, Eases

\* A worker that works after the step did so before, under the same lease and reading,
\* or has just begun under a new one.
LEMMA WorkingBefore ==
  ASSUME LineSound, LineStep, NEW w \in Workers, Working(w)'
  PROVE  \/ /\ Working(w) /\ proc'[w].lease = proc[w].lease /\ proc'[w].since = proc[w].since
            /\ claims[proc[w].lease].status # "absent"
            /\ proc'[w].pc = "returned" => proc[w].pc = "returned" \/ proc[w].since >= MinHandler
         \/ /\ claims[proc'[w].lease].status = "absent"
            /\ proc'[w].pc = "handler" /\ proc'[w].since =< MaxPollLag
<1>1. Eases(w)
  BY DEF LineStep, Turns, Working, Settling
<1>2. Working(w) => claims[proc[w].lease].status # "absent"
  BY DEF LineSound, WorkerSound, Working, HoldsLease
<1>3. CASE proc'[w] = proc[w]
  BY <1>2, <1>3 DEF Working
<1>4. CASE GoesOn(w)
  BY <1>2, <1>4 DEF GoesOn
<1>5. CASE Begins(w)
  BY <1>5 DEF Begins
<1> QED  BY <1>1, <1>3, <1>4, <1>5 DEF Eases, Working

\* A job of an active claim after the step led its run before it, if the run is soft.
LEMMA LedBefore ==
  ASSUME LineSound, LineStep, NEW l \in Leases, claims'[l].status = "active",
         NEW k \in Keys, claims'[l].key = k, RunSoft(k.run)
  PROVE  Open(k) /\ Leads(k) /\ runs[k.run] = "active"
<1>1. k.run \in Runs /\ k \in JobsOf(k.run)
  BY RowTimes DEF LineSound, JobsOf
<1>2. jobs'[k].status = "running"
  BY DEF LineStep, IInv, LeaseIntegrity
<1>3. Open(k)' = Open(k) /\ Open(k)'
  BY <1>1, <1>2, SoftJobs DEF LineSound, Open, RUN_OPEN_JOB_STATUSES
<1> QED  BY <1>1, <1>3, OpenLeads DEF LineSound

\* A soft step makes no job of the run newer than a worker that may still finish.
LEMMA HandledKeeps ==
  ASSUME LineSound, LineStep, NEW r \in Runs, RunSoft(r)
  PROVE  Handled(r)'
<1> SUFFICES ASSUME NEW w \in Workers, Working(w)', claims'[proc'[w].lease].status = "active",
                    claims'[proc'[w].lease].key.run = r
             PROVE  \A j \in (Others(claims[proc[w].lease].key))' : jobs'[j].age > proc'[w].since
  BY DEF Handled, KeyOf
<1>1. PICK p \in WorkerStates : p = proc'[w]
  BY DEF LineStep, LineTypeOK
<1>2. PICK l \in Leases : l = proc'[w].lease
  BY <1>1, Fields DEF Working
<1>3. PICK k \in Keys : k = claims'[l].key
  BY DEF LineStep, IInv, TypeOK, ClaimRows
<1>4. k.run = r /\ Open(k) /\ Leads(k)
  BY <1>2, <1>3, LedBefore
<1>5. Others(k)' = Others(k)
  BY <1>4, SoftOthers DEF LineSound
<1>6. ASSUME NEW j \in Others(k) PROVE jobs'[j].age > proc'[w].since
  <2>1. ~ Open(j) /\ jobs[j].age > MaxPollLag /\ j \in JobsOf(r) /\ j \in Keys
    BY <1>4, <1>6 DEF Leads, Others, JobsOf
  <2>2. jobs'[j] = jobs[j]
    BY <2>1, SoftJobs DEF LineSound
  <2>3. CASE claims[l].status = "absent"
    <3>1. proc'[w].since =< MaxPollLag
      BY <1>2, <2>3, WorkingBefore
    <3>2. p.since \in Nat /\ jobs[j].age \in Nat /\ MaxPollLag \in Nat
      BY <1>1, <2>1, Fields, RowTimes DEF Working, LineSound
    <3> QED  BY <1>1, <2>1, <2>2, <3>1, <3>2
  <2>4. CASE claims[l].status # "absent"
    <3>1. Working(w) /\ proc[w].lease = l /\ proc'[w].since = proc[w].since
      BY <1>2, <2>4, WorkingBefore
    <3>2. claims[l].status = "active" /\ claims[l].key = k
      BY <1>2, <1>3, <2>4 DEF LineStep, ClaimsMove
    <3>3. jobs[j].age > proc[w].since
      BY <1>4, <1>6, <3>1, <3>2 DEF LineSound, Handled, KeyOf
    <3> QED  BY <2>2, <3>1, <3>3
  <2> QED  BY <2>3, <2>4
<1> QED  BY <1>2, <1>3, <1>5, <1>6

\* While a run is soft it stays calm.
LEMMA CalmKeeps ==
  ASSUME Timely, LineSound, LineStep, NEW r \in Runs, Calm(r)
  PROVE  Calm(r)'
<1> SUFFICES ASSUME NEW l \in Leases, claims'[l].status = "active", claims'[l].key.run = r
             PROVE  /\ claims'[l].ttl > 0
                    /\ \A w \in Workers : Working(w)' /\ proc'[w].lease = l =>
                         proc'[w].pc = "handler" /\ proc'[w].since =< MaxPollLag
  BY DEF Calm
<1>1. CASE claims[l].status = "active" /\ claims'[l].key = claims[l].key
  <2>1. claims'[l].ttl > 0
    BY <1>1 DEF LineStep, ClaimsMove, Calm
  <2>2. ASSUME NEW w \in Workers, Working(w)', proc'[w].lease = l
        PROVE  proc'[w].pc = "handler" /\ proc'[w].since =< MaxPollLag
    <3>1. /\ Working(w) /\ proc[w].lease = l /\ proc'[w].since = proc[w].since
          /\ proc'[w].pc = "returned" => proc[w].pc = "returned" \/ proc[w].since >= MinHandler
      BY <1>1, <2>2, WorkingBefore
    <3>2. proc[w].pc = "handler" /\ proc[w].since =< MaxPollLag
      BY <1>1, <3>1 DEF Calm
    <3>3. proc[w].since \in Nat /\ MaxPollLag \in Nat /\ MinHandler \in Nat
      BY <3>1, WorkerFields, RowTimes DEF LineSound
    <3>4. proc'[w].pc # "returned"
      BY <3>1, <3>2, <3>3 DEF Timely
    <3> QED  BY <2>2, <3>1, <3>2, <3>4 DEF Working
  <2> QED  BY <2>1, <2>2
<1>2. CASE claims[l].status = "absent" /\ claims'[l].ttl > 0
  <2>1. ASSUME NEW w \in Workers, Working(w)', proc'[w].lease = l
        PROVE  proc'[w].pc = "handler" /\ proc'[w].since =< MaxPollLag
    BY <1>2, <2>1, WorkingBefore
  <2> QED  BY <1>2, <2>1
<1> QED  BY <1>1, <1>2 DEF LineStep, ClaimsMove

\* A settling worker and its run.
LEMMA SettlerFacts ==
  ASSUME LineSound, NEW w \in Workers, Settling(w)
  PROVE  /\ Finished(w) \/ proc[w].pc \in {"repair", "recheck"}
         /\ SettledRun(w) \in Runs
         /\ Finished(w) => /\ proc[w].lease \in Leases /\ KeyOf(w) \in Keys
                           /\ SettledRun(w) = KeyOf(w).run
                           /\ claims[proc[w].lease].status # "absent"
         /\ proc[w].pc \in {"repair", "recheck"} => /\ proc[w].key \in Keys
                                                   /\ SettledRun(w) = proc[w].key.run
<1>1. Finished(w) \/ proc[w].pc \in {"repair", "recheck"}
  BY DEF Settling, Finished
<1>2. Finished(w) => /\ proc[w].lease \in Leases /\ KeyOf(w) \in Keys
                     /\ SettledRun(w) = KeyOf(w).run
                     /\ claims[proc[w].lease].status # "absent"
  BY WorkerFields, RowTimes DEF LineSound, WorkerSound, HoldsLease, Finished, KeyOf, SettledRun
<1>3. proc[w].pc \in {"repair", "recheck"} => /\ proc[w].key \in Keys
                                             /\ SettledRun(w) = proc[w].key.run
  BY WorkerFields DEF LineSound, SettledRun
<1> QED  BY <1>1, <1>2, <1>3, RowTimes DEF LineSound

\* A settler that stays settles the same run.
LEMMA SettlerStays ==
  ASSUME LineSound, ClaimsMove, NEW w \in Workers, Settling(w), proc'[w] = proc[w]
  PROVE  /\ SettledRun(w)' = SettledRun(w) /\ Settling(w)'
         /\ Finished(w) => KeyOf(w)' = KeyOf(w)
<1>1. Finished(w) => KeyOf(w)' = KeyOf(w)
  BY DEF KeyOf, ClaimsMove, HoldsLease, Finished
<1> QED  BY <1>1, SettlerFacts DEF SettledRun, Settling, KeyOf, Finished

\* Who settles after the step did so before, or turns.
LEMMA SettledBefore ==
  ASSUME LineStep, NEW w \in Workers, Settling(w)'
  PROVE  Turns(w) \/ (proc'[w] = proc[w] /\ Settling(w))
  BY DEF LineStep, Eases, GoesOn, Begins, Working, Settling

\* A worker between finish and materialize_result is not overtaken by a soft step.
LEMMA ResolvedKeeps ==
  ASSUME LineSound, LineStep, NEW w \in Workers, Finished(w), proc'[w] = proc[w],
         RunSoft(SettledRun(w))
  PROVE  ResolvedSound(w)'
<1>0. Settling(w) /\ ClaimsMove
  BY DEF Settling, Finished, LineStep
<1>1. PICK k \in Keys : k = KeyOf(w)
  BY <1>0, SettlerFacts
<1>2. /\ KeyOf(w)' = k /\ SettledRun(w) = k.run /\ k.run \in Runs /\ k \in JobsOf(k.run)
      /\ ResolvedSound(w) /\ RunSoft(k.run)
  BY <1>0, <1>1, SettlerFacts, SettlerStays DEF LineSound, SettlerSound, JobsOf
<1>3. /\ runs[k.run] = "active" /\ Leads(k) /\ proc[w].since > MaxPollLag
      /\ jobs[k].age =< MaxLag /\ (~ Open(k) => jobs[k].age > MaxPollLag)
      /\ jobs[k].status \in Recorded(proc[w].result.outcome)
      /\ \A v \in Workers : Settling(v) /\ SettledRun(v) = k.run => v = w
  BY <1>1, <1>2 DEF ResolvedSound
<1>4. runs'[k.run] = "active" /\ Leads(k)'
  BY <1>2, <1>3, SoftLeads DEF RunSoft, LineSound
<1>5. Open(k)' = Open(k) /\ (~ Open(k) => jobs'[k] = jobs[k])
  BY <1>2, SoftJobs DEF LineSound
<1>6. jobs'[k].age =< MaxLag
  BY <1>2, <1>3, RowTimes DEF RunSoft, LineSound
<1>7. jobs'[k].status \in Recorded(proc[w].result.outcome)
  <2>1. CASE jobs'[k] = jobs[k]
    BY <1>3, <2>1
  <2>2. CASE Open(k) /\ jobs'[k].status \in {"pending", "running"}
    BY <1>3, <2>2 DEF Recorded, Open, RUN_OPEN_JOB_STATUSES
  <2> QED  BY <1>2, <2>1, <2>2 DEF RunSoft
<1>8. ASSUME NEW v \in Workers, Settling(v)', SettledRun(v)' = k.run
      PROVE  v = w
  <2>1. CASE Turns(v) /\ v # w
    BY <1>1, <1>8, <2>1 DEF Turns
  <2>2. CASE proc'[v] = proc[v] /\ Settling(v)
    BY <1>0, <1>3, <1>8, <2>2, SettlerStays
  <2> QED  BY <1>8, <2>1, <2>2, SettledBefore DEF Settling
<1> QED  BY <1>2, <1>3, <1>4, <1>5, <1>6, <1>7, <1>8 DEF ResolvedSound

\* The jobs a result gives rise to belong to the run of the job.
LEMMA SuccessorsOfRun ==
  ASSUME NEW k \in Keys, NEW result, NEW top, NEW over,
         NEW s \in SuccessorKeys(k, result, top, over)
  PROVE  s.run = k.run
  BY ZenonT(60) DEF SuccessorKeys, When, RetryKey, Keys

\* A run that has an open job, or has ended, still does after a soft step.
LEMMA BusyKeeps ==
  ASSUME LineSound, NEW r \in Runs, RunSoft(r), Busy(r)
  PROVE  Busy(r)'
<1>1. CASE Ended(r)
  BY <1>1 DEF RunSoft, Ended, Busy
<1>2. CASE HasOpen(jobs, r)
  <2>1. PICK k \in JobsOf(r) : Open(k)
    BY <1>2 DEF HasOpen, Open
  <2>2. Open(k)'
    BY <2>1, SoftJobs DEF LineSound
  <2> QED  BY <2>1, <2>2 DEF HasOpen, Open, Busy, JobsOf
<1> QED  BY <1>1, <1>2 DEF Busy

\* What a soft step leaves done is done.
LEMMA DoneKeeps ==
  ASSUME LineSound, NEW k \in Keys, RunSoft(k.run), NEW result, Done(k, result)
  PROVE  Done(k, result)'
<1>1. ASSUME NEW s \in SuccessorKeys(k, result, -1, FALSE)
      PROVE  s \in Keys /\ Present(s)'
  <2>1. s \in Keys /\ s \in JobsOf(k.run) /\ k.run \in Runs /\ Present(s)
    BY SuccessorsOfRun, RowTimes DEF JobsOf, LineSound, Done
  <2> QED  BY <2>1, SoftJobs DEF LineSound
<1> QED  BY <1>1 DEF Done

\* A repair keeps its leader, or what was already replayed, through a soft step.
LEMMA RepairKeeps ==
  ASSUME LineSound, NEW w \in Workers, proc[w].pc = "repair", proc'[w] = proc[w],
         RunSoft(SettledRun(w))
  PROVE  RepairSound(w)'
<1>0. Settling(w)
  BY DEF Settling
<1>1. PICK k \in Keys : k = proc[w].key
  BY <1>0, SettlerFacts
<1>2. /\ SettledRun(w) = k.run /\ k.run \in Runs /\ k \in JobsOf(k.run)
      /\ RepairSound(w) /\ RunSoft(k.run)
  BY <1>0, <1>1, SettlerFacts DEF LineSound, SettlerSound, JobsOf
<1>3. ~ Open(k)
  BY <1>1, <1>2 DEF RepairSound, Replays, Open, RUN_OPEN_JOB_STATUSES
<1>4. jobs'[k] = jobs[k] /\ ~ Open(k)' /\ runs'[k.run] = runs[k.run]
  BY <1>2, <1>3, SoftJobs DEF LineSound, RunSoft
<1>5. Leads(k) => Leads(k)'
  BY <1>2, SoftLeads DEF LineSound
<1>6. Busy(k.run) => Busy(k.run)'
  BY <1>2, BusyKeeps
<1>7. PICK result : result = proc[w].result
  OBVIOUS
<1>8. Done(k, result) => Done(k, result)'
  BY <1>2, DoneKeeps
<1> QED  BY <1>1, <1>2, <1>3, <1>4, <1>5, <1>6, <1>7, <1>8 DEF RepairSound

\* A step of the line leaves every worker that settles or repairs sound.
LEMMA SettlersKeep ==
  ASSUME Timely, LineSound, LineStep, NEW w \in Workers
  PROVE  SettlerSound(w)'
<1>1. CASE Turns(w)
  BY <1>1 DEF Turns
<1>2. CASE ~ Turns(w) /\ ~ Settling(w)'
  BY <1>2 DEF SettlerSound, Settling, Finished
<1>3. CASE proc'[w] = proc[w] /\ Settling(w)
  <2>1. PICK r \in Runs : r = SettledRun(w)
    BY <1>3, SettlerFacts
  <2>2. CASE ~ RunSoft(r)
    BY <1>3, <2>1, <2>2 DEF LineStep, RunSteps
  <2>3. CASE RunSoft(r)
    <3>1. Calm(r) /\ runs[r] \notin {"absent", "cancelled"}
      BY <1>3, <2>1 DEF LineSound, SettlerSound
    <3>2. SettledRun(w)' = r /\ Calm(r)' /\ runs'[r] \notin {"absent", "cancelled"}
      BY <1>3, <2>1, <2>3, <3>1, CalmKeeps, SettlerStays DEF RunSoft, LineStep
    <3>3. Finished(w) => ResolvedSound(w)'
      BY <1>3, <2>1, <2>3, ResolvedKeeps
    <3>4. proc[w].pc = "repair" => RepairSound(w)'
      BY <1>3, <2>1, <2>3, RepairKeeps
    <3>5. ASSUME proc[w].pc = "recheck" PROVE Busy(proc[w].key.run)'
      <4>1. proc[w].key.run = r /\ Busy(r)
        BY <1>3, <2>1, <3>5, SettlerFacts DEF LineSound, SettlerSound
      <4>2. Busy(r)'
        BY <2>3, <4>1, BusyKeeps
      <4> QED  BY <1>3, <4>1, <4>2 DEF Busy, Ended, HasOpen, JobsOf
    <3> QED  BY <1>3, <3>2, <3>3, <3>4, <3>5 DEF SettlerSound, Finished
  <2> QED  BY <2>2, <2>3
<1> QED  BY <1>1, <1>2, <1>3, SettledBefore

\* A line step keeps the invariant.
LEMMA LineKeeps ==
  ASSUME Timely, LineSound, LineStep
  PROVE  LineSound'
<1>1. ASSUME NEW r \in Runs PROVE RunSound(r)' /\ Handled(r)'
  BY SoftSound, HandledKeeps DEF LineStep, RunSteps, LineSound
<1>2. ASSUME NEW w \in Workers PROVE WorkerSound(w)' /\ SettlerSound(w)'
  BY WorkersKeep, SettlersKeep
<1> QED  BY <1>1, <1>2 DEF LineSound, LineStep

-----------------------------------------------------------------------------
\* Operations that no settler minds: the runs are soft.

SoftStep == IInv' /\ (\A r \in Runs : RunSoft(r)) /\ ClaimsMove

\* The claim a worker refers to is in the table.
LEMMA HeldClaims ==
  ASSUME LineSound, NEW w \in Workers, HoldsLease(w)
  PROVE  proc[w].lease \in Leases /\ claims[proc[w].lease].status # "absent"
  BY WorkerFields DEF LineSound, WorkerSound

\* Claims that stay or close, with their keys.
LEMMA ClaimsSettle ==
  ASSUME LineSound,
         \A l \in Leases : \/ claims'[l] = claims[l]
                           \/ /\ claims[l].status = "active"
                              /\ claims'[l].status \in {"released", "expired"}
                              /\ claims'[l].key = claims[l].key
  PROVE  ClaimsMove
<1>1. ASSUME NEW w \in Workers, HoldsLease(w)
      PROVE  claims'[proc[w].lease].status # "absent" /\ claims'[proc[w].lease].key = KeyOf(w)
  BY <1>1, HeldClaims DEF KeyOf
<1> QED  BY <1>1 DEF ClaimsMove

\* Nothing happens to the jobs, the runs and the claims.
LEMMA StillSoft ==
  ASSUME LineSound, IInv', UNCHANGED <<runs, jobs, claims>>
  PROVE  SoftStep
<1>1. ClaimsMove
  BY ClaimsSettle
<1> QED  BY <1>1 DEF SoftStep, RunSoft

\* Nothing happens to the store.
LEMMA StoreSoft ==
  ASSUME LineSound, UNCHANGED vars
  PROVE  SoftStep
<1>1. IInv'
  BY DEF vars, LineSound, IInv, TypeOK, LeaseIntegrity, RunningIsLeased, TokensFence, Unborn
<1> QED  BY <1>1, StillSoft DEF vars

\* An operation on the fleet reservations alone.
LEMMA ReservationSoft ==
  ASSUME LineSound, Quiet, UNCHANGED <<runs, jobs, claims>>
  PROVE  SoftStep
  BY QuietPreserves, StillSoft DEF LineSound

\* The fleet takes runs back: their running jobs are queued again.
LEMMA RequeueSoft ==
  ASSUME LineSound, Quiet, NEW STATE R, NEW lag \in Lags,
         runs' = runs, jobs' = RequeuedJobs(R, lag), claims' = ReleasedClaims(R)
  PROVE  SoftStep
<1>1. IInv'
  BY QuietPreserves DEF LineSound
<1>2. ASSUME NEW k \in Keys
      PROVE  \/ jobs'[k] = jobs[k]
             \/ Open(k) /\ jobs'[k].status = "pending" /\ jobs'[k].age \in Lags
  <2>1. jobs[k] \in JobRows
    BY RowParts DEF LineSound
  <2>2. CASE k.run \in R /\ jobs[k].status = "running"
    <3>1. jobs'[k] = RequeuedJob(jobs[k], lag)
      BY <2>2 DEF RequeuedJobs
    <3>2. jobs'[k].status = "pending" /\ jobs'[k].age = lag
      BY <2>1, <3>1 DEF RequeuedJob, JobRows
    <3> QED  BY <2>2, <3>2 DEF Open, RUN_OPEN_JOB_STATUSES
  <2>3. CASE ~ (k.run \in R /\ jobs[k].status = "running")
    BY <2>3 DEF RequeuedJobs
  <2> QED  BY <2>2, <2>3
<1>3. \A l \in Leases : \/ claims'[l] = claims[l]
                        \/ /\ claims[l].status = "active"
                           /\ claims'[l].status \in {"released", "expired"}
                           /\ claims'[l].key = claims[l].key
  BY ClosedRows, RowParts DEF ReleasedClaims, LineSound
<1>4. ClaimsMove
  BY <1>3, ClaimsSettle
<1> QED  BY <1>1, <1>2, <1>4 DEF SoftStep, RunSoft, JobsOf

\* A lease beats.
LEMMA HeartbeatSoft ==
  ASSUME Timely, LineSound, NEW l \in Leases, Heartbeat(l, 0)
  PROVE  SoftStep
<1>0. 0 \in Lags
  BY StoreAssumption DEF Lags
<1>1. IInv'
  BY <1>0, HeartbeatQuiet, QuietPreserves DEF LineSound
<1>2. PICK key \in Keys : key = claims[l].key
  BY RowTimes DEF LineSound
<1>3. claims[l].status = "active" /\ jobs[key].status = "running" /\ runs' = runs
  BY <1>2, ActiveClaim DEF Heartbeat, Holds, LineSound
<1>4. jobs' = [jobs EXCEPT ![key] = [jobs[key] EXCEPT !.age = 0]]
  BY <1>2 DEF Heartbeat
<1>5. \A k \in Keys : jobs[k] \in JobRows /\ jobs \in [Keys -> JobRows]
  BY DEF LineSound, IInv, TypeOK
<1>6. \A k \in Keys : k # key => jobs'[k] = jobs[k]
  BY <1>4, <1>5
<1>7. jobs'[key].status = "running" /\ jobs'[key].age = 0
  BY <1>3, <1>4, <1>5 DEF JobRows
<1>8. \A r \in Runs : RunSoft(r)
  BY <1>0, <1>3, <1>6, <1>7 DEF RunSoft, JobsOf, Open, RUN_OPEN_JOB_STATUSES
<1>9. LeaseDuration - 0 > 0
  BY StoreAssumption
<1>10. claims \in [Leases -> ClaimRows]
  BY DEF LineSound, IInv, TypeOK
<1>11. claims' = [claims EXCEPT ![l] = [claims[l] EXCEPT !.ttl = LeaseDuration - 0]]
  BY DEF Heartbeat
<1>12. /\ claims'[l].status = "active" /\ claims'[l].key = claims[l].key
       /\ claims'[l].ttl = LeaseDuration - 0
  BY <1>3, <1>10, <1>11 DEF ClaimRows
<1>13. \A m \in Leases \ {l} : claims'[m] = claims[m]
  BY <1>10, <1>11
<1>14. ASSUME NEW w \in Workers, HoldsLease(w)
       PROVE  claims'[proc[w].lease].status # "absent" /\ claims'[proc[w].lease].key = KeyOf(w)
  <2>1. CASE proc[w].lease = l
    BY <1>12, <2>1 DEF KeyOf
  <2>2. CASE proc[w].lease # l
    BY <1>13, <1>14, <2>2, HeldClaims DEF KeyOf
  <2> QED  BY <2>1, <2>2
<1>15. ASSUME NEW m \in Leases, claims'[m].status = "active"
       PROVE  /\ claims[m].status = "active" /\ claims'[m].key = claims[m].key
              /\ claims'[m].ttl = claims[m].ttl \/ claims'[m].ttl > 0
  BY <1>3, <1>9, <1>12, <1>13, <1>15
<1> QED  BY <1>1, <1>8, <1>14, <1>15 DEF SoftStep, ClaimsMove

\* The owner resumes a job: its run is active already.
LEMMA ResumeSoft ==
  ASSUME LineSound, NEW key \in Keys, ResumeJob(key, 0)
  PROVE  SoftStep
<1>0. 0 \in Lags
  BY StoreAssumption DEF Lags
<1>1. IInv'
  BY <1>0, ResumeJobQuiet, QuietPreserves DEF LineSound
<1>2. Open(key) /\ key.run \in Runs
  BY RowTimes DEF ResumeJob, Open, RUN_OPEN_JOB_STATUSES, LineSound
<1>3. runs[key.run] = "active"
  BY <1>2, OpenLeads DEF LineSound
<1>4. runs' = runs /\ claims' = claims
  BY <1>3 DEF ResumeJob
<1>5. jobs \in [Keys -> JobRows]
  BY DEF LineSound, IInv, TypeOK
<1>6. \A k \in Keys : k # key => jobs'[k] = jobs[k]
  BY <1>5 DEF ResumeJob
<1>7. jobs'[key].status = "pending" /\ jobs'[key].age = 0
  BY <1>5 DEF ResumeJob, JobRows
<1>8. ClaimsMove
  BY <1>4, ClaimsSettle
<1> QED  BY <1>0, <1>1, <1>2, <1>4, <1>6, <1>7, <1>8 DEF SoftStep, RunSoft, JobsOf

\* A worker claims a job with a clock reading of its poll.
LEMMA ClaimSoft ==
  ASSUME Timely, LineSound, NEW w \in Workers, NEW key \in Keys, NEW l \in Leases,
         NEW x \in Reservations \cup {NoReservation}, NEW lag \in 0 .. MaxPollLag,
         Claim(w, key, l, x, lag)
  PROVE  SoftStep /\ claims[l].status = "absent" /\ claims'[l].status = "active"
<1>0. lag \in Lags /\ LeaseDuration - lag > 0
  BY LineAssumption, StoreAssumption DEF Lags, Timely
<1>1. Claims(key, l) /\ TypeOK'
  BY <1>0, ClaimClaims DEF LineSound
<1>2. IInv'
  BY <1>1, ClaimPreserves DEF LineSound
<1>3. jobs \in [Keys -> JobRows] /\ claims \in [Leases -> ClaimRows]
  BY DEF LineSound, IInv, TypeOK
<1>4. jobs' = [jobs EXCEPT ![key] = ClaimedJob(jobs[key], l, lag)]
  BY DEF Claim
<1>5. jobs'[key].age = lag
  BY <1>3, <1>4 DEF ClaimedJob, JobRows
<1>6. \A r \in Runs : RunSoft(r)
  BY <1>0, <1>1, <1>5 DEF Claims, RunSoft, JobsOf, Open, RUN_OPEN_JOB_STATUSES
<1>7. claims'[l].ttl = LeaseDuration - lag
  BY <1>3 DEF Claim
<1>8. ASSUME NEW v \in Workers, HoldsLease(v)
      PROVE  claims'[proc[v].lease].status # "absent" /\ claims'[proc[v].lease].key = KeyOf(v)
  BY <1>1, <1>8, HeldClaims DEF Claims, KeyOf
<1>9. ClaimsMove
  BY <1>0, <1>1, <1>7, <1>8 DEF ClaimsMove, Claims
<1> QED  BY <1>1, <1>2, <1>6, <1>9 DEF SoftStep, Claims

-----------------------------------------------------------------------------
\* The workers' steps that no settler minds.

\* A worker moves, and nobody else.
Moved(w, state) == proc'[w] = state /\ \A v \in Workers \ {w} : proc'[v] = proc[v]

\* A worker goes on and the others stay.
LEMMA GotoMoves ==
  ASSUME LineSound, NEW w \in Workers, NEW STATE s, s \in WorkerStates, Goto(w, s), offer' = offer
  PROVE  LineTypeOK' /\ Moved(w, s)
  BY DEF LineSound, LineTypeOK, Goto, Moved

\* After a soft operation the offer of the coordinator is for a run that exists.
LEMMA OfferStays ==
  ASSUME LineSound, \A r \in Runs : runs[r] # "absent" => runs'[r] # "absent", offer' = offer
  PROVE  OfferSound'
  BY DEF LineSound, OfferSound, LineTypeOK, Offers, NoOffer

\* A soft operation with a worker that eases.
LEMMA SoftMove ==
  ASSUME LineSound, SoftStep, NEW w \in Workers, NEW STATE s, s \in WorkerStates, Goto(w, s),
         offer' = offer, Moved(w, s) => Eases(w)
  PROVE  LineStep
<1>1. LineTypeOK' /\ Moved(w, s)
  BY GotoMoves
<1>2. \A v \in Workers : Eases(v)
  BY <1>1 DEF Moved, Eases
<1>3. OfferSound'
  BY OfferStays DEF SoftStep, RunSoft
<1> QED  BY <1>1, <1>2, <1>3 DEF LineStep, SoftStep, RunSteps

\* A soft operation of somebody else than a worker.
LEMMA SoftOnly ==
  ASSUME LineSound, SoftStep, UNCHANGED <<proc, offer>>
  PROVE  LineStep
<1>1. \A v \in Workers : Eases(v)
  BY DEF Eases
<1>2. OfferSound'
  BY OfferStays DEF SoftStep, RunSoft
<1> QED  BY <1>1, <1>2 DEF LineStep, SoftStep, RunSteps, LineSound, LineTypeOK

\* The lags of one poll are lags.
LEMMA ZeroLag == 0 \in Lags /\ 0 .. MaxPollLag \subseteq Lags
  BY StoreAssumption, LineAssumption DEF Lags

\* The heartbeat of a reservation, renewed or found expired.
LEMMA BeatSoft ==
  ASSUME LineSound, NEW x \in Reservations, NEW lag \in Lags, HeartbeatReservation(x, lag)
  PROVE  SoftStep
<1>1. Quiet
  BY HeartbeatReservationQuiet DEF LineSound
<1>2. CASE Passed(reservations[x].ttl, lag)
  <2>1. /\ runs' = runs /\ jobs' = RequeuedJobs({reservations[x].run}, lag)
        /\ claims' = ReleasedClaims({reservations[x].run})
    BY <1>2 DEF HeartbeatReservation
  <2> QED  BY <1>1, <2>1, RequeueSoft
<1>3. CASE ~ Passed(reservations[x].ttl, lag)
  <2>1. UNCHANGED <<runs, jobs, claims>>
    BY <1>3 DEF HeartbeatReservation
  <2> QED  BY <1>1, <2>1, ReservationSoft
<1> QED  BY <1>2, <1>3

\* _beat_reservation.
LEMMA BeatReservationSoft ==
  ASSUME LineSound, NEW l \in Leases, NEW lag \in Lags, BeatReservation(l, lag)
  PROVE  SoftStep
<1>1. CASE BeatTargets(l) = {}
  BY <1>1, StoreSoft DEF BeatReservation
<1>2. CASE BeatTargets(l) # {}
  <2>1. BeatTargets(l) \subseteq Reservations
    <3>1. claims[l] \in ClaimRows
      BY RowParts DEF LineSound
    <3>2. claims[l].reservation \in Reservations \cup {NoReservation}
      BY <3>1 DEF ClaimRows
    <3> QED  BY <3>2 DEF BeatTargets, LiveOf
  <2>2. PICK x \in Reservations : HeartbeatReservation(x, lag)
    BY <1>2, <2>1 DEF BeatReservation
  <2> QED  BY <2>2, BeatSoft
<1> QED  BY <1>1, <1>2

\* A worker in its handler, with another beat.
LEMMA BeatState ==
  ASSUME LineSound, NEW w \in Workers, proc[w].pc = "handler",
         NEW b \in {"first", "lease", "cycle", "off"}
  PROVE  /\ [proc[w] EXCEPT !.beat = b] \in WorkerStates
         /\ Moved(w, [proc[w] EXCEPT !.beat = b]) => Eases(w)
<1>1. PICK p \in WorkerStates : p = proc[w]
  BY DEF LineSound, LineTypeOK
<1>2. p \in [pc : {"handler"}, lease : Leases, since : Lags,
             beat : {"first", "lease", "cycle", "off"}]
  BY <1>1, Shapes
<1>3. /\ [p EXCEPT !.beat = b] \in [pc : {"handler"}, lease : Leases, since : Lags,
                                    beat : {"first", "lease", "cycle", "off"}]
      /\ [p EXCEPT !.beat = b].pc = "handler" /\ [p EXCEPT !.beat = b].lease = p.lease
      /\ [p EXCEPT !.beat = b].since = p.since
  BY <1>2
<1>4. [p EXCEPT !.beat = b] \in WorkerStates
  BY <1>3 DEF WorkerStates
<1> QED  BY <1>1, <1>3, <1>4 DEF Moved, Eases, GoesOn, Working

\* Of the poll loop: a claim keeps the line.
LEMMA PollClaimSteps ==
  ASSUME Timely, LineSound, NEW w \in Workers, NEW lag \in 0 .. MaxPollLag, PollClaim(w, lag)
  PROVE  LineStep
<1>1. PICK k \in Keys, l \in Leases, x \in Reservations \cup {NoReservation} :
        /\ proc[w].pc = "idle"
        /\ Claim(w, k, l, x, lag)
        /\ Goto(w, [pc |-> "handler", lease |-> l, since |-> lag, beat |-> "first"])
        /\ offer' = offer
  BY DEF PollClaim
<1> DEFINE s == [pc |-> "handler", lease |-> l, since |-> lag, beat |-> "first"]
<1>2. s \in WorkerStates
  BY ZeroLag DEF WorkerStates
<1>3. SoftStep /\ claims[l].status = "absent" /\ claims'[l].status = "active"
  BY <1>1, ClaimSoft
<1>4. ASSUME Moved(w, s) PROVE Eases(w)
  BY <1>1, <1>3, <1>4, LineAssumption DEF Moved, Eases, Begins, HoldsLease
<1> HIDE DEF s
<1> QED  BY <1>1, <1>2, <1>3, <1>4, SoftMove DEF s

\* The three heartbeats of a worker that runs a stage keep the line.
LEMMA BeatsStep ==
  ASSUME Timely, LineSound, NEW w \in Workers, FirstBeat(w) \/ LeaseBeat(w) \/ CycleBeat(w)
  PROVE  LineStep
<1>1. proc[w].pc = "handler" /\ offer' = offer
  BY DEF FirstBeat, LeaseBeat, CycleBeat
<1>2. proc[w].lease \in Leases /\ proc[w].since \in Lags
  BY <1>1, WorkerFields DEF LineSound, HoldsLease, Working
<1>3. \E b \in {"first", "lease", "cycle", "off"} : Goto(w, [proc[w] EXCEPT !.beat = b])
  BY DEF FirstBeat, LeaseBeat, CycleBeat
<1>4. PICK b \in {"first", "lease", "cycle", "off"} : Goto(w, [proc[w] EXCEPT !.beat = b])
  BY <1>3
<1>5. SoftStep
  <2>1. CASE BeatReservation(proc[w].lease, proc[w].since) \/ BeatReservation(proc[w].lease, 0)
    BY <1>2, <2>1, ZeroLag, BeatReservationSoft
  <2>2. CASE Heartbeat(proc[w].lease, 0)
    BY <1>2, <2>2, HeartbeatSoft
  <2>3. CASE UNCHANGED vars
    BY <2>3, StoreSoft
  <2> QED  BY <2>1, <2>2, <2>3 DEF FirstBeat, LeaseBeat, CycleBeat
<1> QED  BY <1>1, <1>4, <1>5, BeatState, SoftMove

\* A handler that returns keeps the line: it took longer than a poll.
LEMMA HandlerSteps ==
  ASSUME Timely, LineSound, NEW w \in Workers, HandlerDone(w)
  PROVE  LineStep
<1>1. /\ proc[w].pc = "handler" /\ proc[w].since >= MinHandler /\ offer' = offer
      /\ UNCHANGED vars
  BY DEF HandlerDone
<1>2. proc[w].lease \in Leases /\ proc[w].since \in Lags
  BY <1>1, WorkerFields DEF LineSound, HoldsLease, Working
<1>3. SoftStep
  BY <1>1, StoreSoft
<1>4. claims[proc[w].lease].key.stage \in Stages
  BY <1>2, RowTimes DEF LineSound, Keys
<1>5. PICK result \in HandlerResults[claims[proc[w].lease].key.stage] :
        \/ Goto(w, [pc |-> "closing", lease |-> proc[w].lease,
                    result |-> [Parking EXCEPT !.outcome = "cancelled"]])
        \/ Goto(w, [pc |-> "returned", lease |-> proc[w].lease,
                    since |-> proc[w].since, result |-> result])
  BY DEF HandlerDone
<1>6. result \in Given /\ result \in Results
  BY <1>4, GivenVerdicts DEF Given, Verdicts
<1>7. [Parking EXCEPT !.outcome = "cancelled"] \in Results
  BY DEF Parking, Results, Outcomes
<1>8. CASE Goto(w, [pc |-> "closing", lease |-> proc[w].lease,
                    result |-> [Parking EXCEPT !.outcome = "cancelled"]])
  <2> DEFINE s == [pc |-> "closing", lease |-> proc[w].lease,
                   result |-> [Parking EXCEPT !.outcome = "cancelled"]]
  <2>1. s \in WorkerStates
    BY <1>2, <1>7 DEF WorkerStates
  <2>2. Moved(w, s) => Eases(w)
    BY <1>1 DEF Moved, Eases, HoldsLease
  <2> HIDE DEF s
  <2> QED  BY <1>1, <1>3, <1>8, <2>1, <2>2, SoftMove DEF s
<1>9. CASE Goto(w, [pc |-> "returned", lease |-> proc[w].lease,
                    since |-> proc[w].since, result |-> result])
  <2> DEFINE s == [pc |-> "returned", lease |-> proc[w].lease,
                   since |-> proc[w].since, result |-> result]
  <2>1. s \in WorkerStates
    BY <1>2, <1>6 DEF WorkerStates
  <2>2. Moved(w, s) => Eases(w)
    BY <1>1, <1>6 DEF Moved, Eases, GoesOn, Working
  <2> HIDE DEF s
  <2> QED  BY <1>1, <1>3, <1>9, <2>1, <2>2, SoftMove DEF s
<1> QED  BY <1>5, <1>8, <1>9

\* A worker that gives up.
LEMMA GoesIdle ==
  ASSUME LineSound, SoftStep, NEW w \in Workers, Goto(w, Idle), offer' = offer
  PROVE  LineStep
<1>1. Idle \in WorkerStates
  BY DEF Idle, WorkerStates
<1>2. Moved(w, Idle) => Eases(w)
  BY DEF Moved, Eases, Idle
<1> QED  BY <1>1, <1>2, SoftMove

\* The close of a reservation after the last stage keeps the line.
LEMMA SettleSteps ==
  ASSUME LineSound, NEW w \in Workers, SettleCycle(w)
  PROVE  LineStep
<1>1. proc[w].pc = "closing" /\ Goto(w, Idle) /\ offer' = offer
  BY DEF SettleCycle
<1>2. PICK l \in Leases : l = proc[w].lease
  BY <1>1, WorkerFields DEF LineSound, HoldsLease
<1>3. CASE UNCHANGED vars
  BY <1>1, <1>3, StoreSoft, GoesIdle
<1>4. CASE ~ UNCHANGED vars
  <2>1. PICK x \in SettleTargets(l), s \in SettleStatus(claims[l].key.run, proc[w].result.outcome) :
          ReleaseReservation(x, s)
    BY <1>2, <1>4 DEF SettleCycle
  <2>2. s \in ReleaseStatuses
    BY DEF SettleStatus, ReleaseStatuses
  <2>3. x \in Reservations
    <3>1. claims[l] \in ClaimRows
      BY RowParts DEF LineSound
    <3>2. claims[l].reservation \in Reservations \cup {NoReservation}
      BY <3>1 DEF ClaimRows
    <3> QED  BY <3>2 DEF SettleTargets, LiveOf
  <2>4. Quiet
    BY <2>1, <2>2, <2>3, ReleaseReservationQuiet DEF LineSound
  <2>5. SoftStep
    BY <2>1, <2>4, ReservationSoft DEF ReleaseReservation
  <2> QED  BY <1>1, <2>5, GoesIdle
<1> QED  BY <1>3, <1>4

\* A worker that dies keeps the line: it leaves its rows as they are.
LEMMA CrashSteps ==
  ASSUME LineSound, NEW w \in Workers, Crash(w)
  PROVE  LineStep
<1>1. SoftStep
  BY StoreSoft DEF Crash
<1> QED  BY <1>1, GoesIdle DEF Crash

\* The offers and reservations of the coordinator.
LEMMA AdmissionSteps ==
  ASSUME LineSound, ListAdmission
  PROVE  LineStep
<1>1. SoftStep
  BY StoreSoft DEF ListAdmission
<1>2. PICK k \in Keys, h \in Hosts :
        /\ runs[k.run] = "active" /\ offer' = [pc |-> "reserve", run |-> k.run, host |-> h]
        /\ UNCHANGED <<vars, proc>>
  BY DEF ListAdmission
<1>3. OfferSound' /\ LineTypeOK'
  BY <1>2, RowTimes DEF OfferSound, LineTypeOK, Offers, vars, LineSound
<1>4. \A v \in Workers : Eases(v)
  BY <1>2 DEF Eases
<1> QED  BY <1>1, <1>3, <1>4 DEF LineStep, SoftStep, RunSteps

\* The coordinator's reservation keeps the line.
LEMMA ReserveSteps ==
  ASSUME LineSound, ReserveOffer
  PROVE  LineStep
<1>1. offer.run \in Runs /\ offer.host \in Hosts
  BY DEF ReserveOffer, LineSound, LineTypeOK, Offers, NoOffer
<1>2. UNCHANGED vars => SoftStep
  BY StoreSoft
<1>3. ASSUME \E x \in Reservations : ReserveCycle(offer.run, offer.host, x, 0)
      PROVE  SoftStep
  <2>1. PICK x \in Reservations : ReserveCycle(offer.run, offer.host, x, 0)
    BY <1>3
  <2>2. Quiet
    BY <1>1, <2>1, ZeroLag, ReserveCycleQuiet DEF LineSound
  <2>3. /\ runs' = runs /\ jobs' = RequeuedJobs(SweptRuns(0), 0)
        /\ claims' = ReleasedClaims(SweptRuns(0))
    BY <2>1 DEF ReserveCycle
  <2> QED  BY <2>2, <2>3, ZeroLag, RequeueSoft
<1>4. SoftStep
  BY <1>2, <1>3 DEF ReserveOffer
<1>5. OfferSound' /\ LineTypeOK' /\ \A v \in Workers : Eases(v)
  BY DEF ReserveOffer, OfferSound, LineTypeOK, Offers, LineSound, Eases
<1> QED  BY <1>4, <1>5 DEF LineStep, SoftStep, RunSteps

\* The reservations a scan renews or takes back.
LEMMA FleetScanSteps ==
  ASSUME LineSound, RenewOpenRunReservations(0) \/ ReconcileFleetReservations(0),
         UNCHANGED <<proc, offer>>
  PROVE  LineStep
<1>1. CASE RenewOpenRunReservations(0)
  <2>1. Quiet
    BY <1>1, ZeroLag, RenewOpenRunReservationsQuiet DEF LineSound
  <2>2. SoftStep
    BY <1>1, <2>1, ReservationSoft DEF RenewOpenRunReservations
  <2> QED  BY <2>2, SoftOnly
<1>2. CASE ReconcileFleetReservations(0)
  <2>1. Quiet
    BY <1>2, ZeroLag, ReconcileFleetReservationsQuiet DEF LineSound
  <2>2. /\ runs' = runs /\ jobs' = RequeuedJobs(SweptRuns(0), 0)
        /\ claims' = ReleasedClaims(SweptRuns(0))
    BY <1>2 DEF ReconcileFleetReservations
  <2> QED  BY <2>1, <2>2, ZeroLag, RequeueSoft, SoftOnly
<1> QED  BY <1>1, <1>2

\* A resume of the owner keeps the line: no job opens or closes by it.
LEMMA ResumeSteps ==
  ASSUME LineSound, OwnerResume
  PROVE  LineStep
<1>1. SoftStep
  BY ResumeSoft DEF OwnerResume
<1> QED  BY <1>1, SoftOnly DEF OwnerResume

-----------------------------------------------------------------------------
\* The sweeps.

\* A run that a step leaves with nothing open has no active claim, and so nobody who
\* works on it.
LEMMA IdleRunCalm ==
  ASSUME IInv', LineTypeOK', NEW r \in Runs, \A k \in JobsOf(r) : ~ Open(k)'
  PROVE  Calm(r)' /\ Handled(r)'
<1>1. ASSUME NEW l \in Leases, claims'[l].status = "active", claims'[l].key.run = r
      PROVE  FALSE
  <2>1. PICK k \in Keys : k = claims'[l].key
    BY DEF IInv, TypeOK, ClaimRows
  <2>2. jobs'[k].status = "running" /\ k \in JobsOf(r)
    BY <1>1, <2>1 DEF JobsOf, IInv, LeaseIntegrity
  <2> QED  BY <2>2 DEF Open, RUN_OPEN_JOB_STATUSES
<1>2. ASSUME NEW w \in Workers, Working(w)' PROVE proc'[w].lease \in Leases
  <2>1. PICK p \in WorkerStates : p = proc'[w]
    BY DEF LineTypeOK
  <2> QED  BY <1>2, <2>1, Fields DEF Working
<1> QED  BY <1>1, <1>2 DEF Calm, Handled, KeyOf, JobsOf

\* find_orphan_run: what it finds is the leader of an idle run nobody settles after a
\* finish.
LEMMA FindSteps ==
  ASSUME Timely, LineSound, NEW w \in Workers, NEW lag \in 0 .. MaxPollLag, FindOrphan(w, lag)
  PROVE  LineStep
<1>a. PICK r \in Runs :
        /\ proc[w].pc = "idle" /\ Orphaned(r, lag) /\ UNCHANGED <<vars, offer>>
        /\ \E k \in NewestJobs(r) : \E result \in ReplayResults(k) :
             Goto(w, [pc |-> "repair", key |-> k, since |-> lag, result |-> result])
  BY DEF FindOrphan
<1>b. PICK k \in NewestJobs(r) : \E result \in ReplayResults(k) :
        Goto(w, [pc |-> "repair", key |-> k, since |-> lag, result |-> result])
  BY <1>a
<1>c. PICK result \in ReplayResults(k) :
        Goto(w, [pc |-> "repair", key |-> k, since |-> lag, result |-> result])
  BY <1>b
<1>1. /\ proc[w].pc = "idle" /\ Orphaned(r, lag) /\ UNCHANGED <<vars, offer>>
      /\ Goto(w, [pc |-> "repair", key |-> k, since |-> lag, result |-> result])
  BY <1>a, <1>c
<1>2. SoftStep
  BY <1>1, StoreSoft
<1>3. k \in Keys /\ k.run = r /\ Present(k) /\ Newest(k) /\ k \in JobsOf(r)
  BY DEF NewestJobs, JobsOf, Present
<1>4. runs[r] = "active" /\ \A j \in JobsOf(r) : ~ Open(j)
  BY <1>1 DEF Orphaned, HasOpen, Open
<1>5. Leads(k) /\ jobs[k].status # "retry"
  <2>1. PICK t \in JobsOf(r) : Leads(t) /\ jobs[t].status # "retry"
    BY <1>4 DEF LineSound, RunSound
  <2>2. CASE t # k
    <3>1. k \in Others(t) /\ ~ Open(t) /\ jobs[t].status # "absent"
      BY <1>3, <1>4, <2>1, <2>2 DEF Others, JobsOf, Leads, Present
    <3>2. jobs[k].age > jobs[t].age /\ jobs[k].age =< jobs[t].age
      BY <1>3, <2>1, <3>1 DEF Leads, Newest
    <3> QED  BY <1>3, <2>1, <3>2, RowTimes DEF LineSound, JobsOf
  <2> QED  BY <2>1, <2>2
<1>6. lag \in Nat /\ lag =< MaxPollLag /\ lag \in Lags
  BY ZeroLag, LineAssumption, RowTimes DEF LineSound
<1>7. \A j \in JobsOf(r) : Present(j) => jobs[j].age > MaxLag /\ jobs[j].age > MaxPollLag
  <2>1. ASSUME NEW j \in JobsOf(r), Present(j)
        PROVE  jobs[j].age > MaxLag /\ jobs[j].age > MaxPollLag
    <3>1. jobs[j].age - lag > IdleLimit
      BY <1>1, <2>1 DEF Orphaned, Present
    <3>2. /\ jobs[j].age \in Nat /\ MaxLag \in Nat /\ MaxPollLag \in Nat /\ IdleLimit \in Nat
          /\ MaxPollLag =< MaxLag
      BY RowTimes, LineAssumption DEF LineSound, JobsOf
    <3> QED  BY <1>6, <3>1, <3>2 DEF Timely
  <2> QED  BY <2>1
<1>8. /\ result \in Results /\ result \in Replays
      /\ jobs[k].status = (IF result.outcome = "success" THEN "succeeded" ELSE result.outcome)
  <2>1. jobs[k].status \in {"succeeded", "failed", "replan"}
    <3>1. jobs[k].status \in JobStatuses \ {"absent", "retry", "cancelled"}
      BY <1>3, <1>4, <1>5, RowTimes DEF LineSound, RunSound, Present
    <3> QED  BY <1>3, <1>4, <3>1 DEF JobStatuses, SettledJobStatuses, Open
  <2> QED  BY <2>1 DEF ReplayResults, Parking, Results, Outcomes, Replays
<1> DEFINE s == [pc |-> "repair", key |-> k, since |-> lag, result |-> result]
<1>9. s \in WorkerStates
  BY <1>3, <1>6, <1>8 DEF WorkerStates
<1>10. LineTypeOK' /\ Moved(w, s)
  BY <1>1, <1>9, GotoMoves
<1>11. /\ proc'[w].pc = "repair" /\ proc'[w].key = k /\ proc'[w].since = lag
       /\ proc'[w].result = result
  BY <1>10 DEF Moved
<1>12. SettledRun(w)' = r
  BY <1>3, <1>11 DEF SettledRun
<1>13. \A j \in JobsOf(r) : ~ Open(j)'
  BY <1>1, <1>4 DEF vars, Open
<1>14. Calm(r)'
  BY <1>2, <1>10, <1>13, IdleRunCalm DEF SoftStep
<1>15. Leads(k)'
  <2>1. RunSoft(k.run)
    BY <1>2, <1>3 DEF SoftStep
  <2> QED  BY <1>3, <1>5, <2>1, SoftLeads DEF LineSound
<1>16. RepairSound(w)'
  <2>1. runs'[k.run] = "active" /\ ~ Open(k)' /\ jobs' = jobs
    BY <1>1, <1>3, <1>4 DEF vars, Open
  <2> QED  BY <1>3, <1>6, <1>7, <1>8, <1>11, <1>15, <2>1 DEF RepairSound
<1>17. SettlerSound(w)' /\ WorkerSound(w)'
  <2>1. runs'[r] = "active"
    BY <1>1, <1>4 DEF vars
  <2> QED  BY <1>11, <1>12, <1>14, <1>16, <2>1 DEF SettlerSound, WorkerSound, HoldsLease, Finished
<1>18. ASSUME NEW v \in Workers, Finished(v)
       PROVE  KeyOf(v).run # r
  <2>1. PICK j \in Keys : j = KeyOf(v)
    BY <1>18, WorkerFields, RowTimes DEF LineSound, KeyOf, HoldsLease, Finished
  <2>2. Leads(j) /\ jobs[j].age =< MaxLag
    BY <1>18, <2>1 DEF LineSound, SettlerSound, ResolvedSound
  <2>3. ASSUME j.run = r PROVE FALSE
    <3>1. jobs[j].age > MaxLag
      BY <1>7, <2>2, <2>3 DEF JobsOf, Leads
    <3> QED  BY <2>2, <3>1, RowTimes DEF LineSound
  <2> QED  BY <2>1, <2>3
<1>19. Turns(w)
  BY <1>11, <1>12, <1>17, <1>18 DEF Turns, Settling
<1>20. \A v \in Workers \ {w} : Eases(v)
  BY <1>10 DEF Moved, Eases
<1>21. OfferSound'
  BY <1>1, OfferStays DEF vars
<1> QED  BY <1>2, <1>10, <1>19, <1>20, <1>21 DEF LineStep, SoftStep, RunSteps

\* After a repair the run is over, or has something open: it is not parked.
LEMMA RecheckSteps ==
  ASSUME LineSound, NEW w \in Workers, RecheckOrphan(w)
  PROVE  LineStep
<1>1. proc[w].pc = "recheck" /\ Goto(w, Idle) /\ offer' = offer
  BY DEF RecheckOrphan
<1>2. PICK k \in Keys : k = proc[w].key
  BY <1>1, WorkerFields DEF LineSound
<1>3. Busy(k.run)
  BY <1>1, <1>2 DEF LineSound, SettlerSound
<1>4. UNCHANGED vars
  BY <1>2, <1>3 DEF RecheckOrphan, Busy, Ended
<1> QED  BY <1>1, <1>4, StoreSoft, GoesIdle

\* No job waits in a run that is over: the sweep of ghosts finds nothing.
LEMMA NoGhosts ==
  ASSUME LineSound, NEW w \in Workers, NEW lag \in 0 .. MaxPollLag
  PROVE  ~ CloseGhost(w, lag)
<1> SUFFICES ASSUME NEW k \in Keys, jobs[k].status = "waiting_human",
                    runs[k.run] \in {"completed", "failed", "cancelled"}
             PROVE  FALSE
  BY DEF CloseGhost
<1>1. Open(k) /\ k.run \in Runs
  BY RowTimes DEF Open, RUN_OPEN_JOB_STATUSES, LineSound
<1>2. runs[k.run] = "active"
  BY <1>1, OpenLeads DEF LineSound
<1> QED  BY <1>2

\* Ids of closed rows become free again.
LEMMA RecycleSteps ==
  ASSUME LineSound, Recycle
  PROVE  LineStep
<1>1. UNCHANGED <<runs, jobs, ops, proc, offer>>
  BY DEF Recycle
<1>2. \A l \in Leases : \/ claims'[l] = claims[l]
                        \/ /\ claims'[l] = NoClaim /\ claims[l].status \in {"released", "expired"}
                           /\ l \in Recyclable
  BY DEF Recycle, Recyclable
<1>3. NoClaim.status = "absent"
  BY DEF NoClaim
<1>4. TypeOK'
  <2>1. /\ runs' \in [Runs -> RunStatuses] /\ jobs' \in [Keys -> JobRows]
        /\ ops' \in [Keys -> Nat] /\ claims \in [Leases -> ClaimRows]
        /\ reservations \in [Reservations -> ReservationRows]
    BY <1>1 DEF LineSound, IInv, TypeOK
  <2>2. claims' \in [Leases -> ClaimRows]
    BY <2>1, EmptyRows DEF Recycle
  <2>3. reservations' \in [Reservations -> ReservationRows]
    BY <2>1, EmptyRows DEF Recycle
  <2> QED  BY <2>1, <2>2, <2>3 DEF TypeOK
<1>5. LeaseIntegrity'
  BY <1>1, <1>2, <1>3 DEF LeaseIntegrity, LineSound, IInv
<1>6. RunningIsLeased'
  <2>1. ASSUME NEW k \in Keys
        PROVE  IF jobs[k].status = "running"
               THEN /\ jobs[k].lease \in Leases
                    /\ claims'[jobs[k].lease].status = "active"
                    /\ claims'[jobs[k].lease].key = k
               ELSE jobs[k].lease = NoLease
    BY <1>2 DEF RunningIsLeased, LineSound, IInv
  <2> QED  BY <1>1, <2>1 DEF RunningIsLeased
<1>7. TokensFence'
  BY <1>1, <1>2, <1>3 DEF TokensFence, LineSound, IInv
<1>8. Unborn'
  BY <1>1 DEF Unborn, LineSound, IInv
<1>9. ASSUME NEW w \in Workers, HoldsLease(w)
      PROVE  claims'[proc[w].lease] = claims[proc[w].lease]
  <2>1. proc[w].lease \notin Recyclable
    BY <1>9 DEF Recyclable, HoldsLease
  <2> QED  BY <1>2, <1>9, <2>1, HeldClaims
<1>10. ClaimsMove
  BY <1>2, <1>3, <1>9, HeldClaims DEF ClaimsMove, KeyOf
<1>11. SoftStep
  BY <1>1, <1>4, <1>5, <1>6, <1>7, <1>8, <1>10 DEF SoftStep, IInv, RunSoft
<1> QED  BY <1>1, <1>11, SoftOnly

-----------------------------------------------------------------------------
\* Operations that settle a run.

\* A step of the store without a worker, sound for every run.
LEMMA StoreOnly ==
  ASSUME LineSound, IInv', ClaimsMove, \A r \in Runs : RunSteps(r),
         \A r \in Runs : runs[r] # "absent" => runs'[r] # "absent",
         UNCHANGED <<proc, offer>>
  PROVE  LineStep
<1>1. \A v \in Workers : Eases(v)
  BY DEF Eases
<1> QED  BY <1>1, OfferStays DEF LineStep, LineSound, LineTypeOK

\* A leader that a step closes at once still leads: it is the newest.
LEMMA ClosedLeads ==
  ASSUME IInv, NEW k \in Keys, Leads(k), Open(k), jobs'[k].age \in Nat, jobs'[k].age =< MaxPollLag,
         Present(k)', ~ Open(k)', \A j \in JobsOf(k.run) \ {k} : jobs'[j] = jobs[j]
  PROVE  Leads(k)'
<1>1. ASSUME NEW j \in (Others(k))'
      PROVE  ~ Open(j)' /\ jobs'[j].age > jobs'[k].age
  <2>1. j \in Keys /\ j.run = k.run /\ j # k /\ jobs'[j] = jobs[j]
    BY <1>1 DEF Others, JobsOf
  <2>2. j \in Others(k)
    BY <1>1, <2>1 DEF Others, Present
  <2>3. ~ Open(j) /\ jobs[j].age > MaxPollLag
    BY <2>2 DEF Leads
  <2>4. jobs[j].age \in Nat /\ MaxPollLag \in Nat
    BY <2>1, RowTimes
  <2> QED  BY <2>1, <2>3, <2>4 DEF Open
<1> QED  BY <1>1 DEF Leads

\* A run whose leader a step closes, as anything but a retry or a cancellation, is
\* sound, if it stays as it was or ends.
LEMMA ClosingSound ==
  ASSUME IInv, NEW r \in Runs, RunSound(r), NEW k \in JobsOf(r), Leads(k),
         ~ Open(k)', jobs'[k].status \notin {"retry", "cancelled"},
         \A j \in JobsOf(r) \ {k} : jobs'[j] = jobs[j],
         runs[r] = "active",
         runs'[r] = "active" => Leads(k)'
  PROVE  RunSound(r)' /\ \A j \in JobsOf(r) : ~ Open(j)'
<1>1. ASSUME NEW j \in JobsOf(r), j # k
      PROVE  ~ Open(j)' /\ jobs'[j].status # "cancelled"
  <2>1. jobs'[j] = jobs[j] /\ jobs[j].status # "cancelled"
    BY <1>1 DEF RunSound
  <2>2. ~ Open(j)
    <3>1. CASE Present(j)
      <4>1. j \in Others(k)
        BY <1>1, <3>1 DEF Others, JobsOf
      <4> QED  BY <4>1 DEF Leads
    <3>2. CASE ~ Present(j)
      BY <3>2 DEF Present, Open, RUN_OPEN_JOB_STATUSES
    <3> QED  BY <3>1, <3>2
  <2> QED  BY <2>1, <2>2 DEF Open
<1>2. \A j \in JobsOf(r) : ~ Open(j)' /\ jobs'[j].status # "cancelled"
  BY <1>1
<1>3. runs'[r] = "active" => \E j \in JobsOf(r) : Leads(j)' /\ jobs'[j].status # "retry"
  OBVIOUS
<1> QED  BY <1>2, <1>3 DEF RunSound, JobsOf

\* reconcile takes expired claims back: their jobs are queued again, or failed.
LEMMA ReconcileSteps ==
  ASSUME Timely, LineSound, Reconcile(0), UNCHANGED <<proc, offer>>
  PROVE  LineStep
<1>1. IInv'
  BY ZeroLag, ReconcileQuiet, QuietPreserves DEF LineSound
<1>2. \A l \in Leases : \/ claims'[l] = claims[l]
                        \/ /\ claims[l].status = "active"
                           /\ claims'[l].status \in {"released", "expired"}
                           /\ claims'[l].key = claims[l].key
  BY ClosedRows, RowParts DEF Reconcile, ExpiredClaims, LineSound
<1>3. ClaimsMove
  BY <1>2, ClaimsSettle
<1>4. runs' = runs
  BY DEF Reconcile
<1>5. ASSUME NEW k \in Keys, jobs'[k] # jobs[k]
      PROVE  /\ Open(k) /\ Leads(k) /\ runs[k.run] = "active" /\ k.run \in Runs
             /\ ~ Calm(k.run)
             /\ jobs'[k].status \in {"pending", "failed"} /\ jobs'[k].age = 0
  <2>1. PICK l \in ExpiredClaims(0) : claims[l].key = k /\ claims[l].token = jobs[k].token
    BY <1>5 DEF Reconcile
  <2>2. l \in Leases /\ claims[l].status = "active" /\ claims[l].ttl + 0 =< 0
    BY <2>1 DEF ExpiredClaims, Passed
  <2>3. Open(k) /\ Leads(k) /\ runs[k.run] = "active" /\ k.run \in Runs
    BY <2>1, <2>2, ClaimLeads
  <2>4. ~ Calm(k.run)
    BY <2>1, <2>2, RowTimes DEF Calm, LineSound
  <2>5. jobs'[k] = ReconciledJob(jobs[k], 0) /\ jobs[k] \in JobRows
    BY <2>1, RowParts DEF Reconcile, LineSound
  <2>6. jobs'[k].status \in {"pending", "failed"} /\ jobs'[k].age = 0
    BY <2>5 DEF ReconciledJob, JobRows
  <2> QED  BY <2>3, <2>4, <2>6
<1>6. ASSUME NEW r \in Runs PROVE RunSteps(r)
  <2>1. CASE \A k \in JobsOf(r) : jobs'[k] = jobs[k] \/ jobs'[k].status = "pending"
    <3>1. \A k \in JobsOf(r) : \/ jobs'[k] = jobs[k]
                               \/ Open(k) /\ jobs'[k].status = "pending" /\ jobs'[k].age \in Lags
      BY <1>5, <2>1, ZeroLag DEF JobsOf
    <3> QED  BY <1>4, <3>1 DEF RunSteps, RunSoft
  <2>2. CASE ~ \A k \in JobsOf(r) : jobs'[k] = jobs[k] \/ jobs'[k].status = "pending"
    <3>1. PICK k \in JobsOf(r) : jobs'[k] # jobs[k] /\ jobs'[k].status # "pending"
      BY <2>2
    <3>2. k \in Keys /\ k.run = r
      BY DEF JobsOf
    <3>3. /\ Open(k) /\ Leads(k) /\ runs[r] = "active" /\ ~ Calm(r)
          /\ jobs'[k].status = "failed" /\ jobs'[k].age = 0
      BY <1>5, <3>1, <3>2
    <3>4. \A j \in JobsOf(r) \ {k} : jobs'[j] = jobs[j]
      <4>1. ASSUME NEW j \in JobsOf(r), j # k, jobs'[j] # jobs[j] PROVE FALSE
        <5>1. j \in Keys /\ j.run = k.run /\ Leads(j)
          BY <1>5, <3>2, <4>1 DEF JobsOf
        <5> QED  BY <3>2, <3>3, <4>1, <5>1, OneLeader DEF LineSound
      <4> QED  BY <4>1
    <3>5. ~ Open(k)' /\ Present(k)'
      BY <3>3 DEF Open, Present, RUN_OPEN_JOB_STATUSES
    <3>6. Leads(k)'
      BY <3>2, <3>3, <3>4, <3>5, ClosedLeads, RowTimes DEF LineSound
    <3>7. RunSound(r)' /\ \A j \in JobsOf(r) : ~ Open(j)'
      BY <3>3, <3>4, <3>5, <3>6, ClosingSound DEF LineSound
    <3>8. Handled(r)'
      BY <1>1, <3>7, IdleRunCalm DEF LineSound, LineTypeOK
    <3>9. \A w \in Workers : ~ (Settling(w) /\ SettledRun(w) = r)
      BY <3>3 DEF LineSound, SettlerSound
    <3>10. StaysDead(r)
      BY <3>3 DEF StaysDead
    <3>11. StaysOnTrack(r)
      <4>1. runs'[r] = "active" /\ HasFailed(jobs, r)'
        BY <1>4, <3>3 DEF HasFailed, JobsOf
      <4> QED  BY <4>1 DEF StaysOnTrack, OnTrack, Decided
    <3> QED  BY <3>7, <3>8, <3>9, <3>10, <3>11 DEF RunSteps
  <2> QED  BY <2>1, <2>2
<1> QED  BY <1>1, <1>3, <1>4, <1>6, StoreOnly

\* The owner cancels a run that nobody is settling.
LEMMA CancelSteps ==
  ASSUME Timely, LineSound, OwnerCancel
  PROVE  LineStep
<1>1. PICK r \in Runs : /\ \A w \in Workers : Settling(w) => SettledRun(w) # r
                        /\ CancelRun(r, 0)
  BY DEF OwnerCancel, Timely
<1>2. UNCHANGED <<proc, offer>>
  BY DEF OwnerCancel
<1>3. IInv'
  BY <1>1, ZeroLag, CancelRunQuiet, QuietPreserves DEF LineSound
<1>4. runs \in [Runs -> RunStatuses] /\ runs' = [runs EXCEPT ![r] = "cancelled"]
  BY <1>1 DEF CancelRun, LineSound, IInv, TypeOK
<1>5. \A l \in Leases : \/ claims'[l] = claims[l]
                        \/ /\ claims[l].status = "active"
                           /\ claims'[l].status \in {"released", "expired"}
                           /\ claims'[l].key = claims[l].key
  BY <1>1, ClosedRows, RowParts DEF CancelRun, ReleasedClaims, LineSound
<1>6. ClaimsMove
  BY <1>5, ClaimsSettle
<1>7. ASSUME NEW q \in Runs, q # r PROVE RunSoft(q)
  BY <1>1, <1>4, <1>7 DEF RunSoft, CancelRun, JobsOf
<1>8. ASSUME NEW k \in JobsOf(r)
      PROVE  ~ Open(k)'
  <2>1. k \in Keys /\ k.run = r /\ jobs[k] \in JobRows
    BY RowParts DEF JobsOf, LineSound
  <2>2. CASE Open(k)
    <3>1. jobs'[k] = [jobs[k] EXCEPT !.status = "cancelled", !.lease = NoLease, !.age = 0]
      BY <1>1, <2>1, <2>2 DEF CancelRun, Open
    <3>2. jobs'[k].status = "cancelled"
      BY <2>1, <3>1 DEF JobRows
    <3> QED  BY <3>2 DEF Open, RUN_OPEN_JOB_STATUSES
  <2>3. CASE ~ Open(k)
    <3>1. jobs'[k] = jobs[k]
      BY <1>1, <2>1, <2>3 DEF CancelRun, Open
    <3> QED  BY <2>3, <3>1 DEF Open
  <2> QED  BY <2>2, <2>3
<1>9. runs'[r] = "cancelled"
  BY <1>4
<1>10. RunSound(r)'
  BY <1>8, <1>9 DEF RunSound, JobsOf
<1>11. Handled(r)'
  BY <1>2, <1>3, <1>8, IdleRunCalm DEF LineSound, LineTypeOK
<1>12. RunSteps(r)
  <2>1. StaysDead(r)
    <3>1. ASSUME runs[r] = "cancelled", NEW k \in JobsOf(r) PROVE jobs'[k] = jobs[k]
      <4>1. k \in Keys /\ k.run = r /\ ~ Open(k)
        BY <3>1 DEF JobsOf, LineSound, RunSound
      <4> QED  BY <1>1, <4>1 DEF CancelRun, Open
    <3> QED  BY <1>9, <3>1 DEF StaysDead
  <2>2. StaysOnTrack(r)
    BY <1>9 DEF StaysOnTrack, OnTrack
  <2> QED  BY <1>1, <1>10, <1>11, <2>1, <2>2 DEF RunSteps
<1>13. \A q \in Runs : runs[q] # "absent" => runs'[q] # "absent"
  BY <1>4
<1> QED  BY <1>2, <1>3, <1>6, <1>7, <1>12, <1>13, StoreOnly DEF RunSteps

\* A command is accepted: its run begins with one job.
LEMMA IntakeSteps ==
  ASSUME LineSound, Intake
  PROVE  LineStep
<1>1. PICK r \in Runs : Accept(r, 0) /\ UNCHANGED <<proc, offer>>
  BY DEF Intake
<1> DEFINE k == [run |-> r, stage |-> "grill", iteration |-> 0]
<1>2. k \in Keys /\ k.run = r /\ k.stage = "grill"
  BY SuccessorsAssumption DEF Keys
<1>3. /\ runs[r] = "absent" /\ claims' = claims
      /\ runs' = [runs EXCEPT ![r] = "active"]
      /\ jobs' = [jobs EXCEPT ![k] = NewJob("pending", Floor, 0)]
  BY <1>1 DEF Accept
<1> HIDE DEF k
<1>4. runs \in [Runs -> RunStatuses] /\ jobs \in [Keys -> JobRows]
  BY DEF LineSound, IInv, TypeOK
<1>5. IInv'
  BY <1>1, ZeroLag, AcceptQuiet, QuietPreserves DEF LineSound
<1>6. ClaimsMove
  BY <1>3, ClaimsSettle
<1>7. \A j \in JobsOf(r) : ~ Present(j)
  BY <1>3 DEF JobsOf, Present, LineSound, IInv, Unborn
<1>8. \A j \in Keys : j # k => jobs'[j] = jobs[j]
  BY <1>3, <1>4
<1>9. jobs'[k].status = "pending"
  BY <1>2, <1>3, <1>4 DEF NewJob, NoJob
<1>10. runs'[r] = "active" /\ \A q \in Runs : q # r => runs'[q] = runs[q]
  BY <1>3, <1>4
<1>11. ASSUME NEW q \in Runs, q # r PROVE RunSoft(q)
  BY <1>2, <1>8, <1>10, <1>11 DEF RunSoft, JobsOf
<1>o. (Others(k))' = {}
  BY <1>2, <1>7, <1>8 DEF Others, Present, JobsOf
<1>12. Leads(k)'
  BY <1>9, <1>o DEF Leads, Present
<1>s. StaysOnTrack(r)
  <2>1. ASSUME Straight PROVE Farthest(k)'
    <3>1. k.stage \in Chart.line
      BY <1>2, <2>1, ChartOrdered DEF Ordered
    <3> QED  BY <1>o, <3>1 DEF Farthest
  <2>2. k \in (JobsOf(r))'
    BY <1>2 DEF JobsOf
  <2> QED  BY <1>9, <1>10, <1>12, <2>1, <2>2 DEF StaysOnTrack, OnTrack
<1>13. RunSound(r)'
  <2>1. \A j \in JobsOf(r) : jobs'[j].status \in {"pending", "absent"}
    BY <1>7, <1>8, <1>9 DEF JobsOf, Present
  <2>2. k \in JobsOf(r)
    BY <1>2 DEF JobsOf
  <2> QED  BY <1>9, <1>10, <1>12, <2>1, <2>2 DEF RunSound, JobsOf
<1>14. Handled(r)'
  <2>1. ASSUME NEW l \in Leases, claims[l].status = "active", claims[l].key.run = r
        PROVE  FALSE
    BY <1>3, <2>1, ActiveClaim DEF LineSound
  <2>2. \A w \in Workers : Working(w) => proc[w].lease \in Leases
    BY WorkerFields DEF LineSound, HoldsLease, Working
  <2> QED  BY <1>1, <1>3, <2>1, <2>2 DEF Handled, KeyOf, Working
<1>15. \A w \in Workers : ~ (Settling(w) /\ SettledRun(w) = r)
  BY <1>3 DEF LineSound, SettlerSound
<1>16. RunSteps(r)
  BY <1>3, <1>13, <1>14, <1>15, <1>s DEF RunSteps, StaysDead
<1> QED  BY <1>1, <1>5, <1>6, <1>10, <1>11, <1>16, StoreOnly DEF RunSteps

-----------------------------------------------------------------------------
\* finish.

\* The status of a finished job, and its stamp.
LEMMA FinishedStatus ==
  ASSUME NEW row \in JobRows, NEW result \in Verdicts, NEW lag \in Lags
  PROVE  LET done == FinishedJob(row, result.outcome, lag) IN
         /\ done.age = lag
         /\ done.status \in Recorded(result.outcome) \ {"running", "absent", "retry", "cancelled"}
<1>1. result.outcome \in {"success", "retry", "replan", "waiting_dependency", "waiting_human", "failed"}
  BY DEF Verdicts, Results, Outcomes
<1>2. CASE result.outcome = "retry"
  <2>1. CASE row.retries < MaxRetries
    <3>1. \A n : [row EXCEPT !.lease = NoLease, !.age = lag, !.status = "pending", !.retries = n].age = lag
      BY DEF JobRows
    <3>2. FinishedJob(row, "retry", lag).status = "pending" /\ FinishedJob(row, "retry", lag).age = lag
      BY <2>1 DEF FinishedJob, JobRows
    <3> QED  BY <1>2, <3>2 DEF Recorded
  <2>2. CASE ~ (row.retries < MaxRetries)
    <3>1. FinishedJob(row, "retry", lag).status = "failed" /\ FinishedJob(row, "retry", lag).age = lag
      BY <2>2 DEF FinishedJob, JobRows
    <3> QED  BY <1>2, <3>1 DEF Recorded
  <2> QED  BY <2>1, <2>2
<1>3. CASE result.outcome = "success"
  BY <1>3 DEF FinishedJob, JobRows, Recorded
<1>4. CASE result.outcome \in {"replan", "waiting_dependency", "waiting_human", "failed"}
  BY <1>4 DEF FinishedJob, JobRows, Recorded
<1> QED  BY <1>1, <1>2, <1>3, <1>4

\* A run none of whose claims is active is calm.
LEMMA ClaimlessCalm ==
  ASSUME LineTypeOK', NEW r \in Runs,
         \A l \in Leases : ~ (claims'[l].status = "active" /\ claims'[l].key.run = r)
  PROVE  Calm(r)' /\ Handled(r)'
<1>1. ASSUME NEW w \in Workers, Working(w)' PROVE proc'[w].lease \in Leases
  <2>1. PICK p \in WorkerStates : p = proc'[w]
    BY DEF LineTypeOK
  <2> QED  BY <1>1, <2>1, Fields DEF Working
<1> QED  BY <1>1 DEF Calm, Handled, KeyOf

\* A worker finishes its job and goes on to settle it.
LEMMA FinishingSteps ==
  ASSUME Timely, LineSound, NEW w \in Workers, NEW result \in Given, NEW l \in Leases,
         NEW lag \in Lags, proc[w].pc = "returned", l = proc[w].lease, lag = proc[w].since,
         Finish(l, result.outcome, lag), offer' = offer,
         NEW STATE s, s \in WorkerStates, s.pc \in {"bounce", "resolved"}, s.lease = l,
         s.since = lag, s.result = result, Goto(w, s)
  PROVE  LineStep
<1>1. PICK k \in Keys : k = claims[l].key
  BY RowTimes DEF LineSound
<1>2. claims[l].status = "active"
  BY DEF Finish, CanFinish, Holds
<1>3. /\ jobs[k].status = "running" /\ jobs[k].lease = l /\ k.run \in Runs
      /\ Open(k) /\ Leads(k) /\ runs[k.run] = "active"
  BY <1>1, <1>2, ClaimLeads
<1>4. PICK r \in Runs : r = k.run
  BY <1>3
<1>5. result \in Verdicts /\ result \in Results /\ result.outcome \in Outcomes
  BY GivenVerdicts DEF Verdicts, Results, Outcomes
<1>6. IInv'
  BY <1>5, FinishQuiet, QuietPreserves DEF LineSound
<1>7. /\ jobs' = [jobs EXCEPT ![k] = FinishedJob(jobs[k], result.outcome, lag)]
      /\ claims' = [claims EXCEPT ![l] = Closed(claims[l], "released")]
      /\ runs' = runs
  BY <1>1 DEF Finish, Timely
<1>8. /\ jobs \in [Keys -> JobRows] /\ claims \in [Leases -> ClaimRows]
      /\ \A j \in Keys : jobs[j] \in JobRows
  BY DEF LineSound, IInv, TypeOK
<1>9. /\ jobs'[k].age = lag /\ jobs'[k].status \in Recorded(result.outcome)
      /\ jobs'[k].status \notin {"running", "absent", "retry", "cancelled"}
  <2>1. jobs'[k] = FinishedJob(jobs[k], result.outcome, lag)
    BY <1>7, <1>8
  <2> QED  BY <1>5, <1>8, <2>1, FinishedStatus
<1>10. \A j \in Keys : j # k => jobs'[j] = jobs[j]
  BY <1>7, <1>8
<1>11. /\ claims'[l].status = "released" /\ claims'[l].key = k
       /\ \A m \in Leases \ {l} : claims'[m] = claims[m]
  BY <1>1, <1>7, <1>8, ClosedRows
<1>12. ClaimsMove
  BY <1>1, <1>2, <1>11, ClaimsSettle
<1>14. LineTypeOK' /\ Moved(w, s)
  BY GotoMoves
<1>15. /\ proc'[w].pc \in {"bounce", "resolved"} /\ proc'[w].lease = l /\ proc'[w].since = lag
       /\ proc'[w].result = result
  BY <1>14 DEF Moved
<1>16. ASSUME NEW m \in Leases, claims'[m].status = "active", claims'[m].key.run = r
       PROVE  FALSE
  <2>1. m # l /\ claims[m].status = "active" /\ claims[m].key.run = k.run
    BY <1>4, <1>11, <1>16
  <2>2. PICK i \in Keys : i = claims[m].key
    BY RowTimes DEF LineSound
  <2>3. Leads(i) /\ jobs[i].lease = m
    BY <2>1, <2>2, ClaimLeads
  <2>4. i = k
    BY <1>3, <2>1, <2>2, <2>3, OneLeader DEF LineSound
  <2> QED  BY <1>3, <2>1, <2>3, <2>4
<1>17. Calm(r)' /\ Handled(r)'
  BY <1>14, <1>16, ClaimlessCalm
<1>18. lag \in Nat /\ lag =< MaxLag /\ lag > MaxPollLag /\ MaxPollLag \in Nat
  BY RowTimes DEF LineSound, WorkerSound
<1>19. ASSUME NEW j \in Others(k)
       PROVE  ~ Open(j) /\ jobs[j].age > lag /\ jobs[j].age > MaxPollLag /\ jobs'[j] = jobs[j]
  <2>1. ~ Open(j) /\ jobs[j].age > MaxPollLag /\ jobs'[j] = jobs[j]
    BY <1>3, <1>10, <1>19 DEF Leads, Others
  <2>2. Working(w) /\ KeyOf(w) = k
    BY <1>1 DEF Working, KeyOf
  <2>3. jobs[j].age > lag
    BY <1>2, <1>4, <1>19, <2>2 DEF LineSound, Handled
  <2> QED  BY <2>1, <2>3
<1>20. Leads(k)'
  <2>1. (Others(k))' = Others(k)
    BY <1>10 DEF Others, Present
  <2>2. \A j \in Others(k) : ~ Open(j)'
    BY <1>19 DEF Open
  <2>3. Present(k)'
    BY <1>9 DEF Present
  <2>4. ASSUME NEW j \in (Others(k))'
        PROVE  ~ Open(j)' /\ jobs'[j].age > (IF Open(k)' THEN MaxPollLag ELSE jobs'[k].age)
    <3>1. j \in Others(k) /\ ~ Open(j)'
      BY <2>1, <2>2, <2>4
    <3>2. jobs'[j].age > MaxPollLag /\ jobs'[j].age > jobs'[k].age
      BY <1>9, <1>19, <3>1
    <3> QED  BY <3>1, <3>2
  <2> QED  BY <2>3, <2>4 DEF Leads
<1>21. RunSound(r)'
  <2>1. k \in JobsOf(r) /\ runs'[r] = "active"
    BY <1>3, <1>4, <1>7 DEF JobsOf
  <2>2. \A j \in JobsOf(r) : jobs'[j].status # "cancelled"
    BY <1>3, <1>4, <1>9, <1>10 DEF JobsOf, LineSound, RunSound
  <2>3. jobs'[k].status # "retry"
    BY <1>9
  <2> QED  BY <1>20, <2>1, <2>2, <2>3 DEF RunSound, JobsOf
<1>22. \A v \in Workers : ~ (Settling(v) /\ SettledRun(v) = r)
  <2>1. ~ Calm(r)
    BY <1>1, <1>2, <1>4 DEF Calm, Working
  <2> QED  BY <2>1 DEF LineSound, SettlerSound
<1>s. StaysOnTrack(r)
  <2> SUFFICES ASSUME Straight, OnTrack(r) PROVE OnTrack(r)'
    BY DEF StaysOnTrack
  <2>1. runs'[r] = "active" /\ runs[r] = "active"
    BY <1>3, <1>4, <1>7
  <2>2. \A j \in JobsOf(r) : jobs[j].status \in {"succeeded", "failed"} =>
                               jobs'[j].status = jobs[j].status
    BY <1>3, <1>10 DEF JobsOf
  <2>3. Decided(r) => Decided(r)'
    BY <2>2, DecidedKeeps
  <2>4. ASSUME ~ Decided(r)
        PROVE  Farthest(k)' /\ jobs'[k].status # "replan" /\ k \in (JobsOf(r))'
    <3>1. PICK t \in JobsOf(r) : Leads(t) /\ Farthest(t)
      BY <2>1, <2>4 DEF OnTrack
    <3>2. t \in Keys /\ t.run = k.run
      BY <1>4 DEF JobsOf
    <3>3. t = k
      BY <1>3, <3>1, <3>2, OneLeader DEF LineSound
    <3>4. (Others(k))' = Others(k)
      BY <1>10, <1>9, <1>3 DEF Others, Present
    <3>5. result.outcome # "replan"
      BY GivenVerdicts
    <3>6. jobs'[k].status # "replan"
      BY <1>9, <3>5 DEF Recorded
    <3> QED  BY <1>4, <3>1, <3>3, <3>4, <3>6 DEF Farthest, JobsOf
  <2> QED  BY <1>20, <2>1, <2>3, <2>4 DEF OnTrack
<1>23. \A q \in Runs : RunSteps(q)
  <2>1. RunSteps(r)
    BY <1>3, <1>4, <1>17, <1>21, <1>22, <1>s DEF RunSteps, StaysDead
  <2>2. ASSUME NEW q \in Runs, q # r PROVE RunSoft(q)
    BY <1>4, <1>7, <1>10, <2>2 DEF RunSoft, JobsOf
  <2> QED  BY <2>1, <2>2 DEF RunSteps
<1>24. KeyOf(w)' = k /\ SettledRun(w)' = r
  BY <1>4, <1>11, <1>15 DEF KeyOf, SettledRun
<1>25. ResolvedSound(w)'
  <2>1. ASSUME NEW v \in Workers, Settling(v)', SettledRun(v)' = r, v # w
        PROVE  FALSE
    <3>1. proc'[v] = proc[v] /\ Settling(v)
      BY <1>14, <2>1 DEF Moved, Settling
    <3>2. SettledRun(v)' = SettledRun(v)
      BY <1>12, <3>1, SettlerStays
    <3> QED  BY <1>22, <2>1, <3>1, <3>2
  <2>2. runs'[r] = "active"
    BY <1>3, <1>4, <1>7
  <2> QED  BY <1>4, <1>9, <1>15, <1>18, <1>20, <1>24, <2>1, <2>2 DEF ResolvedSound
<1>26. SettlerSound(w)' /\ WorkerSound(w)'
  <2>1. runs'[r] = "active"
    BY <1>3, <1>4, <1>7
  <2> QED  BY <1>11, <1>15, <1>17, <1>24, <1>25, <2>1 DEF SettlerSound, WorkerSound, HoldsLease, Finished
<1>27. ASSUME NEW v \in Workers, Finished(v)
       PROVE  KeyOf(v).run # r
  <2>1. Settling(v)
    BY <1>27 DEF Settling, Finished
  <2> QED  BY <1>22, <1>27, <2>1, SettlerFacts
<1>28. Turns(w) /\ \A v \in Workers \ {w} : Eases(v)
  BY <1>14, <1>15, <1>24, <1>26, <1>27 DEF Turns, Settling, Moved, Eases
<1>29. OfferSound'
  BY <1>7, OfferStays
<1> QED  BY <1>6, <1>12, <1>14, <1>23, <1>28, <1>29 DEF LineStep

\* A worker's finish keeps the line, whether it was fenced out, wrote or found the run cancelled.
LEMMA FinishSteps ==
  ASSUME Timely, LineSound, NEW w \in Workers, FinishStep(w)
  PROVE  LineStep
<1>1. proc[w].pc = "returned" /\ offer' = offer
  BY DEF FinishStep
<1>2. PICK l \in Leases : l = proc[w].lease
  BY <1>1, WorkerFields DEF LineSound, HoldsLease
<1>3. PICK lag \in Lags : lag = proc[w].since
  BY <1>1, WorkerFields DEF LineSound, Working
<1>4. PICK p \in WorkerStates : p = proc[w]
  BY DEF LineSound, LineTypeOK
<1>5. p.result \in Given /\ Failure \in Given
  BY <1>1, <1>4 DEF LineSound, WorkerSound, Given
<1>6. ASSUME NEW result \in {p.result, Failure}, Finish(l, result.outcome, lag),
             result.target # NoStage, Goto(w, [p EXCEPT !.pc = "bounce", !.since = lag])
      PROVE  LineStep
  <2>1. p \in [pc : {"returned", "bounce"}, lease : Leases, since : Lags, result : Results]
    BY <1>1, <1>4, Shapes
  <2>2. PICK s : s = [p EXCEPT !.pc = "bounce", !.since = lag]
    OBVIOUS
  <2>3. s \in WorkerStates /\ s.pc = "bounce" /\ s.lease = l /\ s.since = lag /\ s.result = p.result
    BY <1>2, <1>4, <2>1, <2>2 DEF WorkerStates
  <2>4. result = p.result /\ result \in Given
    BY <1>5, <1>6 DEF Failure, Parking
  <2> QED  BY <1>1, <1>2, <1>3, <1>6, <2>2, <2>3, <2>4, FinishingSteps
<1>7. ASSUME NEW result \in {p.result, Failure}, Finish(l, result.outcome, lag),
             Goto(w, [pc |-> "resolved", lease |-> l, since |-> lag, result |-> result, top |-> -1])
      PROVE  LineStep
  <2>1. PICK s : s = [pc |-> "resolved", lease |-> l, since |-> lag, result |-> result, top |-> -1]
    OBVIOUS
  <2>2. result \in Given /\ result \in Verdicts /\ -1 \in -1 .. MaxIteration
    BY <1>5, GivenVerdicts, SuccessorsAssumption
  <2>3. s \in WorkerStates /\ s.pc = "resolved" /\ s.lease = l /\ s.since = lag /\ s.result = result
    BY <2>1, <2>2 DEF WorkerStates, Verdicts
  <2> QED  BY <1>1, <1>2, <1>3, <1>7, <2>1, <2>2, <2>3, FinishingSteps
<1>8. CASE Goto(w, Idle) /\ UNCHANGED vars
  BY <1>1, <1>8, StoreSoft, GoesIdle
<1>9. CASE \E result \in {p.result, Failure} :
             /\ Finish(l, result.outcome, lag)
             /\ Goto(w, IF result.target # NoStage
                        THEN [p EXCEPT !.pc = "bounce", !.since = lag]
                        ELSE [pc |-> "resolved", lease |-> l, since |-> lag, result |-> result,
                              top |-> -1])
  <2>1. PICK result \in {p.result, Failure} :
             /\ Finish(l, result.outcome, lag)
             /\ Goto(w, IF result.target # NoStage
                        THEN [p EXCEPT !.pc = "bounce", !.since = lag]
                        ELSE [pc |-> "resolved", lease |-> l, since |-> lag, result |-> result,
                              top |-> -1])
    BY <1>9
  <2> QED  BY <1>6, <1>7, <2>1
<1> QED  BY <1>2, <1>3, <1>4, <1>8, <1>9 DEF FinishStep, Timely

\* The highest iteration of a stage that is recorded is an iteration.
LEMMA TopInRange ==
  ASSUME NEW r \in Runs, NEW stage
  PROVE  TopIteration(r, stage) \in -1 .. MaxIteration
<1> DEFINE present == {k.iteration : k \in {j \in JobsOf(r) : /\ j.stage = stage
                                                             /\ jobs[j].status # "absent"}}
<1>1. MaxIteration \in Nat
  BY SuccessorsAssumption
<1>2. present \subseteq 0 .. MaxIteration
  BY DEF JobsOf, Keys
<1>3. ASSUME present # {}
      PROVE  \E i \in present : \A j \in present : j =< i
  <2> DEFINE Far == {MaxIteration - i : i \in present}
  <2>1. Far \subseteq Nat /\ Far # {}
    BY <1>1, <1>2, <1>3
  <2>2. PICK least \in Far : \A n \in Far : least =< n
    BY <2>1, Least
  <2>3. PICK i \in present : least = MaxIteration - i
    OBVIOUS
  <2>4. ASSUME NEW j \in present PROVE j =< i
    <3>1. least =< MaxIteration - j
      BY <2>2
    <3> QED  BY <1>1, <1>2, <2>3, <3>1
  <2> QED  BY <2>4
<1> HIDE DEF present
<1>4. CASE present = {}
  BY <1>1, <1>4 DEF TopIteration, present
<1>5. CASE present # {}
  <2>1. TopIteration(r, stage) = CHOOSE i \in present : \A j \in present : j =< i
    BY <1>5 DEF TopIteration, present
  <2>2. TopIteration(r, stage) \in present
    BY <1>3, <1>5, <2>1
  <2>3. \A i \in 0 .. MaxIteration : i \in -1 .. MaxIteration
    BY <1>1
  <2> QED  BY <1>2, <2>2, <2>3
<1> QED  BY <1>4, <1>5

-----------------------------------------------------------------------------
\* materialize_result.

Waits == {"waiting_human", "waiting_dependency"}

\* A result has one successor at most.
LEMMA OneSuccessor ==
  ASSUME Timely, NEW k \in Keys, NEW result \in Verdicts, NEW top, NEW over
  PROVE  /\ \A s, t \in SuccessorKeys(k, result, top, over) : s = t
         /\ result.outcome \in Waits => SuccessorKeys(k, result, top, over) = {}
<1>1. result.outcome \in Waits => SuccessorKeys(k, result, top, over) = {}
  BY DEF SuccessorKeys, EmitRetrospective, LoopCap, When, Waits
<1>2. ASSUME NEW s \in SuccessorKeys(k, result, top, over), NEW t \in SuccessorKeys(k, result, top, over)
      PROVE  s = t
  <2> DEFINE onward == [k EXCEPT !.stage = PRODUCTIVE_DAG[k.stage]]
             again  == RetryKey(k, result, top)
             anew   == [k EXCEPT !.stage = "planning", !.iteration = 0]
             last   == [k EXCEPT !.stage = "retrospective", !.iteration = 0]
             cap    == CapExceeded(k, result, top, over)
             emit   == EmitRetrospective(k, result, top, over)
  <2>0. /\ emit => \/ result.outcome = "success" /\ k.stage = "build_deploy"
                   \/ result.outcome = "failed"
                   \/ result.outcome = "retry" /\ cap
        /\ k.stage = "build_deploy" => k.stage \notin DOMAIN PRODUCTIVE_DAG
    BY DEF EmitRetrospective, LoopCap, Timely
  <2>1. ASSUME NEW j \in SuccessorKeys(k, result, top, over)
        PROVE  \/ result.outcome = "success" /\ k.stage \in DOMAIN PRODUCTIVE_DAG /\ j = onward
               \/ result.outcome = "retry" /\ ~ cap /\ j = again
               \/ result.outcome = "replan" /\ j = anew
               \/ emit /\ j = last
    <3>1. \/ j \in When(result.outcome = "success" /\ k.stage \in DOMAIN PRODUCTIVE_DAG, onward)
          \/ j \in When(result.outcome = "retry" /\ ~ cap, again)
          \/ j \in When(result.outcome = "replan", anew)
          \/ j \in When(emit, last)
      BY <2>1 DEF SuccessorKeys
    <3> HIDE DEF onward, again, anew, last, cap, emit
    <3> QED  BY <3>1 DEF When
  <2> HIDE DEF onward, again, anew, last, cap, emit
  <2>2. \/ result.outcome = "success" /\ k.stage \in DOMAIN PRODUCTIVE_DAG /\ s = onward
        \/ result.outcome = "retry" /\ ~ cap /\ s = again
        \/ result.outcome = "replan" /\ s = anew
        \/ emit /\ s = last
    BY <1>2, <2>1
  <2>3. \/ result.outcome = "success" /\ k.stage \in DOMAIN PRODUCTIVE_DAG /\ t = onward
        \/ result.outcome = "retry" /\ ~ cap /\ t = again
        \/ result.outcome = "replan" /\ t = anew
        \/ emit /\ t = last
    BY <1>2, <2>1
  <2> QED  BY <2>0, <2>2, <2>3
<1> QED  BY <1>1, <1>2

\* The status a result is recorded with.
LEMMA RecordedStatus ==
  ASSUME NEW k \in Keys, NEW result \in Verdicts, NEW top, NEW over
  PROVE  LET status == DbStatus(k, result, top, over) IN
         IF result.outcome \in Waits THEN status = result.outcome
         ELSE status \in {"succeeded", "failed", "retry", "replan"}
<1>1. result.outcome \in {"success", "retry", "replan", "failed"} \cup Waits
  BY DEF Verdicts, Results, Outcomes, Waits
<1>2. CASE result.outcome \in Waits
  BY <1>2 DEF DbStatus, LoopCap, Waits
<1>3. CASE result.outcome \in {"success", "retry", "replan", "failed"}
  BY <1>3 DEF DbStatus, LoopCap, Waits
<1> QED  BY <1>1, <1>2, <1>3

\* What materialize_result writes for a job that is in the table.
Materialized(k, lag, status, succs) ==
  /\ IInv' /\ ClaimsMove
  /\ \A l \in Leases : claims'[l].status = "active" =>
       claims'[l] = claims[l] /\ (jobs[k].status \in {"pending", "running"} => l # jobs[k].lease)
  /\ jobs[k].status \notin {"pending", "running"} => claims' = claims
  /\ succs \subseteq Keys /\ \A s \in succs : s.run = k.run
  /\ \A j \in Keys : j # k /\ ~ (j \in succs /\ ~ Present(j)) => jobs'[j] = jobs[j]
  /\ \A j \in succs : j # k /\ ~ Present(j) => jobs'[j].status = "pending" /\ jobs'[j].age = lag
  /\ IF jobs[k].status \in {"pending", "running"}
     THEN jobs'[k].status = status /\ jobs'[k].age = lag
     ELSE jobs'[k] = jobs[k]
  /\ \A q \in Runs : q # k.run => runs'[q] = runs[q]
  /\ IF HasOpen(jobs', k.run) THEN runs' = runs ELSE runs'[k.run] \in {"failed", "completed"}
  /\ ~ HasOpen(jobs', k.run) => (runs'[k.run] = "failed" <=> HasFailed(jobs', k.run))

\* The transaction does.
LEMMA Materializes ==
  ASSUME LineSound, NEW k \in Keys, NEW result \in Verdicts, NEW lag \in Lags,
         NEW top \in Int, NEW over \in BOOLEAN,
         Present(k), MaterializeResult(k, result, top, over, lag)
  PROVE  Materialized(k, lag, DbStatus(k, result, top, over), SuccessorKeys(k, result, top, over))
<1> DEFINE succs == SuccessorKeys(k, result, top, over)
           st == DbStatus(k, result, top, over)
<1>1. result \in Results
  BY DEF Verdicts
<1>2. /\ k.run \in Runs /\ jobs \in [Keys -> JobRows] /\ \A j \in Keys : jobs[j] \in JobRows
      /\ claims \in [Leases -> ClaimRows] /\ runs \in [Runs -> RunStatuses]
  BY RowParts DEF LineSound, IInv, TypeOK
<1>3. runs[k.run] # "absent"
  BY BornRun DEF LineSound, Present
<1>4. IInv'
  BY <1>1, <1>3, MaterializeQuiet, QuietPreserves DEF LineSound
<1>5. succs \subseteq Keys /\ jobs' = MaterializedJobs(k, result, top, over, lag)
  BY DEF MaterializeResult
<1>6. \A s \in succs : s.run = k.run
  BY SuccessorsOfRun
<1>7. ASSUME NEW j \in Keys, j # k, ~ (j \in succs /\ ~ Present(j))
      PROVE  jobs'[j] = jobs[j]
  BY <1>5, <1>7 DEF MaterializedJobs, Present
<1>8. ASSUME NEW j \in succs, j # k, ~ Present(j)
      PROVE  jobs'[j].status = "pending" /\ jobs'[j].age = lag
  <2>1. j \in Keys /\ \E g : jobs'[j] = NewJob("pending", g, lag)
    BY <1>5, <1>8 DEF MaterializedJobs, Present
  <2> QED  BY <2>1 DEF NewJob, NoJob
<1>9. IF jobs[k].status \in {"pending", "running"}
      THEN jobs'[k].status = st /\ jobs'[k].age = lag
      ELSE jobs'[k] = jobs[k]
  <2>1. CASE jobs[k].status \in {"pending", "running"}
    <3>1. jobs'[k] = [jobs[k] EXCEPT !.status = st, !.lease = NoLease, !.age = lag]
      BY <1>5, <2>1 DEF MaterializedJobs
    <3> QED  BY <1>2, <2>1, <3>1 DEF JobRows
  <2>2. CASE jobs[k].status \notin {"pending", "running"}
    BY <1>5, <2>2 DEF MaterializedJobs, Present
  <2> QED  BY <2>1, <2>2
<1>10. claims' = [l \in Leases |->
                    IF jobs[k].status \in {"pending", "running"} /\ l = jobs[k].lease
                    THEN Closed(claims[l], "released")
                    ELSE claims[l]]
  BY DEF MaterializeResult
<1>11. ASSUME NEW l \in Leases
       PROVE  \/ claims'[l] = claims[l] /\ (jobs[k].status \in {"pending", "running"} => l # jobs[k].lease)
              \/ /\ claims[l].status = "active"
                 /\ claims'[l].status = "released" /\ claims'[l].key = claims[l].key
                 /\ jobs[k].status \in {"pending", "running"}
  <2>1. CASE jobs[k].status \in {"pending", "running"} /\ l = jobs[k].lease
    <3>1. jobs[k].status = "running" /\ claims[l].status = "active"
      BY <2>1, StoreAssumption DEF LineSound, IInv, RunningIsLeased
    <3> QED  BY <1>2, <1>10, <2>1, <3>1, ClosedRows
  <2>2. CASE ~ (jobs[k].status \in {"pending", "running"} /\ l = jobs[k].lease)
    BY <1>10, <2>2
  <2> QED  BY <2>1, <2>2
<1>12. ClaimsMove
  BY <1>11, ClaimsSettle
<1>13. jobs[k].status \notin {"pending", "running"} => claims' = claims
  BY <1>2, <1>10
<1>14. /\ \A q \in Runs : q # k.run => runs'[q] = runs[q]
       /\ IF HasOpen(jobs', k.run) THEN runs' = runs ELSE runs'[k.run] \in {"failed", "completed"}
       /\ ~ HasOpen(jobs', k.run) => (runs'[k.run] = "failed" <=> HasFailed(jobs', k.run))
  <2>1. runs' = IF HasOpen(jobs', k.run) THEN runs
                ELSE [runs EXCEPT ![k.run] = IF HasFailed(jobs', k.run) THEN "failed" ELSE "completed"]
    BY <1>5 DEF MaterializeResult
  <2> QED  BY <1>2, <2>1
<1> HIDE DEF succs, st
<1>15. /\ \A l \in Leases : claims'[l].status = "active" =>
            claims'[l] = claims[l] /\ (jobs[k].status \in {"pending", "running"} => l # jobs[k].lease)
  BY <1>11
<1>16. Materialized(k, lag, st, succs)
  BY <1>4, <1>5, <1>6, <1>7, <1>8, <1>9, <1>12, <1>13, <1>14, <1>15 DEF Materialized
<1> QED  BY <1>16 DEF succs, st

\* What a materialization leaves of a run that is led by its job.
LEMMA Follows ==
  ASSUME Timely, LineSound, NEW k \in Keys, NEW result \in Verdicts, NEW lag \in Lags,
         NEW top \in Int, NEW over \in BOOLEAN,
         runs[k.run] = "active", Leads(k),
         jobs[k].status \in Recorded(result.outcome) \cup {result.outcome},
         ~ Open(k) => jobs[k].age > MaxPollLag,
         jobs[k].status \in {"pending", "running"} => lag > MaxPollLag,
         MaterializeResult(k, result, top, over, lag)
  PROVE  /\ RunSound(k.run)' /\ runs'[k.run] \notin {"absent", "cancelled"}
         /\ \A l \in Leases : ~ (claims'[l].status = "active" /\ claims'[l].key.run = k.run)
         /\ ~ Open(k) => /\ Busy(k.run)'
                        /\ \A s \in SuccessorKeys(k, result, top, over) : s \in Keys /\ Present(s)'
<1> DEFINE succs == SuccessorKeys(k, result, top, over)
           status == DbStatus(k, result, top, over)
<1>1. PICK r \in Runs : r = k.run
  BY RowTimes DEF LineSound
<1>2. k \in JobsOf(r) /\ Present(k)
  BY <1>1 DEF JobsOf, Leads
<1>m. Materialized(k, lag, status, succs)
  BY <1>2, Materializes
<1> HIDE DEF succs, status
<1>3. /\ succs \subseteq Keys /\ \A s \in succs : s \in JobsOf(r)
      /\ \A j \in Keys : j # k /\ ~ (j \in succs /\ ~ Present(j)) => jobs'[j] = jobs[j]
      /\ \A j \in succs : j # k /\ ~ Present(j) => jobs'[j].status = "pending" /\ jobs'[j].age = lag
      /\ IF jobs[k].status \in {"pending", "running"}
         THEN jobs'[k].status = status /\ jobs'[k].age = lag
         ELSE jobs'[k] = jobs[k]
      /\ IF HasOpen(jobs', r) THEN runs' = runs ELSE runs'[r] \in {"failed", "completed"}
  BY <1>1, <1>m DEF JobsOf, Materialized
<1>4. ASSUME NEW l \in Leases, claims'[l].status = "active", claims'[l].key.run = r
      PROVE  FALSE
  <2>1. claims[l].status = "active" /\ claims[l].key.run = k.run
        /\ (jobs[k].status \in {"pending", "running"} => l # jobs[k].lease)
    BY <1>1, <1>4, <1>m DEF Materialized
  <2>2. PICK i \in Keys : i = claims[l].key
    BY RowTimes DEF LineSound
  <2>3. Leads(i) /\ jobs[i].lease = l /\ jobs[i].status = "running"
    BY <2>1, <2>2, ClaimLeads
  <2>4. i = k
    BY <2>1, <2>2, <2>3, OneLeader DEF LineSound
  <2> QED  BY <2>1, <2>3, <2>4
<1>5. MaxPollLag \in Nat /\ \A j \in Keys : jobs[j].age \in Nat
  BY RowTimes DEF LineSound
<1>6. ASSUME NEW j \in JobsOf(r), j # k, Present(j)
      PROVE  ~ Open(j) /\ jobs[j].age > MaxPollLag /\ jobs'[j] = jobs[j]
  <2>1. j \in Keys /\ j \in Others(k)
    BY <1>1, <1>6 DEF JobsOf, Others
  <2>2. ~ Open(j) /\ jobs[j].age > (IF Open(k) THEN MaxPollLag ELSE jobs[k].age)
    BY <2>1 DEF Leads
  <2>3. jobs[j].age > MaxPollLag
    BY <1>5, <2>1, <2>2
  <2>4. jobs'[j] = jobs[j]
    BY <1>3, <1>6, <2>1
  <2> QED  BY <2>2, <2>3, <2>4
<1>7. ASSUME NEW j \in JobsOf(r), ~ Present(j)
      PROVE  ~ Open(j) /\ jobs[j].status # "cancelled"
  BY <1>7 DEF Present, Open, RUN_OPEN_JOB_STATUSES
<1>8. ASSUME NEW j \in JobsOf(r) PROVE jobs[j].status # "cancelled"
  BY <1>1 DEF LineSound, RunSound
<1>9. CASE result.outcome \in Waits
  <2>1. succs = {}
    BY <1>9, OneSuccessor DEF succs
  <2>2. \A j \in Keys : j # k => jobs'[j] = jobs[j]
    BY <1>3, <2>1
  <2>3. Open(k) /\ jobs'[k].status \in Waits
    <3>1. jobs[k].status \in {result.outcome, "pending", "running"}
      BY <1>9 DEF Recorded, Waits
    <3>2. status = result.outcome
      BY <1>9, RecordedStatus DEF status
    <3> QED  BY <1>3, <1>9, <3>1, <3>2 DEF Waits, Open, RUN_OPEN_JOB_STATUSES
  <2>4. Open(k)' /\ Present(k)'
    BY <2>3 DEF Open, Present, Waits, RUN_OPEN_JOB_STATUSES
  <2>5. HasOpen(jobs', r)
    BY <1>2, <2>4 DEF HasOpen, Open
  <2>6. runs'[r] = "active"
    BY <1>1, <1>3, <2>5
  <2>7. Leads(k)'
    <3>1. (Others(k))' = Others(k)
      BY <2>2 DEF Others, Present
    <3>2. \A j \in Others(k) : ~ Open(j)' /\ jobs'[j].age > MaxPollLag
      BY <1>1, <1>6 DEF Others, JobsOf, Open
    <3> QED  BY <2>4, <3>1, <3>2 DEF Leads
  <2>8. \A j \in JobsOf(r) : jobs'[j].status # "cancelled"
    BY <1>8, <2>2, <2>3 DEF JobsOf, Waits
  <2>9. jobs'[k].status # "retry"
    BY <2>3 DEF Waits
  <2>10. RunSound(r)'
    BY <1>2, <2>6, <2>7, <2>8, <2>9 DEF RunSound, JobsOf
  <2> QED  BY <1>1, <1>4, <2>3, <2>6, <2>10
<1>10. CASE result.outcome \notin Waits
  <2>1. jobs'[k].status \in {"succeeded", "failed", "retry", "replan"} /\ jobs'[k].age > MaxPollLag
    <3>1. CASE jobs[k].status \in {"pending", "running"}
      <4>1. status \in {"succeeded", "failed", "retry", "replan"}
        BY <1>10, RecordedStatus DEF status
      <4> QED  BY <1>3, <3>1, <4>1
    <3>2. CASE jobs[k].status \notin {"pending", "running"}
      <4>1. result.outcome \in {"success", "failed", "retry", "replan"}
        BY <1>10 DEF Waits, Verdicts, Results, Outcomes
      <4>2. jobs[k].status \in JobStatuses
        BY RowTimes DEF LineSound
      <4>3. jobs[k].status \in {"succeeded", "failed", "retry", "replan"}
        BY <3>2, <4>1, <4>2 DEF Recorded, JobStatuses, RUN_OPEN_JOB_STATUSES, SettledJobStatuses
      <4>4. ~ Open(k)
        BY <4>3 DEF Open, RUN_OPEN_JOB_STATUSES
      <4> QED  BY <1>3, <3>2, <4>3, <4>4
    <3> QED  BY <3>1, <3>2
  <2>2. ~ Open(k)' /\ Present(k)'
    BY <2>1 DEF Open, Present, RUN_OPEN_JOB_STATUSES
  <2>3. CASE \E s \in succs : s # k /\ ~ Present(s)
    <3>1. PICK s \in succs : s # k /\ ~ Present(s)
      BY <2>3
    <3>2. s \in JobsOf(r) /\ s \in Keys /\ s.run = r /\ jobs'[s].status = "pending" /\ jobs'[s].age = lag
      BY <1>3, <3>1 DEF JobsOf
    <3>3. \A j \in succs : j = s
      BY OneSuccessor DEF succs
    <3>4. \A j \in Keys : j \notin {k, s} => jobs'[j] = jobs[j]
      BY <1>3, <3>3
    <3>5. Open(s)' /\ Present(s)'
      BY <3>2 DEF Open, Present, RUN_OPEN_JOB_STATUSES
    <3>6. HasOpen(jobs', r)
      BY <3>2, <3>5 DEF HasOpen, Open
    <3>7. runs'[r] = "active"
      BY <1>1, <1>3, <3>6
    <3>8. Leads(s)'
      <4>1. ASSUME NEW j \in (Others(s))' PROVE ~ Open(j)' /\ jobs'[j].age > MaxPollLag
        <5>1. j \in JobsOf(r) /\ j \in Keys /\ j # s /\ Present(j)'
          BY <3>2, <4>1 DEF Others, JobsOf
        <5>2. CASE j = k
          BY <2>1, <2>2, <5>2
        <5>3. CASE j # k
          <6>1. jobs'[j] = jobs[j] /\ Present(j)
            BY <3>4, <5>1, <5>3 DEF Present
          <6> QED  BY <1>6, <5>1, <5>3, <6>1 DEF Open
        <5> QED  BY <5>2, <5>3
      <4> QED  BY <3>5, <4>1 DEF Leads
    <3>9. \A j \in JobsOf(r) : jobs'[j].status # "cancelled"
      BY <1>8, <2>1, <3>2, <3>4 DEF JobsOf
    <3>10. RunSound(r)'
      BY <3>2, <3>7, <3>8, <3>9 DEF RunSound, JobsOf
    <3>11. Busy(r)'
      BY <3>6 DEF Busy, HasOpen, JobsOf
    <3>12. \A j \in succs : j \in Keys /\ Present(j)'
      BY <1>3, <3>3, <3>5
    <3> QED  BY <1>1, <1>4, <3>7, <3>10, <3>11, <3>12 DEF succs
  <2>4. CASE ~ \E s \in succs : s # k /\ ~ Present(s)
    <3>1. \A j \in Keys : j # k => jobs'[j] = jobs[j]
      BY <1>3, <2>4
    <3>2. \A j \in JobsOf(r) : ~ Open(j)'
      <4>1. ASSUME NEW j \in JobsOf(r), j # k PROVE ~ Open(j)'
        <5>1. jobs'[j] = jobs[j] /\ ~ Open(j)
          BY <1>6, <1>7, <3>1, <4>1 DEF JobsOf
        <5> QED  BY <5>1 DEF Open
      <4> QED  BY <2>2, <4>1
    <3>3. ~ HasOpen(jobs', r)
      BY <3>2 DEF HasOpen, Open
    <3>4. runs'[r] \in {"failed", "completed"}
      BY <1>3, <3>3
    <3>5. \A j \in JobsOf(r) : jobs'[j].status # "cancelled"
      BY <1>8, <2>1, <3>1 DEF JobsOf
    <3>6. RunSound(r)'
      BY <3>2, <3>4, <3>5 DEF RunSound, JobsOf
    <3>7. Busy(r)'
      BY <3>4 DEF Busy, Ended
    <3>8. \A s \in succs : s \in Keys /\ Present(s)'
      BY <1>3, <2>2, <2>4, <3>1 DEF Present
    <3> QED  BY <1>1, <1>4, <3>4, <3>6, <3>7, <3>8 DEF succs
  <2> QED  BY <2>3, <2>4
<1> QED  BY <1>9, <1>10

\* The successors of a job on a straight line.
LEMMA StraightSuccessors ==
  ASSUME NEW k \in Keys, NEW result \in Verdicts, result.target = NoStage, NEW top, NEW over
  PROVE  /\ result.outcome = "success" /\ k.stage \in DOMAIN PRODUCTIVE_DAG =>
              [k EXCEPT !.stage = PRODUCTIVE_DAG[k.stage]] \in SuccessorKeys(k, result, top, over)
         /\ result.outcome = "retry" /\ DbStatus(k, result, top, over) # "failed" =>
              [k EXCEPT !.iteration = k.iteration + 1] \in SuccessorKeys(k, result, top, over)
<1>1. ASSUME result.outcome = "success", k.stage \in DOMAIN PRODUCTIVE_DAG
      PROVE  [k EXCEPT !.stage = PRODUCTIVE_DAG[k.stage]] \in SuccessorKeys(k, result, top, over)
  <2> DEFINE s == [k EXCEPT !.stage = PRODUCTIVE_DAG[k.stage]]
  <2>1. s \in When(result.outcome = "success" /\ k.stage \in DOMAIN PRODUCTIVE_DAG, s)
    BY <1>1 DEF When
  <2> QED  BY <2>1 DEF SuccessorKeys
<1>2. ASSUME result.outcome = "retry", DbStatus(k, result, top, over) # "failed"
      PROVE  [k EXCEPT !.iteration = k.iteration + 1] \in SuccessorKeys(k, result, top, over)
  <2> DEFINE s == [k EXCEPT !.iteration = k.iteration + 1]
  <2>1. ~ CapExceeded(k, result, top, over)
    BY <1>2 DEF DbStatus, LoopCap
  <2>2. RetryKey(k, result, top) = s
    BY DEF RetryKey
  <2>3. s \in When(result.outcome = "retry" /\ ~ CapExceeded(k, result, top, over),
                   RetryKey(k, result, top))
    BY <1>2, <2>1, <2>2 DEF When
  <2> QED  BY <2>3 DEF SuccessorKeys
<1> QED  BY <1>1, <1>2

\* A job that comes before another on a straight line: the same job tried again, or the
\* next stage.  Nothing that is present comes after the farthest job.
LEMMA NextIsNew ==
  ASSUME Straight, LineSound, NEW k \in Keys, Farthest(k), NEW s \in Keys,
         \/ /\ k.stage # "build_deploy"
            /\ s = [k EXCEPT !.stage = PRODUCTIVE_DAG[k.stage]]
         \/ s = [k EXCEPT !.iteration = k.iteration + 1]
  PROVE  /\ s # k /\ ~ Present(s) /\ s.run = k.run /\ s.stage \in Chart.line
         /\ \A j \in Others(k) \cup {k} : /\ Chart.rank[j.stage] =< Chart.rank[s.stage]
                                          /\ j.iteration =< s.iteration
<1>1. /\ k.stage \in Stages /\ k.iteration \in Nat /\ s.stage \in Stages /\ s.iteration \in Nat
      /\ \A j \in Keys : j.stage \in Stages /\ j.iteration \in Nat
  BY SuccessorsAssumption DEF Keys
<1>2. /\ Chart.rank \in [Stages -> Nat] /\ Ordered(Chart) /\ k.stage \in Chart.line
  BY ChartOrdered DEF Charts, Farthest
<1>3. PICK rank \in [Stages -> Nat] : rank = Chart.rank
  BY <1>2
<1>4. \A j \in Keys : rank[j.stage] \in Nat
  BY <1>1, <1>3
<1>5. CASE k.stage # "build_deploy" /\ s = [k EXCEPT !.stage = PRODUCTIVE_DAG[k.stage]]
  <2>1. s.run = k.run /\ s.iteration = k.iteration /\ s.stage = PRODUCTIVE_DAG[k.stage]
    BY <1>5 DEF Keys
  <2>2. s.stage \in Chart.line /\ rank[k.stage] < rank[s.stage]
    BY <1>2, <1>3, <1>5, <2>1 DEF Ordered
  <2>3. s # k
    BY <1>4, <2>2
  <2>4. ~ Present(s)
    <3>1. ASSUME Present(s) PROVE FALSE
      <4>1. s \in Others(k)
        BY <2>1, <2>3, <3>1 DEF Others
      <4>2. rank[s.stage] =< rank[k.stage]
        BY <1>3, <4>1 DEF Farthest
      <4> QED  BY <1>4, <2>2, <4>2
    <3> QED  BY <3>1
  <2>5. ASSUME NEW j \in Others(k) \cup {k}
        PROVE  rank[j.stage] =< rank[s.stage] /\ j.iteration =< s.iteration
    <3>1. j \in Keys /\ rank[j.stage] =< rank[k.stage] /\ j.iteration =< k.iteration
      BY <1>1, <1>3, <1>4 DEF Farthest, Others
    <3> QED  BY <1>1, <1>4, <2>1, <2>2, <3>1
  <2> QED  BY <1>3, <2>1, <2>2, <2>3, <2>4, <2>5
<1>6. CASE s = [k EXCEPT !.iteration = k.iteration + 1]
  <2>1. s.run = k.run /\ s.stage = k.stage /\ s.iteration = k.iteration + 1
    BY <1>6 DEF Keys
  <2>2. s # k
    BY <1>1, <2>1
  <2>3. ~ Present(s)
    <3>1. ASSUME Present(s) PROVE FALSE
      <4>1. s \in Others(k)
        BY <2>1, <2>2, <3>1 DEF Others
      <4>2. s.iteration =< k.iteration
        BY <4>1 DEF Farthest
      <4> QED  BY <1>1, <2>1, <4>2
    <3> QED  BY <3>1
  <2>4. ASSUME NEW j \in Others(k) \cup {k}
        PROVE  rank[j.stage] =< rank[s.stage] /\ j.iteration =< s.iteration
    <3>1. j \in Keys /\ rank[j.stage] =< rank[k.stage] /\ j.iteration =< k.iteration
      BY <1>1, <1>3, <1>4 DEF Farthest, Others
    <3> QED  BY <1>1, <2>1, <3>1
  <2> QED  BY <1>2, <1>3, <2>1, <2>2, <2>3, <2>4
<1> QED  BY <1>5, <1>6

\* What follows the leader of a straight run is new, so the run goes on from it, unless it
\* has delivered or failed.
LEMMA FollowsOnTrack ==
  ASSUME Timely, Straight, LineSound, NEW k \in Keys, NEW result \in Verdicts, NEW lag \in Lags,
         NEW top \in Int, NEW over \in BOOLEAN,
         runs[k.run] = "active", Leads(k), OnTrack(k.run),
         jobs[k].status \in Recorded(result.outcome), result.target = NoStage,
         result.outcome = "replan" => jobs[k].status = "replan",
         ~ Open(k) => jobs[k].age > MaxPollLag,
         jobs[k].status \in {"pending", "running"} => lag > MaxPollLag,
         MaterializeResult(k, result, top, over, lag)
  PROVE  OnTrack(k.run)'
<1> DEFINE succs == SuccessorKeys(k, result, top, over)
           status == DbStatus(k, result, top, over)
<1>1. PICK r \in Runs : r = k.run
  BY RowTimes DEF LineSound
<1>2. k \in JobsOf(r) /\ Present(k)
  BY <1>1 DEF JobsOf, Leads
<1>3. Materialized(k, lag, status, succs) /\ RunSound(r)'
  <2>1. Materialized(k, lag, status, succs)
    BY <1>2, Materializes
  <2>2. RunSound(k.run)'
    BY Follows
  <2> QED  BY <1>1, <2>1, <2>2
<1>4. \A s \in succs, t \in succs : s = t
  BY OneSuccessor
<1>5. /\ result.outcome \in Waits => succs = {} /\ status = result.outcome
      /\ result.outcome \notin Waits => status \in {"succeeded", "failed", "retry", "replan"}
  BY OneSuccessor, RecordedStatus
<1>6. /\ result.outcome = "success" /\ k.stage \in DOMAIN PRODUCTIVE_DAG =>
           [k EXCEPT !.stage = PRODUCTIVE_DAG[k.stage]] \in succs
      /\ result.outcome = "retry" /\ status # "failed" =>
           [k EXCEPT !.iteration = k.iteration + 1] \in succs
  BY StraightSuccessors
<1> HIDE DEF succs, status
<1>7. /\ succs \subseteq Keys
      /\ \A j \in Keys : j # k /\ ~ (j \in succs /\ ~ Present(j)) => jobs'[j] = jobs[j]
      /\ \A j \in succs : j # k /\ ~ Present(j) => jobs'[j].status = "pending" /\ jobs'[j].age = lag
      /\ IF jobs[k].status \in {"pending", "running"}
         THEN jobs'[k].status = status /\ jobs'[k].age = lag
         ELSE jobs'[k] = jobs[k]
      /\ IF HasOpen(jobs', r) THEN runs' = runs ELSE runs'[r] \in {"failed", "completed"}
      /\ ~ HasOpen(jobs', r) => (runs'[r] = "failed" <=> HasFailed(jobs', r))
  BY <1>1, <1>3 DEF Materialized
\* Once it is decided the run may go on or end as it likes.
<1>8. ASSUME Decided(r)' PROVE OnTrack(r)'
  <2>1. CASE HasOpen(jobs', r)
    <3>1. runs'[r] = "active"
      BY <1>1, <1>7, <2>1
    <3> QED  BY <1>8, <3>1 DEF OnTrack
  <2>2. CASE ~ HasOpen(jobs', r)
    <3>1. runs'[r] \in {"failed", "completed"} /\ (runs'[r] = "failed" <=> HasFailed(jobs', r))
      BY <1>7, <2>2
    <3>2. HasFailed(jobs, r)' <=> HasFailed(jobs', r)
      BY DEF HasFailed, JobsOf
    <3> QED  BY <1>8, <3>1, <3>2 DEF OnTrack, Decided
  <2> QED  BY <2>1, <2>2
<1>9. CASE Decided(r)
  <2>1. ASSUME NEW j \in JobsOf(r), jobs[j].status \in {"succeeded", "failed"}
        PROVE  jobs'[j].status = jobs[j].status
    <3>1. j \in Keys /\ Present(j)
      BY <2>1 DEF JobsOf, Present
    <3> QED  BY <1>7, <2>1, <3>1
  <2>2. Decided(r)'
    BY <1>9, <2>1, DecidedKeeps
  <2> QED  BY <1>1, <1>8, <2>2
<1>10. CASE ~ Decided(r)
  <2>1. Farthest(k) /\ jobs[k].status # "replan" /\ jobs[k].status # "failed"
    <3>1. PICK t \in JobsOf(r) : Leads(t) /\ Farthest(t) /\ jobs[t].status # "replan"
      BY <1>1, <1>10 DEF OnTrack
    <3>2. t \in Keys /\ t.run = k.run
      BY <1>1 DEF JobsOf
    <3>3. t = k
      BY <3>1, <3>2, OneLeader DEF LineSound
    <3>4. jobs[k].status # "failed"
      BY <1>2, <1>10 DEF Decided, HasFailed
    <3> QED  BY <3>1, <3>3, <3>4
  <2>2. ASSUME jobs'[k].status = "failed" PROVE OnTrack(r)'
    <3>1. Decided(r)'
      BY <1>1, <2>2 DEF Decided, HasFailed, JobsOf
    <3> QED  BY <1>8, <3>1
\* The successor leads the run and is farthest.
  <2>3. ASSUME NEW s \in succs,
               \/ /\ k.stage # "build_deploy"
                  /\ s = [k EXCEPT !.stage = PRODUCTIVE_DAG[k.stage]]
               \/ s = [k EXCEPT !.iteration = k.iteration + 1]
        PROVE  OnTrack(r)'
    <3>1. s \in Keys
      BY <1>7
    <3>2. /\ s # k /\ ~ Present(s) /\ s.run = k.run /\ s.stage \in Chart.line
          /\ \A j \in Others(k) \cup {k} : /\ Chart.rank[j.stage] =< Chart.rank[s.stage]
                                           /\ j.iteration =< s.iteration
      BY <2>1, <2>3, <3>1, NextIsNew
    <3>3. s \in JobsOf(r) /\ jobs'[s].status = "pending"
      BY <1>1, <1>7, <3>1, <3>2 DEF JobsOf
    <3>4. Open(s)' /\ Present(s)' /\ HasOpen(jobs', r)
      BY <3>3 DEF Open, Present, HasOpen, RUN_OPEN_JOB_STATUSES
    <3>5. runs'[r] = "active"
      BY <1>1, <1>7, <3>4
    <3>6. Leads(s)'
      <4>1. PICK t \in (JobsOf(r))' : Leads(t)'
        BY <1>3, <3>5 DEF RunSound
      <4>2. t \in Keys /\ t.run = r
        BY <4>1 DEF JobsOf
      <4>3. ASSUME t # s PROVE FALSE
        <5>1. s \in (Others(t))'
          BY <1>1, <3>1, <3>2, <3>4, <4>2, <4>3 DEF Others
        <5> QED  BY <3>4, <4>1, <5>1 DEF Leads
      <4> QED  BY <4>1, <4>3
    <3>7. Farthest(s)'
      <4>1. ASSUME NEW j \in (Others(s))' PROVE j \in Others(k) \cup {k}
        <5>1. j \in Keys /\ j.run = k.run /\ j # s /\ Present(j)'
          BY <3>2, <4>1 DEF Others
        <5>2. j # k => jobs'[j] = jobs[j]
          BY <1>4, <1>7, <5>1
        <5> QED  BY <5>1, <5>2 DEF Others, Present
      <4> QED  BY <3>2, <4>1 DEF Farthest
    <3>8. s \in (JobsOf(r))'
      BY <3>3 DEF JobsOf
    <3> QED  BY <3>3, <3>5, <3>6, <3>7, <3>8 DEF OnTrack
  <2>4. CASE result.outcome \in Waits
    <3>1. jobs[k].status \in {result.outcome, "pending", "running"}
      BY <2>4 DEF Recorded, Waits
    <3>2. jobs'[k].status = result.outcome /\ \A j \in Keys : j # k => jobs'[j] = jobs[j]
      BY <1>5, <1>7, <2>4, <3>1
    <3>3. Open(k)' /\ Present(k)' /\ HasOpen(jobs', r)
      BY <1>2, <2>4, <3>2 DEF Waits, Open, Present, HasOpen, RUN_OPEN_JOB_STATUSES
    <3>4. runs'[r] = "active"
      BY <1>1, <1>7, <3>3
    <3>5. Leads(k)'
      <4>1. PICK t \in (JobsOf(r))' : Leads(t)'
        BY <1>3, <3>4 DEF RunSound
      <4>2. t \in Keys /\ t.run = r
        BY <4>1 DEF JobsOf
      <4>3. ASSUME t # k PROVE FALSE
        <5>1. k \in (Others(t))'
          BY <1>1, <3>3, <4>2, <4>3 DEF Others
        <5> QED  BY <3>3, <4>1, <5>1 DEF Leads
      <4> QED  BY <4>1, <4>3
    <3>6. (Others(k))' = Others(k)
      BY <3>2 DEF Others, Present
    <3>7. Farthest(k)' /\ jobs'[k].status # "replan" /\ k \in (JobsOf(r))'
      BY <1>1, <2>1, <2>4, <3>2, <3>6 DEF Farthest, Waits, JobsOf
    <3> QED  BY <1>1, <3>4, <3>5, <3>7 DEF OnTrack
  <2>5. CASE result.outcome = "success"
    <3>1. jobs[k].status = "succeeded" /\ jobs'[k] = jobs[k]
      BY <1>7, <2>5 DEF Recorded
    <3>2. k.stage # "build_deploy"
      BY <1>2, <1>10, <3>1 DEF Decided, Delivered
    <3>3. k.stage \in DOMAIN PRODUCTIVE_DAG
      BY <2>1, <3>2, ChartOrdered DEF Farthest, Ordered
    <3> QED  BY <1>1, <1>6, <2>3, <2>5, <3>2, <3>3
  <2>6. CASE result.outcome = "retry"
    <3>1. jobs[k].status \in {"pending", "running"} /\ jobs'[k].status = status
      BY <1>7, <2>1, <2>6 DEF Recorded
    <3> QED  BY <1>1, <1>6, <2>2, <2>3, <2>6, <3>1
  <2>7. CASE result.outcome = "failed"
    BY <2>1, <2>7 DEF Recorded
  <2>8. result.outcome \in Waits \cup {"success", "retry", "failed"}
    BY <2>1 DEF Verdicts, Results, Outcomes, Waits
  <2> QED  BY <1>1, <2>4, <2>5, <2>6, <2>7, <2>8
<1> QED  BY <1>9, <1>10

\* A worker reads how far the target of a bounce has got.
LEMMA BounceSteps ==
  ASSUME Timely, LineSound, NEW w \in Workers, ResolveBounce(w)
  PROVE  LineStep
<1>1. proc[w].pc = "bounce" /\ UNCHANGED vars /\ offer' = offer /\ Settling(w) /\ Finished(w)
  BY DEF ResolveBounce, Settling, Finished
<1>2. PICK p \in WorkerStates : p = proc[w]
  BY DEF LineSound, LineTypeOK
<1>3. p.lease \in Leases /\ p.since \in Lags /\ p.result \in Results
  BY <1>1, <1>2, Fields
<1>4. PICK k \in Keys : k = claims[p.lease].key
  BY <1>3, RowTimes DEF LineSound
<1>5. k.run \in Runs /\ -1 \in -1 .. MaxIteration
  BY RowTimes, SuccessorsAssumption DEF LineSound
<1>6. PICK top \in -1 .. MaxIteration : top = TopFor(k, p.result)
  BY <1>5, TopInRange DEF TopFor
<1>7. PICK s : s = [pc |-> "resolved", lease |-> p.lease, since |-> p.since, result |-> p.result,
                    top |-> top]
  OBVIOUS
<1>8. s \in WorkerStates
  BY <1>3, <1>7 DEF WorkerStates
<1>9. Goto(w, s)
  BY <1>2, <1>4, <1>6, <1>7 DEF ResolveBounce
<1>10. LineTypeOK' /\ Moved(w, s)
  BY <1>1, <1>8, <1>9, GotoMoves
<1>11. /\ proc'[w].pc = "resolved" /\ proc'[w].lease = proc[w].lease
       /\ proc'[w].since = proc[w].since /\ proc'[w].result = proc[w].result
  BY <1>2, <1>7, <1>10 DEF Moved
<1>12. SoftStep
  BY <1>1, StoreSoft
<1>13. UNCHANGED <<runs, jobs, claims>>
  BY <1>1 DEF vars
<1>14. /\ Finished(w)' /\ Settling(w)' /\ KeyOf(w)' = KeyOf(w) /\ SettledRun(w)' = SettledRun(w)
       /\ SettledRun(w) = KeyOf(w).run
  BY <1>1, <1>11, <1>13 DEF Finished, Settling, KeyOf, SettledRun
<1>15. \A v \in Workers \ {w} : proc'[v] = proc[v]
  BY <1>10 DEF Moved
<1>16. ASSUME NEW v \in Workers
       PROVE  /\ Settling(v)' = Settling(v) /\ SettledRun(v)' = SettledRun(v)
              /\ Working(v)' = Working(v)
              /\ Working(v) => proc'[v] = proc[v]
  <2>1. CASE v = w
    BY <1>1, <1>11, <1>14, <2>1 DEF Working
  <2>2. CASE v # w
    BY <1>13, <1>15, <2>2 DEF Settling, SettledRun, Working
  <2> QED  BY <2>1, <2>2
<1>17. PICK r \in Runs : r = SettledRun(w)
  BY <1>1, SettlerFacts
<1>18. ResolvedSound(w) /\ SettlerSound(w) /\ WorkerSound(w)
  BY <1>1 DEF LineSound, SettlerSound
<1>19. Calm(r)'
  BY <1>1, <1>13, <1>16, <1>17, <1>18 DEF SettlerSound, Calm
<1>20. ResolvedSound(w)'
  BY <1>11, <1>13, <1>14, <1>16, <1>18 DEF ResolvedSound, Leads, Others, Open, Present
<1>21. SettlerSound(w)'
  BY <1>1, <1>11, <1>13, <1>14, <1>17, <1>18, <1>19, <1>20 DEF SettlerSound
<1>22. WorkerSound(w)'
  BY <1>1, <1>11, <1>13, <1>14, <1>18 DEF WorkerSound, HoldsLease, Finished
<1>23. ASSUME NEW v \in Workers, v # w, Finished(v)
       PROVE  KeyOf(v).run # SettledRun(w)'
  <2>1. Settling(v) /\ SettledRun(v) = KeyOf(v).run
    BY <1>23 DEF Settling, Finished, SettledRun, KeyOf
  <2> QED  BY <1>14, <1>18, <1>23, <2>1 DEF ResolvedSound
<1>24. Turns(w) /\ \A v \in Workers \ {w} : Eases(v)
  BY <1>14, <1>15, <1>21, <1>22, <1>23 DEF Turns, Eases
<1>25. OfferSound'
  BY <1>1, <1>13, OfferStays
<1> QED  BY <1>10, <1>12, <1>24, <1>25 DEF LineStep, SoftStep, RunSteps

\* A worker materializes the result it has finished.
LEMMA MaterializeSteps ==
  ASSUME Timely, LineSound, NEW w \in Workers, MaterializeStep(w)
  PROVE  LineStep
<1>1. proc[w].pc = "resolved" /\ offer' = offer /\ Settling(w) /\ Finished(w)
  BY DEF MaterializeStep, Settling, Finished
<1>2. PICK l \in Leases : l = proc[w].lease
  BY <1>1, WorkerFields DEF LineSound, HoldsLease
<1>3. PICK k \in Keys : k = claims[l].key
  BY RowTimes DEF LineSound
<1>4. PICK lag \in Lags : lag = proc[w].since
  BY <1>1, WorkerFields DEF LineSound
<1>5. PICK result \in Verdicts : result = proc[w].result /\ result \in Given
  BY <1>1, GivenVerdicts DEF LineSound, WorkerSound
<1>6. ResolvedSound(w) /\ KeyOf(w) = k
  BY <1>1, <1>2, <1>3 DEF LineSound, SettlerSound, KeyOf
<1>7. /\ runs[k.run] = "active" /\ Leads(k) /\ lag > MaxPollLag
      /\ ~ Open(k) => jobs[k].age > MaxPollLag
      /\ jobs[k].status \in Recorded(result.outcome)
      /\ \A v \in Workers : Settling(v) /\ SettledRun(v) = k.run => v = w
  BY <1>4, <1>5, <1>6 DEF ResolvedSound
<1>t. PICK top \in Int : top = proc[w].top
  <2>1. PICK p \in WorkerStates : p = proc[w]
    BY DEF LineSound, LineTypeOK
  <2>2. p.top \in -1 .. MaxIteration
    BY <1>1, <2>1, Shapes
  <2> QED  BY <2>1, <2>2, SuccessorsAssumption
<1>8. PICK over \in BOOLEAN : MaterializeResult(k, result, top, over, lag)
  BY <1>2, <1>3, <1>4, <1>5, <1>t DEF MaterializeStep, BudgetReadings
<1>9. PICK r \in Runs : r = k.run
  BY RowTimes DEF LineSound
<1>10. Present(k)
  BY <1>7 DEF Leads
<1>m. Materialized(k, lag, DbStatus(k, result, top, over), SuccessorKeys(k, result, top, over))
  BY <1>8, <1>10, Materializes
<1>11. IInv' /\ ClaimsMove
  BY <1>m DEF Materialized
<1>12. ASSUME NEW q \in Runs, q # r PROVE RunSoft(q)
  <2>1. runs'[q] = runs[q]
    BY <1>9, <1>12, <1>m DEF Materialized
  <2>2. ASSUME NEW j \in JobsOf(q) PROVE jobs'[j] = jobs[j]
    <3>1. j \in Keys /\ j.run # k.run
      BY <1>9, <1>12 DEF JobsOf
    <3> QED  BY <1>m, <3>1 DEF Materialized
  <2> QED  BY <2>1, <2>2 DEF RunSoft
<1>13. /\ RunSound(r)' /\ runs'[r] # "absent"
       /\ \A m \in Leases : ~ (claims'[m].status = "active" /\ claims'[m].key.run = r)
  BY <1>7, <1>8, <1>9, Follows
<1> DEFINE s == [pc |-> "closing", lease |-> l, result |-> result]
<1>14. s \in WorkerStates
  BY DEF WorkerStates, Verdicts
<1>15. Goto(w, s)
  BY <1>2, <1>5 DEF MaterializeStep
<1> HIDE DEF s
<1>16. LineTypeOK' /\ Moved(w, s)
  BY <1>1, <1>14, <1>15, GotoMoves
<1>17. Handled(r)'
  BY <1>13, <1>16, ClaimlessCalm
<1>18. ASSUME NEW v \in Workers, Settling(v), SettledRun(v) = r, proc'[v] = proc[v]
       PROVE  FALSE
  <2>1. v = w
    BY <1>7, <1>9, <1>18
  <2> QED  BY <1>1, <1>16, <1>18, <2>1 DEF Moved, s
<1>k. StaysOnTrack(r)
  <2> SUFFICES ASSUME Straight, OnTrack(k.run) PROVE OnTrack(k.run)'
    BY <1>9 DEF StaysOnTrack
  <2>1. result.outcome # "replan" /\ result.target = NoStage
    BY <1>5, GivenVerdicts
  <2> QED  BY <1>7, <1>8, <2>1, FollowsOnTrack
<1>19. \A q \in Runs : RunSteps(q)
  BY <1>7, <1>9, <1>12, <1>13, <1>17, <1>18, <1>k DEF RunSteps, StaysDead
<1>20. \A v \in Workers : Eases(v)
  BY <1>1, <1>2, <1>16 DEF Moved, Eases, HoldsLease, s
<1>21. \A q \in Runs : runs[q] # "absent" => runs'[q] # "absent"
  BY <1>12, <1>13 DEF RunSoft
<1> QED  BY <1>1, <1>11, <1>16, <1>19, <1>20, <1>21, OfferStays DEF LineStep

-----------------------------------------------------------------------------
\* The repair of an orphan.

\* The jobs of an idle run that somebody repairs: each repair replays its leader.
LEMMA RepairsAgree ==
  ASSUME Timely, LineSound, NEW k \in Keys, runs[k.run] = "active", Leads(k), ~ Open(k),
         NEW result \in Replays,
         jobs[k].status = (IF result.outcome = "success" THEN "succeeded" ELSE result.outcome),
         NEW v \in Workers, Settling(v), SettledRun(v) = k.run, ~ Finished(v)
  PROVE  proc[v].pc = "repair" /\ proc[v].key = k /\ proc[v].result = result
<1>1. ~ HasOpen(jobs, k.run)
  <2>1. ASSUME NEW j \in JobsOf(k.run), Open(j) PROVE FALSE
    <3>1. j \in Others(k)
      BY <2>1 DEF JobsOf, Others, Open, Present, RUN_OPEN_JOB_STATUSES
    <3> QED  BY <2>1, <3>1 DEF Leads
  <2> QED  BY <2>1 DEF HasOpen, Open
<1>2. ~ Busy(k.run)
  BY <1>1 DEF Busy, Ended
<1>3. PICK i \in Keys : i = proc[v].key /\ i.run = k.run
  BY SettlerFacts
<1>4. proc[v].pc = "repair" /\ RepairSound(v)
  BY <1>2, <1>3, SettlerFacts DEF LineSound, SettlerSound
<1>5. Leads(i)
  BY <1>2, <1>3, <1>4 DEF RepairSound
<1>6. i = k
  BY <1>3, <1>5, OneLeader DEF LineSound
<1>7. PICK other \in Replays : other = proc[v].result
  BY <1>4 DEF RepairSound
<1>8. other.outcome = result.outcome
  BY <1>3, <1>4, <1>6, <1>7 DEF RepairSound, Replays
<1>9. other = result
  BY <1>8 DEF Replays, Results
<1> QED  BY <1>3, <1>4, <1>6, <1>7, <1>9

\* The replay of an orphan keeps the line: either nobody replayed the leader yet, or the
\* replay finds its successors there.
LEMMA RepairSteps ==
  ASSUME Timely, LineSound, NEW w \in Workers, RepairOrphan(w)
  PROVE  LineStep
<1>1. proc[w].pc = "repair" /\ offer' = offer /\ Settling(w)
  BY DEF RepairOrphan, Settling
<1>2. PICK k \in Keys : k = proc[w].key
  BY <1>1, WorkerFields DEF LineSound
<1>3. PICK lag \in Lags : lag = proc[w].since
  BY <1>1, WorkerFields DEF LineSound
<1>4. RepairSound(w)
  BY <1>1 DEF LineSound, SettlerSound
<1>5. PICK result \in Replays : result = proc[w].result
  BY <1>4 DEF RepairSound
<1>6. /\ lag =< MaxPollLag
      /\ jobs[k].status = (IF result.outcome = "success" THEN "succeeded" ELSE result.outcome)
      /\ \/ Done(k, result) /\ Busy(k.run)
         \/ runs[k.run] = "active" /\ Leads(k) /\ ~ Open(k) /\ jobs[k].age > MaxPollLag
  BY <1>2, <1>3, <1>4, <1>5 DEF RepairSound
<1>7. PICK r \in Runs : r = k.run
  BY RowTimes DEF LineSound
<1>8. SettledRun(w) = r /\ Calm(r) /\ runs[r] \notin {"absent", "cancelled"}
  BY <1>1, <1>2, <1>7, SettlerFacts DEF LineSound, SettlerSound
<1>9. Present(k) /\ ~ Open(k) /\ k \in JobsOf(r)
  BY <1>6, <1>7 DEF Present, Open, RUN_OPEN_JOB_STATUSES, JobsOf, Replays
<1>10. /\ result # Parking /\ result.outcome \notin Waits /\ result \in Verdicts
       /\ BudgetReadings(result) = {FALSE} /\ TopFor(k, result) = -1
  <2>1. /\ result.outcome \in {"success", "failed", "replan"}
        /\ result.target = NoStage /\ result.delay = "none"
    BY DEF Replays, Results
  <2>2. result # Parking /\ result.outcome \notin Waits /\ result \in Verdicts
    BY <2>1 DEF Parking, Waits, Replays, Verdicts
  <2>3. BudgetReadings(result) = {FALSE} /\ TopFor(k, result) = -1
    BY <2>1 DEF BudgetReadings, TopFor
  <2> QED  BY <2>2, <2>3
<1>v. PICK verdict \in Verdicts : verdict = result
  BY <1>10
<1>t. PICK top \in Int : top = -1
  OBVIOUS
<1>o. PICK over \in BOOLEAN : over = FALSE
  OBVIOUS
<1> DEFINE s == [proc[w] EXCEPT !.pc = "recheck"]
           succs == SuccessorKeys(k, verdict, top, over)
           status == DbStatus(k, verdict, top, over)
<1>s. succs = SuccessorKeys(k, result, -1, FALSE)
  BY <1>v, <1>t, <1>o
<1>11. MaterializeResult(k, verdict, top, over, lag) /\ Goto(w, s)
  <2>1. MaterializeResult(k, result, -1, FALSE, lag) /\ Goto(w, s)
    BY <1>2, <1>3, <1>5, <1>10 DEF RepairOrphan
  <2> QED  BY <2>1, <1>v, <1>t, <1>o
<1>12. s \in WorkerStates /\ s.pc = "recheck" /\ s.key = k
  <2>1. PICK p \in WorkerStates : p = proc[w]
    BY DEF LineSound, LineTypeOK
  <2>2. p \in [pc : {"repair", "recheck"}, key : Keys, since : Lags, result : Results]
    BY <1>1, <2>1, Shapes
  <2>3. /\ [p EXCEPT !.pc = "recheck"] \in [pc : {"repair", "recheck"}, key : Keys,
                                            since : Lags, result : Results]
        /\ [p EXCEPT !.pc = "recheck"].pc = "recheck" /\ [p EXCEPT !.pc = "recheck"].key = p.key
    BY <2>2
  <2> QED  BY <1>2, <2>1, <2>3 DEF WorkerStates
<1>13. Materialized(k, lag, status, succs)
  <2>1. MaterializeResult(k, verdict, top, over, lag) /\ Present(k)
    BY <1>9, <1>11
  <2> HIDE DEF s
  <2> QED  BY <2>1, Materializes
<1> HIDE DEF s, succs, status
<1>14. LineTypeOK' /\ Moved(w, s)
  BY <1>1, <1>11, <1>12, GotoMoves
<1>15. proc'[w].pc = "recheck" /\ proc'[w].key = k /\ SettledRun(w)' = r
  BY <1>7, <1>12, <1>14 DEF Moved, SettledRun
<1>16. IInv' /\ ClaimsMove /\ claims' = claims /\ jobs'[k] = jobs[k]
  BY <1>6, <1>13 DEF Materialized, Replays
<1>17. ASSUME NEW q \in Runs, q # r PROVE RunSoft(q)
  <2>1. runs'[q] = runs[q]
    BY <1>7, <1>13, <1>17 DEF Materialized
  <2>2. ASSUME NEW j \in JobsOf(q) PROVE jobs'[j] = jobs[j]
    <3>1. j \in Keys /\ j.run # k.run
      BY <1>7, <1>17 DEF JobsOf
    <3> QED  BY <1>13, <3>1 DEF Materialized
  <2> QED  BY <2>1, <2>2 DEF RunSoft
<1>18. ASSUME NEW v \in Workers, Finished(v)
       PROVE  KeyOf(v).run # r
  <2>1. ASSUME KeyOf(v).run = r PROVE FALSE
    <3>1. ResolvedSound(v)
      BY <1>18 DEF LineSound, SettlerSound
    <3>2. w = v
      BY <1>1, <1>8, <2>1, <3>1 DEF ResolvedSound
    <3> QED  BY <1>1, <1>18, <3>2 DEF Finished
  <2> QED  BY <2>1
<1>19. ASSUME NEW v \in Workers, Settling(v), SettledRun(v) = r
       PROVE  ~ Finished(v)
  BY <1>18, <1>19, SettlerFacts
\* After it the run is busy, calm and not cancelled.
<1>20. ASSUME Busy(r)', Calm(r)', runs'[r] \notin {"absent", "cancelled"}, \A q \in Runs : RunSteps(q)
       PROVE  LineStep
  <2>1. SettlerSound(w)' /\ WorkerSound(w)'
    <3>1. Busy(k.run)'
      BY <1>7, <1>20 DEF Busy, Ended, HasOpen, JobsOf
    <3> QED  BY <1>15, <1>20, <3>1 DEF SettlerSound, WorkerSound, HoldsLease, Finished
  <2>2. Turns(w) /\ \A v \in Workers \ {w} : Eases(v)
    BY <1>14, <1>15, <1>18, <2>1 DEF Turns, Settling, Moved, Eases
  <2>3. \A q \in Runs : runs[q] # "absent" => runs'[q] # "absent"
    BY <1>17, <1>20 DEF RunSoft
  <2> QED  BY <1>1, <1>14, <1>16, <1>20, <2>2, <2>3, OfferStays DEF LineStep
<1>21. CASE Done(k, result) /\ Busy(r)
  <2>1. \A j \in Keys : jobs'[j] = jobs[j]
    <3>1. \A j \in succs : Present(j)
      BY <1>21, <1>s DEF Done
    <3> QED  BY <1>13, <1>16, <3>1 DEF Materialized
  <2>2. HasOpen(jobs', r) <=> HasOpen(jobs, r)
    BY <2>1 DEF HasOpen, JobsOf
  <2>3. CASE HasOpen(jobs, r)
    <3>1. runs' = runs
      BY <1>7, <1>13, <2>2, <2>3 DEF Materialized
    <3>2. RunSoft(r)
      BY <2>1, <3>1 DEF RunSoft, JobsOf
    <3>3. Busy(r)'
      BY <1>21, <3>2, BusyKeeps
    <3>4. Calm(r)'
      BY <1>8, <1>14, <1>15, <1>16 DEF Calm, Moved, Working
    <3> QED  BY <1>8, <1>17, <1>20, <3>1, <3>2, <3>3, <3>4 DEF RunSteps
  <2>4. CASE ~ HasOpen(jobs, r)
    <3>1. runs'[r] \in {"failed", "completed"}
      BY <1>7, <1>13, <2>2, <2>4 DEF Materialized
    <3>2. Ended(r)
      BY <1>21, <2>4 DEF Busy
    <3>3. \A j \in JobsOf(r) : ~ Open(j)'
      BY <2>1, <2>4 DEF HasOpen, Open, JobsOf
    <3>4. Calm(r)' /\ Handled(r)'
      BY <1>14, <1>16, <3>3, IdleRunCalm
    <3>5. \A j \in JobsOf(r) : jobs'[j].status # "cancelled"
      BY <1>8, <2>1 DEF LineSound, RunSound, JobsOf
    <3>6. RunSound(r)'
      BY <3>1, <3>3, <3>5 DEF RunSound, JobsOf
    <3>7. Busy(r)'
      BY <3>1 DEF Busy, Ended
    <3>8. ASSUME NEW v \in Workers, Settling(v), SettledRun(v) = r, proc'[v] = proc[v]
          PROVE  SettlerSound(v)'
      <4>1. SettledRun(v)' = r
        BY <1>16, <3>8, SettlerStays
      <4>2. proc[v].pc \in {"repair", "recheck"}
        BY <1>19, <3>8, SettlerFacts
      <4>3. PICK i \in Keys : i = proc[v].key /\ i.run = r
        BY <3>8, <4>2, SettlerFacts
      <4>4. Busy(i.run)'
        BY <3>7, <4>3 DEF Busy, Ended, HasOpen, JobsOf
      <4>5. ASSUME proc[v].pc = "repair" PROVE RepairSound(v)'
        <5>1. PICK other : other = proc[v].result
          OBVIOUS
        <5>2. RepairSound(v)
          BY <4>5 DEF LineSound, SettlerSound
        <5>3. Done(i, other)
          BY <3>2, <4>3, <5>1, <5>2 DEF RepairSound, Ended
        <5>4. Done(i, other)'
          BY <2>1, <5>3 DEF Done, Present
        <5> QED  BY <2>1, <3>8, <4>3, <4>4, <5>1, <5>2, <5>4 DEF RepairSound
      <4> QED  BY <3>1, <3>4, <3>8, <4>1, <4>2, <4>3, <4>4, <4>5 DEF SettlerSound, Finished
    <3>k. StaysOnTrack(r)
      <4> SUFFICES ASSUME OnTrack(r) PROVE OnTrack(r)'
        BY DEF StaysOnTrack
      <4>1. runs'[r] = "failed" <=> HasFailed(jobs', r)
        BY <1>7, <1>13, <2>2, <2>4 DEF Materialized
      <4>2. HasFailed(jobs, r) => HasFailed(jobs, r)'
        BY <2>1 DEF HasFailed, JobsOf
      <4>3. HasFailed(jobs, r)' <=> HasFailed(jobs', r)
        BY DEF HasFailed, JobsOf
      <4>4. Delivered(r) => Delivered(r)'
        BY <2>1 DEF Delivered, JobsOf
      <4>5. HasFailed(jobs, r) \/ Delivered(r)
        BY <1>8, <3>2 DEF OnTrack, Ended
      <4> QED  BY <3>1, <4>1, <4>2, <4>3, <4>4, <4>5 DEF OnTrack
    <3>9. \A q \in Runs : RunSteps(q)
      BY <1>8, <1>17, <3>4, <3>6, <3>8, <3>k DEF RunSteps, StaysDead
    <3> QED  BY <1>20, <3>1, <3>4, <3>7, <3>9
  <2> QED  BY <2>3, <2>4
<1>22. CASE ~ (Done(k, result) /\ Busy(r))
  <2>1. runs[k.run] = "active" /\ Leads(k) /\ jobs[k].age > MaxPollLag
    BY <1>6, <1>7, <1>22
  <2>2. jobs[k].status \in Recorded(result.outcome) \cup {result.outcome}
    BY <1>6 DEF Recorded
  <2>3. jobs[k].status \notin {"pending", "running"}
    BY <1>6 DEF Replays
  <2>4. /\ RunSound(r)' /\ runs'[r] \notin {"absent", "cancelled"}
        /\ \A l \in Leases : ~ (claims'[l].status = "active" /\ claims'[l].key.run = r)
        /\ Busy(r)' /\ \A j \in succs : j \in Keys /\ Present(j)'
    <3>1. /\ MaterializeResult(k, verdict, top, over, lag) /\ ~ Open(k)
          /\ jobs[k].status \in Recorded(verdict.outcome) \cup {verdict.outcome}
      BY <1>9, <1>11, <1>v, <2>2
    <3>2. /\ RunSound(k.run)' /\ runs'[k.run] \notin {"absent", "cancelled"}
          /\ \A l \in Leases : ~ (claims'[l].status = "active" /\ claims'[l].key.run = k.run)
          /\ Busy(k.run)'
          /\ \A j \in SuccessorKeys(k, verdict, top, over) : j \in Keys /\ Present(j)'
      BY <2>1, <2>3, <3>1, Follows
    <3>3. \A j \in succs : j \in Keys /\ Present(j)'
      BY <3>2 DEF succs
    <3>4. Busy(r)' /\ RunSound(r)'
      BY <1>7, <3>2
    <3> QED  BY <1>7, <3>2, <3>3, <3>4
  <2>5. Calm(r)' /\ Handled(r)'
    BY <1>14, <2>4, ClaimlessCalm
  <2>6. ASSUME NEW v \in Workers, Settling(v), SettledRun(v) = r, proc'[v] = proc[v]
        PROVE  SettlerSound(v)'
    <3>1. SettledRun(v)' = r
      BY <1>16, <2>6, SettlerStays
    <3>2. proc[v].pc = "repair" /\ proc[v].key = k /\ proc[v].result = result
      <4>1. /\ runs[k.run] = "active" /\ Leads(k) /\ ~ Open(k)
            /\ Settling(v) /\ SettledRun(v) = k.run /\ ~ Finished(v)
        BY <1>7, <1>9, <1>19, <2>1, <2>6
      <4>2. jobs[k].status = (IF result.outcome = "success" THEN "succeeded" ELSE result.outcome)
        BY <1>6
      <4> QED  BY <4>1, <4>2, RepairsAgree
    <3>4. Done(k, result)'
      BY <2>4, <1>s DEF Done
    <3>5. Busy(k.run)'
      BY <1>7, <2>4 DEF Busy, Ended, HasOpen, JobsOf
    <3>6. RepairSound(v)
      BY <2>6, <3>2 DEF LineSound, SettlerSound
    <3>7. RepairSound(v)'
      BY <1>16, <2>6, <3>2, <3>4, <3>5, <3>6 DEF RepairSound
    <3> QED  BY <2>4, <2>5, <2>6, <3>1, <3>2, <3>7 DEF SettlerSound, Finished
  <2>k. StaysOnTrack(r)
    <3> SUFFICES ASSUME Straight, OnTrack(k.run) PROVE OnTrack(k.run)'
      BY <1>7 DEF StaysOnTrack
    <3>1. /\ jobs[k].status \in Recorded(verdict.outcome) /\ verdict.target = NoStage
          /\ verdict.outcome = "replan" => jobs[k].status = "replan"
      BY <1>6, <1>v DEF Recorded, Replays, Results
    <3> QED  BY <1>9, <1>11, <2>1, <2>3, <3>1, FollowsOnTrack
  <2>7. \A q \in Runs : RunSteps(q)
    BY <1>8, <1>17, <2>4, <2>5, <2>6, <2>k DEF RunSteps, StaysDead
  <2> QED  BY <1>20, <2>4, <2>5, <2>7
<1> QED  BY <1>21, <1>22

-----------------------------------------------------------------------------
\* The passage of time.

\* A tick only ages rows; their status stays, and so does what a claim says.
LEMMA TickRows ==
  ASSUME IInv, Tick
  PROVE  /\ runs' = runs
         /\ \A k \in Keys : jobs'[k].status = jobs[k].status
         /\ \A k \in Keys : Present(k) => jobs'[k].age = Older(k)
         /\ \A l \in Leases : claims'[l].status = claims[l].status /\ claims'[l].key = claims[l].key
<1>1. \A k \in Keys : jobs[k] \in JobRows
  BY RowParts
<1>2. \A l \in Leases : claims[l] \in ClaimRows
  BY RowParts
<1>3. ASSUME NEW k \in Keys
      PROVE  jobs'[k].status = jobs[k].status /\ (Present(k) => jobs'[k].age = Older(k))
  <2>1. CASE jobs[k].status = "absent"
    BY <2>1 DEF Tick, Present
  <2>2. CASE jobs[k].status # "absent"
    <3>1. jobs'[k] = [jobs[k] EXCEPT !.gate = CountDown(jobs[k].gate), !.age = Older(k)]
      BY <2>2 DEF Tick
    <3> QED  BY <1>1, <3>1 DEF JobRows
  <2> QED  BY <2>1, <2>2
<1>4. ASSUME NEW l \in Leases
      PROVE  claims'[l].status = claims[l].status /\ claims'[l].key = claims[l].key
  <2>1. claims'[l] = [claims[l] EXCEPT !.ttl = CountDown(claims[l].ttl)]
    BY DEF Tick
  <2> QED  BY <1>2, <2>1 DEF ClaimRows
<1> QED  BY <1>3, <1>4 DEF Tick

\* No row grows younger; a closed job that is not the newest of its run grows older than
\* any bound.
LEMMA Aging ==
  ASSUME IInv, NEW k \in Keys, Present(k)
  PROVE  /\ Older(k) \in Nat /\ Older(k) >= jobs[k].age
         /\ jobs[k].age < MaxAge => Older(k) > jobs[k].age
         /\ Newest(k) /\ jobs[k].age =< MaxAge => Older(k) =< MaxAge
         /\ ~ Newest(k) /\ ~ Open(k) => Older(k) = MaxAge + 1
<1>1. jobs[k].age \in Nat /\ jobs[k].age =< MaxAge + 1 /\ MaxAge \in Nat
  BY RowTimes
<1>2. ~ Open(k) => jobs[k].status \in SettledJobStatuses
  BY RowTimes DEF Open, Present, JobStatuses
<1>3. CASE Newest(k)
  BY <1>1, <1>3 DEF Older
<1>4. CASE ~ Newest(k)
  <2>1. CASE jobs[k].status \in SettledJobStatuses
    BY <1>1, <1>4, <2>1 DEF Older
  <2>2. CASE jobs[k].status \notin SettledJobStatuses
    BY <1>1, <1>2, <1>4, <2>2 DEF Older
  <2> QED  BY <2>1, <2>2
<1> QED  BY <1>3, <1>4

\* Time passes for all jobs alike: the leader leads on.
LEMMA TickLeads ==
  ASSUME IInv, Tick, NEW k \in Keys, Leads(k)
  PROVE  Leads(k)'
<1>1. Present(k) /\ Present(k)' /\ Open(k)' = Open(k) /\ (Others(k))' = Others(k)
  BY TickRows DEF Leads, Present, Open, Others
<1>2. MaxAge \in Nat /\ MaxPollLag \in Nat /\ \A j \in Keys : jobs[j].age \in Nat /\ jobs[j].age =< MaxAge + 1
  BY RowTimes
<1>3. ASSUME NEW j \in Others(k)
      PROVE  ~ Open(j)' /\ jobs'[j].age > (IF Open(k) THEN MaxPollLag ELSE jobs'[k].age)
  <2>1. /\ j \in Keys /\ Present(j) /\ ~ Open(j) /\ j.run = k.run
        /\ jobs[j].age > (IF Open(k) THEN MaxPollLag ELSE jobs[k].age)
    BY DEF Leads, Others
  <2>2. ~ Open(j)' /\ jobs'[j].age = Older(j) /\ jobs'[k].age = Older(k)
    BY <1>1, <2>1, TickRows DEF Open
  <2>3. CASE Open(k)
    <3>1. Older(j) \in Nat /\ Older(j) >= jobs[j].age /\ jobs[j].age > MaxPollLag
      BY <2>1, <2>3, Aging
    <3> QED  BY <1>2, <2>1, <2>2, <2>3, <3>1
  <2>4. CASE ~ Open(k)
    <3>1. jobs[j].age > jobs[k].age
      BY <2>1, <2>4
    <3>2. ~ Newest(j)
      BY <1>1, <1>2, <2>1, <3>1 DEF Newest, JobsOf, Present
    <3>3. Newest(k)
      <4>1. ASSUME NEW i \in JobsOf(k.run), jobs[i].status # "absent" PROVE jobs[k].age =< jobs[i].age
        <5>1. i \in Keys /\ (i # k => i \in Others(k))
          BY <4>1 DEF JobsOf, Others, Present
        <5>2. i # k => jobs[i].age > jobs[k].age
          BY <2>4, <5>1 DEF Leads
        <5> QED  BY <1>2, <5>1, <5>2
      <4> QED  BY <4>1 DEF Newest
    <3>4. Older(j) = MaxAge + 1
      BY <2>1, <3>2, Aging
    <3>5. jobs[k].age =< MaxAge
      BY <1>2, <2>1, <3>1
    <3>6. Older(k) =< MaxAge /\ Older(k) \in Nat
      BY <1>1, <3>3, <3>5, Aging
    <3> QED  BY <1>2, <2>2, <2>4, <3>4, <3>6
  <2> QED  BY <2>3, <2>4
<1> QED  BY <1>1, <1>3 DEF Leads

\* The line stays sound when time passes, because nobody is settling then.
LEMMA TickKeeps ==
  ASSUME Timely, LineSound, LineTick
  PROVE  LineSound'
<1>1. /\ Tick /\ offer' = offer /\ \A w \in Workers : ~ Settling(w)
      /\ proc' = [w \in Workers |-> IF Timed(w) THEN [proc[w] EXCEPT !.since = @ + 1] ELSE proc[w]]
  BY DEF LineTick, Timely
<1>2. IInv' /\ IInv
  BY <1>1, TickQuiet, QuietPreserves DEF LineSound
<1>3. /\ runs' = runs
      /\ \A k \in Keys : jobs'[k].status = jobs[k].status
      /\ \A k \in Keys : Present(k) => jobs'[k].age = Older(k)
      /\ \A l \in Leases : claims'[l].status = claims[l].status /\ claims'[l].key = claims[l].key
  BY <1>1, <1>2, TickRows
<1>4. MaxLag \in Nat /\ MaxAge \in Nat /\ MaxPollLag \in Nat /\ MaxLag < MaxAge
  BY <1>2, RowTimes, LineAssumption DEF Timely
\* A worker keeps its place; its reading ages by one.
<1>5. ASSUME NEW w \in Workers
      PROVE  /\ proc'[w] \in WorkerStates /\ proc'[w].pc = proc[w].pc
             /\ HoldsLease(w) => proc'[w].lease = proc[w].lease
             /\ Working(w) => /\ proc'[w].since = proc[w].since + 1 /\ proc[w].since \in Nat
                              /\ proc[w].since + 1 =< MaxLag
             /\ proc[w].pc = "returned" => proc'[w].result = proc[w].result
  <2>1. PICK p \in WorkerStates : p = proc[w]
    BY DEF LineSound, LineTypeOK
  <2>2. CASE ~ Timed(w)
    BY <1>1, <2>1, <2>2 DEF Timed, Working
  <2>3. CASE Timed(w)
    <3>1. p.pc \in {"handler", "returned"}
      BY <1>1, <2>1, <2>3 DEF Timed, Settling
    <3>2. p.since \in Lags /\ p.since < MaxLag
      BY <2>1, <2>3, <3>1, Fields DEF LineTick
    <3>3. p.since \in Nat /\ p.since + 1 \in Lags /\ p.since + 1 =< MaxLag
      BY <1>4, <3>2 DEF Lags
    <3>4. proc'[w] = [p EXCEPT !.since = p.since + 1]
      BY <1>1, <2>1, <2>3
    <3>5. CASE p.pc = "handler"
      <4>1. p \in [pc : {"handler"}, lease : Leases, since : Lags,
                   beat : {"first", "lease", "cycle", "off"}]
        BY <3>5, Shapes
      <4>2. /\ proc'[w] \in [pc : {"handler"}, lease : Leases, since : Lags,
                             beat : {"first", "lease", "cycle", "off"}]
            /\ proc'[w].pc = p.pc /\ proc'[w].lease = p.lease /\ proc'[w].since = p.since + 1
        BY <3>3, <3>4, <4>1
      <4>3. proc'[w] \in WorkerStates
        BY <4>2 DEF WorkerStates
      <4> QED  BY <2>1, <3>3, <3>5, <4>2, <4>3
    <3>6. CASE p.pc = "returned"
      <4>1. p \in [pc : {"returned", "bounce"}, lease : Leases, since : Lags, result : Results]
        BY <3>6, Shapes
      <4>2. /\ proc'[w] \in [pc : {"returned", "bounce"}, lease : Leases, since : Lags, result : Results]
            /\ proc'[w].pc = p.pc /\ proc'[w].lease = p.lease /\ proc'[w].since = p.since + 1
            /\ proc'[w].result = p.result
        BY <3>3, <3>4, <4>1
      <4>3. proc'[w] \in WorkerStates
        BY <4>2 DEF WorkerStates
      <4> QED  BY <2>1, <3>3, <3>6, <4>2, <4>3
    <3> QED  BY <3>1, <3>5, <3>6
  <2> QED  BY <2>2, <2>3
<1>6. LineTypeOK' /\ OfferSound'
  <2>1. proc' \in [Workers -> WorkerStates]
    BY <1>1, <1>5
  <2>2. OfferSound'
    BY <1>1, <1>3, OfferStays DEF LineSound
  <2> QED  BY <1>1, <2>1, <2>2 DEF LineTypeOK, LineSound
<1>7. ASSUME NEW r \in Runs
      PROVE  RunSound(r)'
  <2>1. \A k \in JobsOf(r) : Open(k)' => runs'[r] = "active"
    BY <1>3 DEF LineSound, RunSound, Open, JobsOf
  <2>2. \A k \in JobsOf(r) : jobs'[k].status = "cancelled" => runs'[r] = "cancelled"
    BY <1>3 DEF LineSound, RunSound, JobsOf
  <2>3. ASSUME runs'[r] = "active"
        PROVE  \E k \in JobsOf(r) : Leads(k)' /\ jobs'[k].status # "retry"
    <3>1. PICK k \in JobsOf(r) : Leads(k) /\ jobs[k].status # "retry"
      BY <1>3, <2>3 DEF LineSound, RunSound
    <3>2. Leads(k)' /\ jobs'[k].status # "retry"
      BY <1>1, <1>2, <1>3, <3>1, TickLeads DEF JobsOf
    <3> QED  BY <3>2
  <2> QED  BY <2>1, <2>2, <2>3 DEF RunSound, JobsOf
<1>8. ASSUME NEW w \in Workers, Working(w)', claims'[proc'[w].lease].status = "active"
      PROVE  \A j \in (Others(KeyOf(w)))' : jobs'[j].age > proc'[w].since
  <2>1. Working(w) /\ HoldsLease(w) /\ proc'[w].lease = proc[w].lease
    BY <1>5, <1>8 DEF Working, HoldsLease
  <2>2. PICK l \in Leases : l = proc[w].lease
    BY <2>1, WorkerFields DEF LineSound
  <2>3. PICK k \in Keys : k = claims[l].key
    BY <1>2, RowTimes
  <2>4. claims[l].status = "active" /\ KeyOf(w) = k /\ KeyOf(w)' = k
    BY <1>3, <1>8, <2>1, <2>2, <2>3 DEF KeyOf
  <2>5. Leads(k) /\ k.run \in Runs
    BY <2>3, <2>4, ClaimLeads
  <2>6. (Others(k))' = Others(k)
    BY <1>3 DEF Others, Present
  <2>7. ASSUME NEW j \in Others(k) PROVE jobs'[j].age > proc'[w].since
    <3>1. j \in Keys /\ Present(j) /\ ~ Open(j)
      BY <2>5 DEF Leads, Others
    <3>2. jobs[j].age > proc[w].since
      BY <2>1, <2>2, <2>4, <2>5, <2>7 DEF LineSound, Handled
    <3>3. jobs'[j].age = Older(j)
      BY <1>3, <3>1
    <3>4. /\ Older(j) \in Nat /\ Older(j) >= jobs[j].age
          /\ jobs[j].age < MaxAge => Older(j) > jobs[j].age
      BY <1>2, <3>1, Aging
    <3>5. jobs[j].age \in Nat
      BY <1>2, <3>1, RowTimes
    <3>6. proc'[w].since = proc[w].since + 1 /\ proc[w].since \in Nat /\ proc[w].since + 1 =< MaxLag
      BY <1>5, <2>1
    <3> QED  BY <1>4, <3>2, <3>3, <3>4, <3>5, <3>6
  <2> QED  BY <2>4, <2>6, <2>7
<1>9. \A r \in Runs : Handled(r)'
  BY <1>8 DEF Handled
<1>10. ASSUME NEW w \in Workers PROVE WorkerSound(w)' /\ SettlerSound(w)'
  <2>1. ~ Settling(w)'
    BY <1>1, <1>5 DEF Settling
  <2>2. HoldsLease(w)' => claims'[proc'[w].lease].status # "absent"
    BY <1>3, <1>5, HeldClaims DEF HoldsLease
  <2>3. proc'[w].pc = "returned" => proc'[w].result \in Given /\ proc'[w].since > MaxPollLag
    BY <1>4, <1>5 DEF LineSound, WorkerSound, Working
  <2> QED  BY <2>1, <2>2, <2>3 DEF WorkerSound, SettlerSound, Settling, Finished
<1> QED  BY <1>2, <1>6, <1>7, <1>9, <1>10 DEF LineSound

-----------------------------------------------------------------------------
\* Every step.

\* The empty line is sound.
LEMMA LineStarts == LineInit => LineSound
<1> SUFFICES ASSUME LineInit PROVE LineSound
  OBVIOUS
<1>1. IInv
  BY InitInv DEF LineInit
<1>2. LineTypeOK /\ OfferSound
  BY DEF LineInit, LineTypeOK, WorkerStates, Idle, Offers, NoOffer, OfferSound
<1>3. \A r \in Runs : RunSound(r)
  BY DEF LineInit, Init, RunSound, JobsOf, NoJob, Open, RUN_OPEN_JOB_STATUSES
<1>4. \A w \in Workers : proc[w].pc = "idle"
  BY DEF LineInit, Idle
<1>5. \A r \in Runs : Handled(r)
  BY <1>4 DEF Handled, Working
<1>6. \A w \in Workers : WorkerSound(w) /\ SettlerSound(w)
  BY <1>4 DEF WorkerSound, SettlerSound, HoldsLease, Settling, Finished
<1> QED  BY <1>1, <1>2, <1>3, <1>5, <1>6 DEF LineSound

\* What a worker does.
LEMMA WorkerSteps ==
  ASSUME Timely, LineSound, NEW w \in Workers, WorkerStep(w)
  PROVE  LineStep
<1>1. ASSUME NEW lag \in 0 .. MaxPollLag, PollClaim(w, lag) PROVE LineStep
  BY <1>1, PollClaimSteps
<1>2. CASE FirstBeat(w) \/ LeaseBeat(w) \/ CycleBeat(w)
  BY <1>2, BeatsStep
<1>3. CASE HandlerDone(w)
  BY <1>3, HandlerSteps
<1>4. CASE FinishStep(w)
  BY <1>4, FinishSteps
<1>5. CASE ResolveBounce(w)
  BY <1>5, BounceSteps
<1>6. CASE MaterializeStep(w)
  BY <1>6, MaterializeSteps
<1>7. CASE SettleCycle(w)
  BY <1>7, SettleSteps
<1>8. ASSUME NEW lag \in 0 .. MaxPollLag, FindOrphan(w, lag) PROVE LineStep
  BY <1>8, FindSteps
<1>9. ASSUME NEW lag \in 0 .. MaxPollLag, CloseGhost(w, lag) PROVE FALSE
  BY <1>9, NoGhosts
<1>10. CASE RepairOrphan(w)
  BY <1>10, RepairSteps
<1>11. CASE RecheckOrphan(w)
  BY <1>11, RecheckSteps
<1>12. CASE Crash(w)
  BY <1>12, CrashSteps
<1> QED
  BY <1>1, <1>2, <1>3, <1>4, <1>5, <1>6, <1>7, <1>8, <1>9, <1>10, <1>11, <1>12
  DEF WorkerStep, StageStep, SweepStep

\* Every step but a tick.
LEMMA LineSteps ==
  ASSUME Timely, LineSound, LineNext, ~ LineTick
  PROVE  LineStep
<1>1. CASE Recycle
  BY <1>1, RecycleSteps
<1>2. CASE \E w \in Workers : WorkerStep(w)
  BY <1>2, WorkerSteps
<1>3. CASE ListAdmission \/ ReserveOffer
  BY <1>3, AdmissionSteps, ReserveSteps
<1>4. CASE Scan
  BY <1>4, ReconcileSteps, FleetScanSteps DEF Scan
<1>5. CASE OwnerResume \/ OwnerCancel \/ Intake
  BY <1>5, ResumeSteps, CancelSteps, IntakeSteps
<1> QED  BY <1>1, <1>2, <1>3, <1>4, <1>5 DEF LineNext

\* Every step of the line keeps it sound.
LEMMA LineInduction ==
  ASSUME Timely, LineSound, [LineNext]_lineVars
  PROVE  LineSound'
<1>1. CASE LineTick
  BY <1>1, TickKeeps
<1>2. CASE LineNext /\ ~ LineTick
  BY <1>2, LineSteps, LineKeeps
<1>3. CASE UNCHANGED lineVars
  <2>1. SoftStep /\ UNCHANGED <<proc, offer>>
    BY <1>3, StoreSoft DEF lineVars
  <2> QED  BY <2>1, SoftOnly, LineKeeps
<1> QED  BY <1>1, <1>2, <1>3

-----------------------------------------------------------------------------
\* The theorems.

\* The parts of LineSound in every reachable state.
THEOREM LineInvariance == ASSUME Timely PROVE LineSpec => []LineSound
<1>1. LineInit => LineSound
  BY LineStarts
<1>2. LineSound /\ [LineNext]_lineVars => LineSound'
  BY LineInduction
<1> QED  BY <1>1, <1>2, PTL DEF LineSpec

\* The open jobs of a sound run are one job at most.
LEMMA OpenIsOne ==
  ASSUME LineSound
  PROVE  LinearRun
<1> SUFFICES ASSUME NEW r \in Runs PROVE Cardinality(OpenJobs(r)) =< 1
  BY DEF LinearRun
<1>1. ASSUME NEW j \in OpenJobs(r), NEW k \in OpenJobs(r) PROVE j = k
  <2>1. j \in Keys /\ k \in Keys /\ j.run = r /\ k.run = r /\ Open(j) /\ Open(k)
    BY <1>1 DEF OpenJobs, JobsOf, Open
  <2>2. Leads(j) /\ Leads(k)
    BY <2>1, OpenLeads DEF LineSound
  <2> QED  BY <2>1, <2>2, OneLeader DEF LineSound
<1>2. CASE OpenJobs(r) = {}
  BY <1>2, FS_EmptySet
<1>3. CASE OpenJobs(r) # {}
  <2>1. PICK k : k \in OpenJobs(r)
    BY <1>3
  <2>2. OpenJobs(r) = {k}
    BY <1>1, <2>1
  <2> QED  BY <2>2, FS_Singleton
<1> QED  BY <1>2, <1>3

\* A run never has two jobs to do at once, however claims, finishes, lease expiry,
\* materialize_result, repairs, resumes and crashes interleave.
THEOREM OneJobAtATime == ASSUME Timely PROVE LineSpec => []LinearRun
<1>1. LineSound => LinearRun
  BY OpenIsOne
<1> QED  BY <1>1, LineInvariance, PTL

\* A run that is completed, failed or cancelled has no open job.
THEOREM ClosedIsQuiet == ASSUME Timely PROVE LineSpec => []TerminalQuiet
<1>1. LineSound => TerminalQuiet
  BY DEF LineSound, RunSound, TerminalQuiet, OpenJobs, Open
<1> QED  BY <1>1, LineInvariance, PTL

\* No step, of a worker that still runs the stage or of a sweep, moves a cancelled run
\* or a job of it.
LEMMA DeadStays ==
  ASSUME Timely, LineSound, [LineNext]_lineVars, NEW r \in Runs
  PROVE  StaysDead(r)
<1>1. CASE LineTick
  BY <1>1, TickRows DEF LineTick, StaysDead, JobsOf, LineSound
<1>2. CASE LineNext /\ ~ LineTick
  <2>1. CASE RunSoft(r)
    <3>1. ASSUME runs[r] = "cancelled", NEW k \in JobsOf(r) PROVE jobs'[k] = jobs[k]
      BY <2>1, <3>1 DEF RunSoft, LineSound, RunSound
    <3> QED  BY <2>1, <3>1 DEF RunSoft, StaysDead
  <2> QED  BY <1>2, <2>1, LineSteps DEF LineStep, RunSteps
<1>3. CASE UNCHANGED lineVars
  BY <1>3 DEF lineVars, vars, StaysDead
<1> QED  BY <1>1, <1>2, <1>3

\* What the owner cancels stays cancelled, with every job of it.
THEOREM DeadStaysDead == ASSUME Timely PROVE LineSpec => CancelledStaysDead
<1>1. LineSound /\ [LineNext]_lineVars =>
        [\A r \in Runs : runs[r] = "cancelled" =>
           /\ runs'[r] = "cancelled"
           /\ \A k \in JobsOf(r) : jobs'[k].status = jobs[k].status]_lineVars
  BY DeadStays DEF StaysDead
<1> QED  BY <1>1, LineInvariance, PTL DEF LineSpec, CancelledStaysDead

\* Every step of a straight line keeps its runs on track.
LEMMA TrackInduction ==
  ASSUME Timely, Straight, LineSound, [LineNext]_lineVars, NEW r \in Runs, OnTrack(r)
  PROVE  OnTrack(r)'
<1>1. CASE LineTick
  <2>1. IInv /\ Tick
    BY <1>1 DEF LineSound, LineTick
  <2>2. /\ runs' = runs /\ \A k \in Keys : jobs'[k].status = jobs[k].status
    BY <2>1, TickRows
  <2>3. /\ Delivered(r) => Delivered(r)'
        /\ HasFailed(jobs, r) => HasFailed(jobs, r)'
        /\ Decided(r) => Decided(r)'
    BY <2>2, DecidedKeeps DEF JobsOf
  <2>4. ASSUME NEW k \in JobsOf(r), Leads(k), Farthest(k), jobs[k].status # "replan"
        PROVE  k \in (JobsOf(r))' /\ Leads(k)' /\ Farthest(k)' /\ jobs'[k].status # "replan"
    <3>1. k \in Keys
      BY DEF JobsOf
    <3>2. Leads(k)'
      BY <2>1, <2>4, <3>1, TickLeads
    <3>3. (Others(k))' = Others(k)
      BY <2>2 DEF Others, Present
    <3> QED  BY <2>2, <2>4, <3>1, <3>2, <3>3 DEF Farthest, JobsOf
  <2>5. ASSUME runs[r] = "active"
        PROVE  \/ Decided(r)'
               \/ (\E k \in JobsOf(r) : Leads(k) /\ Farthest(k) /\ jobs[k].status # "replan")'
    BY <2>3, <2>4, <2>5 DEF OnTrack
  <2> QED  BY <2>2, <2>3, <2>5 DEF OnTrack
<1>2. CASE LineNext /\ ~ LineTick
  <2>1. RunSteps(r)
    BY <1>2, LineSteps DEF LineStep
  <2>2. CASE RunSoft(r)
    BY <2>2, SoftTrack DEF LineSound
  <2>3. CASE StaysOnTrack(r)
    BY <2>3 DEF StaysOnTrack
  <2> QED  BY <2>1, <2>2, <2>3 DEF RunSteps
<1>3. CASE UNCHANGED lineVars
  <2>1. RunSoft(r)
    BY <1>3 DEF lineVars, vars, RunSoft
  <2> QED  BY <2>1, SoftTrack DEF LineSound
<1> QED  BY <1>1, <1>2, <1>3

\* Where no handler sends a run back, a run is closed as completed only after its
\* build_deploy stage succeeded: no crash, reclaim, retry, wait or repair closes it early.
THEOREM CompletedIsDelivered == ASSUME Timely, Straight PROVE LineSpec => []CompletedMeansDelivered
<1> DEFINE Tracked == \A r \in Runs : OnTrack(r)
<1>1. LineInit => Tracked
  BY DEF LineInit, Init, OnTrack
<1>2. LineSound /\ Tracked /\ [LineNext]_lineVars => Tracked'
  BY TrackInduction
<1>3. Tracked => CompletedMeansDelivered
  BY DEF OnTrack, Delivered, CompletedMeansDelivered
<1> QED  BY <1>1, <1>2, <1>3, LineInvariance, PTL DEF LineSpec

-----------------------------------------------------------------------------
\* The slots of the fleet.

\* The fleet is managed, so that every claim is made under a reservation, and a host runs
\* one worker (docs/runbooks/fleet_workers.md, item 1).  Without either, a worker that lets go of its slot may take the slot of a
\* claim that another worker has made since.
OnePerHost == Managed /\ \A v, w \in Workers : HostOf[v] = HostOf[w] => v = w

\* A claim names a reservation of the table.
Booked(l) ==
  claims[l].status # "absent" =>
    /\ claims[l].reservation \in Reservations
    /\ reservations[claims[l].reservation].status # "absent"

\* A worker runs on the host of the reservation it claimed under, no other active claim is
\* under that reservation, and its own is not active any more once it has finished.
Past == {"bounce", "resolved", "closing"}

Seated(w) ==
  HoldsLease(w) =>
    LET m == proc[w].lease IN
    /\ reservations[claims[m].reservation].host = HostOf[w]
    /\ proc[w].pc \in Past => claims[m].status # "active"
    /\ \A l \in Leases : claims[l].status = "active"
                         /\ claims[l].reservation = claims[m].reservation => l = m

SlotSound ==
  /\ ClaimsUnderReservation
  /\ \A l \in Leases : Booked(l)
  /\ \A w \in Workers : Seated(w)

\* What every step but a claim does to the claims, the reservations and the workers: claims
\* close, a reservation stays what it is and live while an active claim is under it, and a
\* worker goes on with its lease or drops it.
ClaimsClose ==
  \A l \in Leases :
    /\ claims'[l].key = claims[l].key /\ claims'[l].reservation = claims[l].reservation
    /\ claims'[l].status = "absent" <=> claims[l].status = "absent"
    /\ claims'[l].status = "active" => claims[l].status = "active"

SlotsStay ==
  \A x \in Reservations : reservations[x].status # "absent" =>
    /\ reservations'[x].status # "absent"
    /\ reservations'[x].run = reservations[x].run
    /\ reservations'[x].host = reservations[x].host
    /\ \/ reservations[x].status \in LiveReservation => reservations'[x].status \in LiveReservation
       \/ \A l \in Leases : claims'[l].status = "active" => claims[l].reservation # x

Carries(w) ==
  HoldsLease(w)' =>
    /\ HoldsLease(w) /\ proc'[w].lease = proc[w].lease
    /\ proc'[w].pc \in Past /\ proc[w].pc \notin Past => claims'[proc[w].lease].status # "active"

\* Such a step keeps the slots sound.
LEMMA SlotsKeep ==
  ASSUME LineSound, SlotSound, ClaimsClose, SlotsStay, \A w \in Workers : Carries(w)
  PROVE  SlotSound'
<1>1. ASSUME NEW l \in Leases PROVE Booked(l)'
  BY DEF Booked, SlotSound, ClaimsClose, SlotsStay
<1>2. ASSUME NEW l \in Leases, claims'[l].status = "active", claims'[l].reservation # NoReservation
      PROVE  (claims[l].reservation \in LiveOf(claims[l].key.run))'
  <2>1. /\ claims[l].status = "active" /\ claims[l].key = claims'[l].key
        /\ claims[l].reservation = claims'[l].reservation
    BY <1>2 DEF ClaimsClose
  <2>2. PICK x \in Reservations : x = claims[l].reservation
    BY <2>1 DEF SlotSound, Booked
  <2>3. reservations[x].status \in LiveReservation /\ reservations[x].run = claims[l].key.run
    BY <1>2, <2>1, <2>2 DEF SlotSound, ClaimsUnderReservation, LiveOf
  <2>4. reservations[x].status # "absent"
    BY <2>1, <2>2 DEF SlotSound, Booked
  <2>5. reservations'[x].status \in LiveReservation /\ reservations'[x].run = reservations[x].run
    BY <1>2, <2>2, <2>3, <2>4 DEF SlotsStay
  <2> QED  BY <2>1, <2>2, <2>3, <2>5 DEF LiveOf
<1>3. ASSUME NEW w \in Workers PROVE Seated(w)'
  <2> SUFFICES ASSUME HoldsLease(w)' PROVE Seated(w)'
    BY DEF Seated
  <2>1. HoldsLease(w) /\ proc'[w].lease = proc[w].lease
    BY DEF Carries
  <2>2. PICK m \in Leases : m = proc[w].lease
    BY <2>1, HeldClaims
  <2>3. claims[m].status # "absent" /\ Booked(m) /\ Seated(w)
    BY <2>1, <2>2, HeldClaims DEF SlotSound
  <2>4. claims'[m].reservation = claims[m].reservation
    BY DEF ClaimsClose
  <2>5. reservations'[claims[m].reservation].host = HostOf[w]
    BY <2>1, <2>2, <2>3 DEF Seated, Booked, SlotsStay
  <2>6. proc'[w].pc \in Past => claims'[m].status # "active"
    BY <2>1, <2>2, <2>3 DEF Seated, Carries, ClaimsClose
  <2>7. ASSUME NEW l \in Leases, claims'[l].status = "active",
               claims'[l].reservation = claims[m].reservation
        PROVE  l = m
    <3>1. claims[l].status = "active" /\ claims[l].reservation = claims[m].reservation
      BY <2>7 DEF ClaimsClose
    <3> QED  BY <2>1, <2>2, <2>3, <3>1 DEF Seated
  <2> QED  BY <2>1, <2>2, <2>4, <2>5, <2>6, <2>7 DEF Seated
<1> QED  BY <1>1, <1>2, <1>3 DEF SlotSound, ClaimsUnderReservation

\* Nothing happens to the claims and the reservations.
LEMMA TablesStay == ASSUME UNCHANGED <<claims, reservations>> PROVE ClaimsClose /\ SlotsStay
  BY DEF ClaimsClose, SlotsStay

\* Closing a claim, or a reservation, keeps its other columns.
LEMMA ClosedColumns ==
  /\ \A row \in ClaimRows, s \in {"released", "expired"} :
       /\ Closed(row, s).status = s /\ Closed(row, s).key = row.key
       /\ Closed(row, s).reservation = row.reservation
  /\ \A row \in ReservationRows, s \in ReservationStatuses :
       /\ Closed(row, s).status = s /\ Closed(row, s).run = row.run /\ Closed(row, s).host = row.host
  BY DEF Closed, ClaimRows, ReservationRows

\* Claims that are closed, and reservations that stay.
LEMMA ClosingClaims ==
  ASSUME IInv, UNCHANGED reservations,
         \A l \in Leases : \/ claims'[l] = claims[l]
                           \/ /\ claims[l].status # "absent"
                              /\ \E s \in {"released", "expired"} : claims'[l] = Closed(claims[l], s)
  PROVE  ClaimsClose /\ SlotsStay
<1>1. ASSUME NEW l \in Leases
      PROVE  /\ claims'[l].key = claims[l].key /\ claims'[l].reservation = claims[l].reservation
             /\ claims'[l].status = "absent" <=> claims[l].status = "absent"
             /\ claims'[l].status = "active" => claims[l].status = "active"
  <2>1. claims[l] \in ClaimRows
    BY RowParts
  <2>2. CASE claims'[l] = claims[l]
    BY <2>2
  <2>3. CASE claims'[l] # claims[l]
    <3>1. PICK s \in {"released", "expired"} : claims'[l] = Closed(claims[l], s)
      BY <2>3
    <3>2. claims[l].status # "absent"
      BY <2>3
    <3> QED  BY <2>1, <3>1, <3>2, ClosedColumns
  <2> QED  BY <2>2, <2>3
<1> QED  BY <1>1 DEF ClaimsClose, SlotsStay

\* The runs in R lose their claims, and no other run loses a live reservation.
LEMMA SweepSlots ==
  ASSUME IInv, SlotSound, NEW STATE R, claims' = ReleasedClaims(R),
         \A x \in Reservations : reservations[x].status # "absent" =>
           /\ reservations'[x].status # "absent"
           /\ reservations'[x].run = reservations[x].run
           /\ reservations'[x].host = reservations[x].host
           /\ reservations[x].status \in LiveReservation /\ reservations[x].run \notin R =>
                reservations'[x].status \in LiveReservation
  PROVE  ClaimsClose /\ SlotsStay
<1>1. ASSUME NEW l \in Leases
      PROVE  /\ claims'[l].key = claims[l].key /\ claims'[l].reservation = claims[l].reservation
             /\ claims'[l].status = "absent" <=> claims[l].status = "absent"
             /\ claims'[l].status = "active" => claims[l].status = "active" /\ claims[l].key.run \notin R
  BY RowParts, ClosedColumns DEF ReleasedClaims
<1>2. ASSUME NEW x \in Reservations, reservations[x].status \in LiveReservation,
             reservations[x].run \in R, NEW l \in Leases, claims'[l].status = "active"
      PROVE  claims[l].reservation # x
  <2>1. claims[l].status = "active" /\ claims[l].key.run \notin R
    BY <1>1, <1>2
  <2>2. claims[l].reservation = x => x \in LiveOf(claims[l].key.run)
    BY <2>1, StoreAssumption DEF SlotSound, ClaimsUnderReservation
  <2> QED  BY <1>2, <2>1, <2>2 DEF LiveOf
<1>3. ClaimsClose
  BY <1>1 DEF ClaimsClose
<1> QED  BY <1>2, <1>3 DEF SlotsStay

\* The fleet's sweeps: a heartbeat that finds its reservation expired, and the
\* reconciliation, alone or with the next reservation.
LEMMA SweptSlots ==
  ASSUME IInv, SlotSound, NEW lag \in Lags, claims' = ReleasedClaims(SweptRuns(lag)),
         \A x \in Reservations : reservations[x].status # "absent" =>
           reservations'[x] = SweptReservations(lag)[x]
  PROVE  ClaimsClose /\ SlotsStay
<1>1. ASSUME NEW x \in Reservations, reservations[x].status # "absent"
      PROVE  /\ reservations'[x].status # "absent"
             /\ reservations'[x].run = reservations[x].run
             /\ reservations'[x].host = reservations[x].host
             /\ reservations[x].status \in LiveReservation
                /\ reservations[x].run \notin SweptRuns(lag) =>
                  reservations'[x].status \in LiveReservation
  <2>1. reservations[x] \in ReservationRows /\ "expired" \in ReservationStatuses
    BY RowParts DEF ReservationStatuses
  <2>2. CASE x \in ExpiredReservations(lag)
    <3>1. reservations'[x] = Closed(reservations[x], "expired")
      BY <1>1, <2>2 DEF SweptReservations
    <3> QED  BY <2>1, <2>2, <3>1, ClosedColumns DEF SweptRuns
  <2>3. CASE x \notin ExpiredReservations(lag)
    BY <1>1, <2>3 DEF SweptReservations
  <2> QED  BY <2>2, <2>3
<1> QED  BY <1>1, SweepSlots

LEMMA BeatSlots ==
  ASSUME IInv, SlotSound, NEW y \in Reservations, NEW lag \in Lags, HeartbeatReservation(y, lag)
  PROVE  ClaimsClose /\ SlotsStay
<1>1. \A x \in Reservations : reservations[x] \in ReservationRows
  BY RowParts
<1>2. CASE Passed(reservations[y].ttl, lag)
  <2>1. /\ reservations' = [reservations EXCEPT ![y] = Closed(reservations[y], "expired")]
        /\ claims' = ReleasedClaims({reservations[y].run})
        /\ reservations \in [Reservations -> ReservationRows]
    BY <1>2 DEF HeartbeatReservation, IInv, TypeOK
  <2>2. /\ Closed(reservations[y], "expired").status = "expired"
        /\ Closed(reservations[y], "expired").run = reservations[y].run
        /\ Closed(reservations[y], "expired").host = reservations[y].host
    BY <1>1, ClosedColumns DEF ReservationStatuses
  <2>3. ASSUME NEW x \in Reservations, reservations[x].status # "absent"
        PROVE  /\ reservations'[x].status # "absent"
               /\ reservations'[x].run = reservations[x].run
               /\ reservations'[x].host = reservations[x].host
               /\ reservations[x].status \in LiveReservation
                  /\ reservations[x].run \notin {reservations[y].run} =>
                    reservations'[x].status \in LiveReservation
    BY <2>1, <2>2, <2>3
  <2> QED  BY <2>1, <2>3, SweepSlots
<1>3. CASE ~ Passed(reservations[y].ttl, lag)
  <2>1. /\ claims' = claims
        /\ reservations' = [reservations EXCEPT ![y].ttl = LeaseDuration - lag]
        /\ reservations \in [Reservations -> ReservationRows]
    BY <1>3 DEF HeartbeatReservation, IInv, TypeOK
  <2>2. \A x \in Reservations :
          /\ reservations'[x].status = reservations[x].status
          /\ reservations'[x].run = reservations[x].run
          /\ reservations'[x].host = reservations[x].host
    BY <2>1 DEF ReservationRows
  <2> QED  BY <2>1, <2>2 DEF ClaimsClose, SlotsStay
<1> QED  BY <1>2, <1>3

\* Cancelling a run closes its claims and its reservations.
LEMMA CancelSlots ==
  ASSUME IInv, SlotSound, NEW r \in Runs, NEW lag \in Lags, CancelRun(r, lag)
  PROVE  ClaimsClose /\ SlotsStay
<1>1. claims' = ReleasedClaims({r})
  BY DEF CancelRun
<1>2. ASSUME NEW x \in Reservations, reservations[x].status # "absent"
      PROVE  /\ reservations'[x].status # "absent"
             /\ reservations'[x].run = reservations[x].run
             /\ reservations'[x].host = reservations[x].host
             /\ reservations[x].status \in LiveReservation /\ reservations[x].run \notin {r} =>
                  reservations'[x].status \in LiveReservation
  <2>1. reservations[x] \in ReservationRows /\ "cancelled" \in ReservationStatuses
    BY RowParts DEF ReservationStatuses, ReleaseStatuses
  <2>2. reservations'[x] = IF x \in LiveOf(r) THEN Closed(reservations[x], "cancelled")
                           ELSE reservations[x]
    BY DEF CancelRun
  <2> QED  BY <1>2, <2>1, <2>2, ClosedColumns DEF LiveOf
<1> QED  BY <1>1, <1>2, SweepSlots

\* A renewal, and the passing of time, change the expiries alone.
LEMMA ExpirySlots ==
  ASSUME IInv, RenewOpenRunReservations(0) \/ Tick
  PROVE  ClaimsClose /\ SlotsStay
<1>1. /\ \A l \in Leases : claims[l] \in ClaimRows
      /\ \A x \in Reservations : reservations[x] \in ReservationRows
  BY RowParts
<1>2. \A l \in Leases : /\ claims'[l].key = claims[l].key /\ claims'[l].status = claims[l].status
                        /\ claims'[l].reservation = claims[l].reservation
  <2>1. CASE Tick
    <3>1. \A l \in Leases : claims'[l] = [claims[l] EXCEPT !.ttl = CountDown(@)]
      BY <2>1 DEF Tick
    <3> QED  BY <1>1, <3>1 DEF ClaimRows
  <2>2. CASE RenewOpenRunReservations(0)
    BY <2>2 DEF RenewOpenRunReservations
  <2> QED  BY <2>1, <2>2
<1>3. \A x \in Reservations : /\ reservations'[x].status = reservations[x].status
                              /\ reservations'[x].run = reservations[x].run
                              /\ reservations'[x].host = reservations[x].host
  BY <1>1, ZenonT(60) DEF RenewOpenRunReservations, Tick, ReservationRows
<1> QED  BY <1>2, <1>3 DEF ClaimsClose, SlotsStay

\* A job that is settled lets its lease go.
LEMMA SettledSlots ==
  ASSUME IInv, NEW STATE k, k \in Keys, UNCHANGED reservations,
         claims' = [l \in Leases |->
                      IF jobs[k].status \in {"pending", "running"} /\ l = jobs[k].lease
                      THEN Closed(claims[l], "released") ELSE claims[l]]
  PROVE  ClaimsClose /\ SlotsStay
<1>1. ASSUME NEW l \in Leases, l = jobs[k].lease, jobs[k].status \in {"pending", "running"}
      PROVE  claims[l].status # "absent"
  BY <1>1, StoreAssumption DEF IInv, RunningIsLeased
<1> QED  BY <1>1, ClosingClaims

LEMMA FinishSlots ==
  ASSUME IInv, NEW l \in Leases, NEW o, NEW lag \in Lags, Finish(l, o, lag)
  PROVE  ClaimsClose /\ SlotsStay /\ claims'[l].status # "active"
<1>1. /\ claims' = [claims EXCEPT ![l] = Closed(claims[l], "released")]
      /\ UNCHANGED reservations /\ claims[l].status = "active"
      /\ claims \in [Leases -> ClaimRows]
  BY DEF Finish, CanFinish, Holds, IInv, TypeOK
<1>2. claims'[l].status = "released"
  BY <1>1, ClosedColumns
<1>3. ClaimsClose /\ SlotsStay
  BY <1>1, ClosingClaims
<1> QED  BY <1>2, <1>3

LEMMA ReconcileSlots ==
  ASSUME IInv, Reconcile(0)
  PROVE  ClaimsClose /\ SlotsStay
<1>1. UNCHANGED reservations
      /\ \A l \in Leases : \/ claims'[l] = claims[l]
                           \/ /\ claims[l].status # "absent"
                              /\ claims'[l] = Closed(claims[l], "expired")
  BY DEF Reconcile, ExpiredClaims
<1> QED  BY <1>1, ClosingClaims

LEMMA HeartbeatSlots ==
  ASSUME IInv, NEW m \in Leases, Heartbeat(m, 0)
  PROVE  ClaimsClose /\ SlotsStay
<1>1. /\ claims' = [claims EXCEPT ![m].ttl = LeaseDuration - 0] /\ UNCHANGED reservations
      /\ claims \in [Leases -> ClaimRows]
  BY DEF Heartbeat, IInv, TypeOK
<1>2. \A l \in Leases : /\ claims'[l].key = claims[l].key /\ claims'[l].status = claims[l].status
                        /\ claims'[l].reservation = claims[l].reservation
  BY <1>1 DEF ClaimRows
<1> QED  BY <1>1, <1>2 DEF ClaimsClose, SlotsStay

\* Who does not move carries on.
LEMMA IdleCarries ==
  ASSUME LineSound, SlotSound, ClaimsClose, SlotsStay, UNCHANGED proc
  PROVE  SlotSound'
<1>1. \A w \in Workers : Carries(w)
  BY DEF Carries, HoldsLease
<1> QED  BY <1>1, SlotsKeep

\* A worker goes on, and the others stay.
LEMMA GotoCarries ==
  ASSUME LineSound, SlotSound, ClaimsClose, SlotsStay, NEW w \in Workers, NEW STATE s, Goto(w, s),
         s.pc \in {"handler", "returned"} \cup Past =>
           /\ HoldsLease(w) /\ s.lease = proc[w].lease
           /\ s.pc \in Past /\ proc[w].pc \notin Past => claims'[proc[w].lease].status # "active"
  PROVE  SlotSound'
<1>1. proc'[w] = s /\ \A v \in Workers \ {w} : proc'[v] = proc[v]
  BY DEF Goto, LineSound, LineTypeOK
<1>2. ASSUME NEW v \in Workers PROVE Carries(v)
  <2>1. CASE v = w
    BY <1>1, <2>1 DEF Carries, HoldsLease, Past
  <2>2. CASE v # w
    BY <1>1, <2>2 DEF Carries, HoldsLease
  <2> QED  BY <2>1, <2>2
<1> QED  BY <1>2, SlotsKeep

\* A claim: its job waited, so nobody else works on the run, and who still settles a job
\* under the same reservation would be the claimer, for they are on one host.
LEMMA ClaimSlots ==
  ASSUME Timely, OnePerHost, LineSound, SlotSound, NEW w \in Workers, NEW lag \in 0 .. MaxPollLag,
         PollClaim(w, lag)
  PROVE  SlotSound'
<1>1. PICK k \in Keys, l \in Leases, x \in Reservations \cup {NoReservation} :
        /\ proc[w].pc = "idle" /\ Claim(w, k, l, x, lag)
        /\ Goto(w, [pc |-> "handler", lease |-> l, since |-> lag, beat |-> "first"])
  BY DEF PollClaim
<1>2. /\ x \in Reservations /\ reservations[x].status \in LiveReservation
      /\ reservations[x].run = k.run /\ reservations[x].host = HostOf[w]
  BY <1>1 DEF Claim, ClaimReservation, LiveOf, OnePerHost
<1>3. /\ jobs[k].status = "pending" /\ claims[l].status = "absent"
      /\ claims'[l].status = "active" /\ claims'[l].key = k /\ claims'[l].reservation = x
      /\ \A m \in Leases \ {l} : claims'[m] = claims[m]
  BY <1>1 DEF Claim, LineSound, IInv, TypeOK
<1>4. \A y \in Reservations : /\ reservations'[y].status = reservations[y].status
                              /\ reservations'[y].run = reservations[y].run
                              /\ reservations'[y].host = reservations[y].host
  <2>1. \A y \in Reservations : reservations[y] \in ReservationRows
    BY RowParts DEF LineSound
  <2>2. \A y \in Reservations : \/ reservations'[y] = reservations[y]
                                \/ reservations'[y] = [reservations[y] EXCEPT !.ttl = LeaseDuration - lag]
    BY <1>1 DEF Claim
  <2> QED  BY <2>1, <2>2 DEF ReservationRows
<1>5. ASSUME NEW m \in Leases, claims[m].status = "active", claims[m].reservation = x PROVE FALSE
  <2>1. PICK j \in Keys : j = claims[m].key /\ jobs[j].status = "running" /\ Leads(j)
    BY <1>5, ClaimLeads
  <2>2. j.run = k.run
    BY <1>2, <1>5, <2>1, StoreAssumption DEF SlotSound, ClaimsUnderReservation, LiveOf
  <2>3. Leads(k)
    BY <1>3, RowTimes, OpenLeads DEF LineSound, Open, RUN_OPEN_JOB_STATUSES
  <2>4. j = k
    BY <2>1, <2>2, <2>3, OneLeader DEF LineSound
  <2> QED  BY <1>3, <2>1, <2>4
<1>6. ASSUME NEW m \in Leases PROVE Booked(m)'
  BY <1>2, <1>3, <1>4 DEF SlotSound, Booked, LiveReservation
<1>7. ASSUME NEW m \in Leases, claims'[m].status = "active", claims'[m].reservation # NoReservation
      PROVE  (claims[m].reservation \in LiveOf(claims[m].key.run))'
  <2>1. CASE m = l
    BY <1>2, <1>3, <1>4, <2>1 DEF LiveOf
  <2>2. CASE m # l
    BY <1>3, <1>4, <1>7, <2>2 DEF SlotSound, ClaimsUnderReservation, LiveOf
  <2> QED  BY <2>1, <2>2
<1>8. /\ proc'[w].pc = "handler" /\ proc'[w].lease = l
      /\ \A v \in Workers \ {w} : proc'[v] = proc[v]
  BY <1>1 DEF Goto, LineSound, LineTypeOK
<1>9. Seated(w)'
  <2>1. reservations'[x].host = HostOf[w]
    BY <1>2, <1>4
  <2>2. ASSUME NEW m \in Leases, claims'[m].status = "active", claims'[m].reservation = x
        PROVE  m = l
    BY <1>3, <1>5, <2>2
  <2> QED  BY <1>3, <1>8, <2>1, <2>2 DEF Seated, Past
<1>10. ASSUME NEW v \in Workers \ {w}, HoldsLease(v)' PROVE Seated(v)'
  <2>1. HoldsLease(v) /\ proc'[v] = proc[v]
    BY <1>8, <1>10 DEF HoldsLease
  <2>2. PICK n \in Leases : n = proc[v].lease
    BY <2>1, HeldClaims
  <2>3. claims[n].status # "absent" /\ Seated(v) /\ Booked(n)
    BY <2>1, <2>2, HeldClaims DEF SlotSound
  <2>4. claims'[n] = claims[n] /\ claims[n].reservation \in Reservations
    BY <1>3, <2>3 DEF Booked
  <2>5. reservations[claims[n].reservation].host = HostOf[v]
    BY <2>1, <2>2, <2>3 DEF Seated
  <2>6. claims[n].reservation # x
    BY <1>2, <2>5 DEF OnePerHost
  <2>7. ASSUME NEW m \in Leases, claims'[m].status = "active",
               claims'[m].reservation = claims[n].reservation
        PROVE  m = n
    BY <1>3, <2>1, <2>2, <2>3, <2>6, <2>7 DEF Seated
  <2>8. proc[v].pc \in Past => claims[n].status # "active"
    BY <2>1, <2>2, <2>3 DEF Seated
  <2>9. proc'[v].lease = n
    BY <2>1, <2>2
  <2>10. reservations'[claims'[n].reservation].host = HostOf[v]
    BY <1>4, <2>4, <2>5, <2>6
  <2>11. proc'[v].pc \in Past => claims'[n].status # "active"
    BY <2>1, <2>4, <2>8
  <2>12. \A m \in Leases : claims'[m].status = "active"
                           /\ claims'[m].reservation = claims'[n].reservation => m = n
    BY <2>4, <2>7
  <2> QED  BY <2>9, <2>10, <2>11, <2>12 DEF Seated
<1>11. \A v \in Workers : Seated(v)'
  BY <1>9, <1>10 DEF Seated
<1> QED  BY <1>6, <1>7, <1>11 DEF SlotSound, ClaimsUnderReservation

\* A worker gives up the reservation of its claim: no other claim is under it.
LEMMA SettleSlots ==
  ASSUME LineSound, SlotSound, NEW w \in Workers, SettleCycle(w)
  PROVE  SlotSound'
<1>1. proc[w].pc = "closing" /\ Goto(w, Idle) /\ Idle.pc = "idle"
  BY DEF SettleCycle, Idle
<1>2. PICK l \in Leases : l = proc[w].lease
  BY <1>1, HeldClaims DEF HoldsLease
<1>3. claims[l].reservation \in Reservations /\ claims[l].status # "active" /\ Seated(w)
  BY <1>1, <1>2, HeldClaims DEF SlotSound, Booked, Seated, HoldsLease, Past
<1>4. ClaimsClose /\ SlotsStay
  <2>1. CASE UNCHANGED vars
    BY <2>1, TablesStay DEF vars
  <2>2. CASE ~ UNCHANGED vars
    <3>1. PICK x \in SettleTargets(l), s \in SettleStatus(claims[l].key.run, proc[w].result.outcome) :
            ReleaseReservation(x, s)
      BY <1>2, <2>2 DEF SettleCycle
    <3>2. x = claims[l].reservation /\ x \in Reservations
      BY <1>3, <3>1, StoreAssumption DEF SettleTargets
    <3>3. s \in ReservationStatuses /\ s # "absent"
      BY <3>1 DEF SettleStatus, ReservationStatuses, ReleaseStatuses
    <3>4. claims' = claims
          /\ \A y \in Reservations : reservations'[y] = IF y = x THEN Closed(reservations[x], s)
                                                        ELSE reservations[y]
      BY <3>1, <3>2 DEF ReleaseReservation, LineSound, IInv, TypeOK
    <3>5. reservations[x] \in ReservationRows
      BY <3>2, RowParts DEF LineSound
    <3>6. \A m \in Leases : claims[m].status = "active" => claims[m].reservation # x
      BY <1>1, <1>2, <1>3, <3>2 DEF Seated, HoldsLease
    <3> QED  BY <3>3, <3>4, <3>5, <3>6, ClosedColumns DEF ClaimsClose, SlotsStay
  <2> QED  BY <2>1, <2>2
<1> QED  BY <1>1, <1>4, GotoCarries DEF Past

\* A worker that beats.
LEMMA BeatingSlots ==
  ASSUME LineSound, SlotSound, NEW w \in Workers, FirstBeat(w) \/ LeaseBeat(w) \/ CycleBeat(w)
  PROVE  SlotSound'
<1>1. proc[w].pc = "handler" /\ HoldsLease(w)
  BY DEF FirstBeat, LeaseBeat, CycleBeat, HoldsLease
<1>2. PICK m \in Leases : m = proc[w].lease
  BY <1>1, HeldClaims
<1>3. PICK b \in {"first", "lease", "cycle", "off"} : Goto(w, [proc[w] EXCEPT !.beat = b])
  BY DEF FirstBeat, LeaseBeat, CycleBeat
<1>4. PICK p \in WorkerStates : p = proc[w]
  BY DEF LineSound, LineTypeOK
<1>5. [proc[w] EXCEPT !.beat = b].pc = "handler" /\ [proc[w] EXCEPT !.beat = b].lease = proc[w].lease
  <2>1. p \in [pc : {"handler"}, lease : Leases, since : Lags,
               beat : {"first", "lease", "cycle", "off"}]
    BY <1>1, <1>4, Shapes
  <2> QED  BY <1>4, <2>1
<1>6. ClaimsClose /\ SlotsStay
  <2>1. ASSUME NEW lag \in Lags, BeatReservation(m, lag) PROVE ClaimsClose /\ SlotsStay
    <3>1. CASE BeatTargets(m) = {}
      BY <2>1, <3>1, TablesStay DEF BeatReservation, vars
    <3>2. CASE BeatTargets(m) # {}
      <4>1. PICK x \in BeatTargets(m) : HeartbeatReservation(x, lag)
        BY <2>1, <3>2 DEF BeatReservation
      <4>2. x \in Reservations
        BY <1>1, <1>2, HeldClaims DEF BeatTargets, LiveOf, SlotSound, Booked
      <4> QED  BY <4>1, <4>2, BeatSlots DEF LineSound
    <3> QED  BY <3>1, <3>2
  <2>2. CASE Heartbeat(m, 0)
    BY <2>2, HeartbeatSlots DEF LineSound
  <2>3. CASE UNCHANGED vars
    BY <2>3, TablesStay DEF vars
  <2>4. proc[w].since \in Lags /\ 0 \in Lags
    BY <1>1, WorkerFields, ZeroLag DEF LineSound, Working
  <2> QED  BY <1>2, <2>1, <2>2, <2>3, <2>4 DEF FirstBeat, LeaseBeat, CycleBeat
<1>7. PICK s : s = [proc[w] EXCEPT !.beat = b]
  OBVIOUS
<1> QED  BY <1>1, <1>3, <1>5, <1>6, <1>7, GotoCarries DEF Past

\* A handler that returns: if its run was cancelled its claim is closed.
LEMMA HandlerSlots ==
  ASSUME Timely, LineSound, SlotSound, NEW w \in Workers, HandlerDone(w)
  PROVE  SlotSound'
<1>1. proc[w].pc = "handler" /\ HoldsLease(w) /\ UNCHANGED vars
  BY DEF HandlerDone, HoldsLease
<1>2. PICK m \in Leases : m = proc[w].lease
  BY <1>1, HeldClaims
<1>3. ClaimsClose /\ SlotsStay
  BY <1>1, TablesStay DEF vars
<1>4. CASE runs[claims[m].key.run] = "cancelled"
  <2>1. PICK s : Goto(w, s) /\ s = [pc |-> "closing", lease |-> m,
                                    result |-> [Parking EXCEPT !.outcome = "cancelled"]]
    BY <1>2, <1>4 DEF HandlerDone
  <2>2. s.pc = "closing" /\ s.lease = m
    BY <2>1
  <2>3. claims'[m].status # "active"
    BY <1>1, <1>4, ClaimLeads DEF vars
  <2> QED  BY <1>1, <1>2, <1>3, <2>1, <2>2, <2>3, GotoCarries
<1>5. CASE runs[claims[m].key.run] # "cancelled"
  <2>1. PICK s : Goto(w, s) /\ s.pc = "returned" /\ s.lease = m
    BY <1>2, <1>5 DEF HandlerDone
  <2> QED  BY <1>1, <1>2, <1>3, <2>1, GotoCarries DEF Past
<1> QED  BY <1>4, <1>5

\* finish closes the claim.
LEMMA FinishedSlots ==
  ASSUME Timely, LineSound, SlotSound, NEW w \in Workers, FinishStep(w)
  PROVE  SlotSound'
<1>1. proc[w].pc = "returned" /\ HoldsLease(w)
  BY DEF FinishStep, HoldsLease
<1>2. PICK m \in Leases : m = proc[w].lease
  BY <1>1, HeldClaims
<1>3. PICK p \in WorkerStates : p = proc[w]
  BY DEF LineSound, LineTypeOK
<1>4. p \in [pc : {"returned", "bounce"}, lease : Leases, since : Lags, result : Results]
  BY <1>1, <1>3, Shapes
<1>5. PICK lag \in Lags : lag = p.since
  BY <1>4
<1>6. CASE Goto(w, Idle) /\ UNCHANGED vars
  <2>1. ClaimsClose /\ SlotsStay /\ Idle.pc = "idle"
    BY <1>6, TablesStay DEF vars, Idle
  <2> QED  BY <1>6, <2>1, GotoCarries DEF Past
<1>7. ASSUME NEW result \in {p.result, Failure}, Finish(m, result.outcome, lag),
             NEW STATE s, Goto(w, s), s.pc \in {"bounce", "resolved"}, s.lease = m
      PROVE  SlotSound'
  <2>1. ClaimsClose /\ SlotsStay /\ claims'[m].status # "active"
    <3>1. PICK o : o = result.outcome
      OBVIOUS
    <3> QED  BY <1>7, <3>1, FinishSlots DEF LineSound
  <2> QED  BY <1>1, <1>2, <1>7, <2>1, GotoCarries DEF Past
<1>8. CASE \E result \in {p.result, Failure} :
             /\ Finish(m, result.outcome, lag)
             /\ Goto(w, IF result.target # NoStage
                        THEN [p EXCEPT !.pc = "bounce", !.since = lag]
                        ELSE [pc |-> "resolved", lease |-> m, since |-> lag, result |-> result,
                              top |-> -1])
  <2>1. PICK result \in {p.result, Failure} :
             /\ Finish(m, result.outcome, lag)
             /\ Goto(w, IF result.target # NoStage
                        THEN [p EXCEPT !.pc = "bounce", !.since = lag]
                        ELSE [pc |-> "resolved", lease |-> m, since |-> lag, result |-> result,
                              top |-> -1])
    BY <1>8
  <2>2. PICK s : s = (IF result.target # NoStage
                      THEN [p EXCEPT !.pc = "bounce", !.since = lag]
                      ELSE [pc |-> "resolved", lease |-> m, since |-> lag, result |-> result,
                            top |-> -1])
    OBVIOUS
  <2>3. s.pc \in {"bounce", "resolved"} /\ s.lease = m
    BY <1>2, <1>3, <1>4, <2>2
  <2> QED  BY <1>7, <2>1, <2>2, <2>3
<1> QED  BY <1>2, <1>3, <1>5, <1>6, <1>8 DEF FinishStep, Timely

\* Between finish and the end of a settlement the claim of the worker stays closed.
LEMMA MaterializeSlots ==
  ASSUME LineSound, SlotSound, NEW w \in Workers, ResolveBounce(w) \/ MaterializeStep(w)
  PROVE  SlotSound'
<1>1. proc[w].pc \in Past /\ HoldsLease(w)
  BY DEF ResolveBounce, MaterializeStep, HoldsLease, Past
<1>2. PICK m \in Leases : m = proc[w].lease
  BY <1>1, HeldClaims
<1>3. PICK s : Goto(w, s) /\ s.pc \in {"resolved", "closing"} /\ s.lease = m
  BY <1>2 DEF ResolveBounce, MaterializeStep
<1>4. PICK k \in Keys : k = claims[m].key
  BY RowTimes DEF LineSound
<1>5. ClaimsClose /\ SlotsStay
  <2>1. CASE MaterializeStep(w)
    <3>1. /\ UNCHANGED reservations
          /\ claims' = [l \in Leases |->
                          IF jobs[k].status \in {"pending", "running"} /\ l = jobs[k].lease
                          THEN Closed(claims[l], "released") ELSE claims[l]]
      BY <1>2, <1>4, <2>1 DEF MaterializeStep, MaterializeResult
    <3> QED  BY <3>1, SettledSlots DEF LineSound
  <2>2. CASE ResolveBounce(w)
    BY <2>2, TablesStay DEF ResolveBounce, vars
  <2> QED  BY <2>1, <2>2
<1> QED  BY <1>1, <1>2, <1>3, <1>5, GotoCarries

\* A worker dies, or sweeps: it holds no lease then.
LEMMA SweepingSlots ==
  ASSUME LineSound, SlotSound, NEW w \in Workers,
         \/ Crash(w) \/ RepairOrphan(w) \/ RecheckOrphan(w)
         \/ \E lag \in 0 .. MaxPollLag : FindOrphan(w, lag)
  PROVE  SlotSound'
<1> DEFINE Off(s) == s.pc \notin {"handler", "returned"} \cup Past
<1>1. Idle.pc = "idle"
  BY DEF Idle
<1>2. PICK p \in WorkerStates : p = proc[w]
  BY DEF LineSound, LineTypeOK
<1>3. ASSUME p.pc = "repair" PROVE [p EXCEPT !.pc = "recheck"].pc = "recheck"
  <2>1. p \in [pc : {"repair", "recheck"}, key : Keys, since : Lags, result : Results]
    BY <1>3, Shapes
  <2> QED  BY <2>1
<1>4. \E s : Goto(w, s) /\ Off(s)
  <2>1. CASE Crash(w) \/ RecheckOrphan(w)
    BY <1>1, <2>1 DEF Crash, RecheckOrphan, Past
  <2>2. CASE RepairOrphan(w)
    BY <1>1, <1>2, <1>3, <2>2 DEF RepairOrphan, Past
  <2>3. ASSUME NEW lag \in 0 .. MaxPollLag, FindOrphan(w, lag) PROVE \E s : Goto(w, s) /\ Off(s)
    <3>1. PICK k, result : Goto(w, [pc |-> "repair", key |-> k, since |-> lag, result |-> result])
      BY <2>3 DEF FindOrphan
    <3>2. PICK s : s = [pc |-> "repair", key |-> k, since |-> lag, result |-> result]
      OBVIOUS
    <3>3. Off(s)
      BY <3>2 DEF Past
    <3> QED  BY <3>1, <3>2, <3>3
  <2> QED  BY <2>1, <2>2, <2>3
<1>5. PICK s : Goto(w, s) /\ Off(s)
  BY <1>4
<1>6. ClaimsClose /\ SlotsStay
  <2>1. CASE UNCHANGED vars
    BY <2>1, TablesStay DEF vars
  <2>2. ASSUME NEW k \in Keys, UNCHANGED reservations,
               claims' = [l \in Leases |->
                            IF jobs[k].status \in {"pending", "running"} /\ l = jobs[k].lease
                            THEN Closed(claims[l], "released") ELSE claims[l]]
        PROVE  ClaimsClose /\ SlotsStay
    BY <2>2, SettledSlots DEF LineSound
  <2>3. ASSUME NEW k \in Keys, NEW lag, Park(k, lag) PROVE ClaimsClose /\ SlotsStay
    BY <2>2, <2>3 DEF Park, MaterializeResult
  <2>4. CASE (RepairOrphan(w) \/ RecheckOrphan(w)) /\ ~ UNCHANGED vars
    <3>1. PICK k \in Keys : k = p.key
      BY <1>2, <2>4, WorkerFields DEF LineSound, RepairOrphan, RecheckOrphan
    <3>2. CASE Park(k, p.since)
      <4>1. PICK lag : lag = p.since
        OBVIOUS
      <4> QED  BY <2>3, <3>2, <4>1
    <3>3. CASE ~ Park(k, p.since)
      <4>1. \E overBudget \in BudgetReadings(p.result) :
              MaterializeResult(k, p.result, TopFor(k, p.result), overBudget, p.since)
        BY <1>2, <2>4, <3>1, <3>3 DEF RepairOrphan, RecheckOrphan
      <4> QED  BY <2>2, <4>1 DEF MaterializeResult
    <3> QED  BY <3>2, <3>3
  <2> QED  BY <2>1, <2>4 DEF Crash, FindOrphan
<1> QED  BY <1>5, <1>6, GotoCarries

\* The coordinator reserves; an expired reservation takes its run's claims with it.
LEMMA ReserveSlots ==
  ASSUME LineSound, SlotSound, ReserveOffer
  PROVE  SlotSound'
<1>1. proc' = proc /\ 0 \in Lags
  BY ZeroLag DEF ReserveOffer
<1>2. ASSUME NEW x \in Reservations, ReserveCycle(offer.run, offer.host, x, 0)
      PROVE  ClaimsClose /\ SlotsStay
  <2>1. claims' = ReleasedClaims(SweptRuns(0))
    BY <1>2 DEF ReserveCycle
  <2>2. ASSUME NEW y \in Reservations, reservations[y].status # "absent"
        PROVE  reservations'[y] = SweptReservations(0)[y]
    <3>1. SweptReservations(0) = [z \in Reservations |-> SweptReservations(0)[z]]
      BY DEF SweptReservations
    <3>2. \/ reservations' = SweptReservations(0)
          \/ /\ reservations[x].status = "absent"
             /\ reservations' = [SweptReservations(0) EXCEPT
                                   ![x] = [status |-> "active", run |-> offer.run, host |-> offer.host,
                                           ttl |-> LeaseDuration - 0]]
      BY <1>2 DEF ReserveCycle
    <3> QED  BY <2>2, <3>1, <3>2
  <2> QED  BY <1>1, <2>1, <2>2, SweptSlots DEF LineSound
<1>3. CASE UNCHANGED vars
  BY <1>1, <1>3, TablesStay, IdleCarries DEF vars
<1> QED  BY <1>1, <1>2, <1>3, IdleCarries DEF ReserveOffer

LEMMA ScanSlots ==
  ASSUME LineSound, SlotSound, Scan
  PROVE  SlotSound'
<1>1. proc' = proc /\ 0 \in Lags
  BY ZeroLag DEF Scan
<1>2. CASE Reconcile(0)
  BY <1>1, <1>2, ReconcileSlots, IdleCarries DEF LineSound
<1>3. CASE RenewOpenRunReservations(0)
  BY <1>1, <1>3, ExpirySlots, IdleCarries DEF LineSound
<1>4. CASE ReconcileFleetReservations(0)
  <2>1. /\ claims' = ReleasedClaims(SweptRuns(0))
        /\ reservations' = SweptReservations(0)
    BY <1>4 DEF ReconcileFleetReservations
  <2> QED  BY <1>1, <2>1, SweptSlots, IdleCarries DEF LineSound
<1> QED  BY <1>2, <1>3, <1>4 DEF Scan

\* What leaves claims and reservations alone, a cancellation, and time.
LEMMA OtherSlots ==
  ASSUME LineSound, SlotSound, ListAdmission \/ OwnerResume \/ OwnerCancel \/ Intake
  PROVE  SlotSound'
<1>1. proc' = proc /\ 0 \in Lags
  BY ZeroLag DEF ListAdmission, OwnerResume, OwnerCancel, Intake
<1>2. CASE ListAdmission \/ OwnerResume \/ Intake
  <2>1. UNCHANGED <<claims, reservations>>
    BY <1>2 DEF ListAdmission, OwnerResume, Intake, ResumeJob, Accept, vars
  <2> QED  BY <1>1, <2>1, TablesStay, IdleCarries
<1>3. CASE OwnerCancel
  BY <1>1, <1>3, CancelSlots, IdleCarries DEF OwnerCancel, LineSound
<1> QED  BY <1>2, <1>3

LEMMA TickSlots ==
  ASSUME LineSound, SlotSound, LineTick
  PROVE  SlotSound'
<1>1. ClaimsClose /\ SlotsStay
  BY ExpirySlots DEF LineTick, LineSound
<1>2. ASSUME NEW w \in Workers PROVE Carries(w)
  <2>1. PICK p \in WorkerStates : p = proc[w]
    BY DEF LineSound, LineTypeOK
  <2>2. proc'[w] = p \/ (Timed(w) /\ proc'[w] = [p EXCEPT !.since = @ + 1])
    <3>1. proc' = [v \in Workers |-> IF Timed(v) THEN [proc[v] EXCEPT !.since = @ + 1] ELSE proc[v]]
      BY DEF LineTick
    <3>2. proc'[w] = IF Timed(w) THEN [proc[w] EXCEPT !.since = @ + 1] ELSE proc[w]
      BY <3>1
    <3> QED  BY <2>1, <3>2
  <2>3. CASE proc'[w] = p
    BY <2>1, <2>3 DEF Carries, HoldsLease
  <2>4. CASE Timed(w) /\ proc'[w] = [p EXCEPT !.since = @ + 1]
    <3>1. HoldsLease(w) => proc'[w].pc = p.pc /\ proc'[w].lease = p.lease
      BY <2>1, <2>4, Shapes DEF HoldsLease, Timed
    <3>2. ~ HoldsLease(w) => proc'[w].pc = p.pc
      BY <2>1, <2>4, Shapes DEF HoldsLease, Timed
    <3> QED  BY <2>1, <3>1, <3>2 DEF Carries, HoldsLease
  <2> QED  BY <2>2, <2>3, <2>4
<1> QED  BY <1>1, <1>2, SlotsKeep

\* Rows that nobody refers to are used again.
LEMMA RecycleSlots ==
  ASSUME LineSound, SlotSound, Recycle
  PROVE  SlotSound'
<1>1. /\ proc' = proc
      /\ \A l \in Leases : claims'[l] = IF l \in Recyclable THEN NoClaim ELSE claims[l]
      /\ \A x \in Reservations : reservations'[x] = IF x \in RecyclableReservations THEN NoReservationRow
                                                    ELSE reservations[x]
  BY DEF Recycle
<1>2. NoClaim.status = "absent"
  BY DEF NoClaim
<1>3. ASSUME NEW l \in Leases, claims'[l].status # "absent"
      PROVE  /\ claims'[l] = claims[l] /\ claims[l].reservation \in Reservations
             /\ reservations'[claims[l].reservation] = reservations[claims[l].reservation]
             /\ reservations[claims[l].reservation].status # "absent"
  <2>1. claims'[l] = claims[l]
    BY <1>1, <1>2, <1>3
  <2>2. claims[l].reservation \in Reservations
        /\ reservations[claims[l].reservation].status # "absent"
    BY <1>3, <2>1 DEF SlotSound, Booked
  <2>3. claims[l].reservation \notin RecyclableReservations
    BY <1>3, <2>1 DEF RecyclableReservations
  <2> QED  BY <1>1, <2>1, <2>2, <2>3
<1>4. ASSUME NEW l \in Leases PROVE Booked(l)'
  BY <1>3 DEF Booked
<1>5. ASSUME NEW l \in Leases, claims'[l].status = "active", claims'[l].reservation # NoReservation
      PROVE  (claims[l].reservation \in LiveOf(claims[l].key.run))'
  <2>1. claims[l].reservation \in LiveOf(claims[l].key.run)
    BY <1>3, <1>5 DEF SlotSound, ClaimsUnderReservation
  <2> QED  BY <1>3, <1>5, <2>1 DEF LiveOf
<1>6. ASSUME NEW w \in Workers, HoldsLease(w) PROVE Seated(w)'
  <2>1. PICK m \in Leases : m = proc[w].lease
    BY <1>6, HeldClaims
  <2>2. m \notin Recyclable
    BY <1>6, <2>1 DEF Recyclable, HoldsLease
  <2>3. claims'[m] = claims[m] /\ claims[m].status # "absent" /\ Seated(w)
    BY <1>1, <1>6, <2>1, <2>2, HeldClaims DEF SlotSound
  <2>4. ASSUME NEW l \in Leases, claims'[l].status = "active",
               claims'[l].reservation = claims[m].reservation
        PROVE  l = m
    BY <1>3, <1>6, <2>1, <2>3, <2>4 DEF Seated
  <2>5. reservations'[claims[m].reservation].host = HostOf[w]
    BY <1>3, <1>6, <2>1, <2>3 DEF Seated
  <2>6. proc[w].pc \in Past => claims[m].status # "active"
    BY <1>6, <2>1, <2>3 DEF Seated
  <2> QED  BY <1>1, <2>1, <2>3, <2>4, <2>5, <2>6 DEF Seated
<1>7. \A w \in Workers : Seated(w)'
  BY <1>1, <1>6 DEF Seated, HoldsLease
<1> QED  BY <1>4, <1>5, <1>7 DEF SlotSound, ClaimsUnderReservation

LEMMA SlotInduction ==
  ASSUME Timely, OnePerHost, LineSound, SlotSound, [LineNext]_lineVars
  PROVE  SlotSound'
<1>1. CASE LineTick
  BY <1>1, TickSlots
<1>2. CASE Recycle
  BY <1>2, RecycleSlots
<1>3. ASSUME NEW w \in Workers, WorkerStep(w) PROVE SlotSound'
  <2>1. ASSUME NEW lag \in 0 .. MaxPollLag, PollClaim(w, lag) PROVE SlotSound'
    BY <2>1, ClaimSlots
  <2>2. ASSUME NEW lag \in 0 .. MaxPollLag, CloseGhost(w, lag) PROVE FALSE
    BY <2>2, NoGhosts
  <2>3. CASE \/ Crash(w) \/ RepairOrphan(w) \/ RecheckOrphan(w)
             \/ \E lag \in 0 .. MaxPollLag : FindOrphan(w, lag)
    BY <2>3, SweepingSlots
  <2>4. CASE StageStep(w)
    BY <2>4, BeatingSlots, HandlerSlots, FinishedSlots, MaterializeSlots, SettleSlots DEF StageStep
  <2> QED  BY <1>3, <2>1, <2>2, <2>3, <2>4 DEF WorkerStep, SweepStep
<1>4. CASE ReserveOffer \/ Scan
  BY <1>4, ReserveSlots, ScanSlots
<1>5. CASE ListAdmission \/ OwnerResume \/ OwnerCancel \/ Intake
  BY <1>5, OtherSlots
<1>6. CASE UNCHANGED lineVars
  <2>1. UNCHANGED <<claims, reservations>> /\ proc' = proc
    BY <1>6 DEF lineVars, vars
  <2> QED  BY <2>1, TablesStay, IdleCarries
<1> QED  BY <1>1, <1>2, <1>3, <1>4, <1>5, <1>6 DEF LineNext

\* A claim never outlives the reservation it was made under, in a managed fleet with one
\* worker to a host, however workers, the coordinator, the owner, crashes and expiries
\* interleave: whatever closes a reservation has closed the claims under it.
THEOREM ClaimsKeepReservations ==
  ASSUME Timely, OnePerHost PROVE LineSpec => []ClaimsUnderReservation
<1>1. LineInit => SlotSound
  <2>1. NoClaim.status = "absent" /\ Idle.pc = "idle"
    BY DEF NoClaim, Idle
  <2> SUFFICES ASSUME LineInit PROVE SlotSound
    OBVIOUS
  <2>2. /\ \A l \in Leases : claims[l].status = "absent"
        /\ \A w \in Workers : proc[w].pc = "idle"
    BY <2>1 DEF LineInit, Init
  <2> QED  BY <2>2 DEF SlotSound, ClaimsUnderReservation, Booked, Seated, HoldsLease
<1>2. LineSound /\ SlotSound /\ [LineNext]_lineVars => SlotSound'
  BY SlotInduction
<1>3. SlotSound => ClaimsUnderReservation
  BY DEF SlotSound
<1> QED  BY <1>1, <1>2, <1>3, LineInvariance, PTL DEF LineSpec
=============================================================================
