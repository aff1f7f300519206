------------------------ MODULE WorkflowRuntimeProofs ------------------------
(***************************************************************************)
(* Proofs about the local workflow runtime and the implementation cycle    *)
(* that drives it: a job is claimed exactly while the lease of its current *)
(* attempt is active, a settled job is final, no job starts before its     *)
(* dependencies have succeeded; what is reserved is the sum of the         *)
(* estimates of the claimed jobs, and a run stays under its ceiling but    *)
(* for what attempts cost over their estimates; the correction loop of a   *)
(* ticket is bounded; jobs claimed at the same time may run together.      *)
(*                                                                         *)
(* The first invariant speaks of one job at a time (JobSound), and so do   *)
(* the steps: whatever a call does, each job stays, turns, starts or stops *)
(* (JobStep).  The second speaks of the money of one run at a time         *)
(* (RunSound), on top of the first.                                        *)
(***************************************************************************)
EXTENDS Cycle, SumProofs, TLAPS

\* The runtime's calls, a transition with any target and key: what the clients of
\* RuntimeNext make, and the cycle.
AnyCall ==
  \/ \E r \in Runs : RegisterRun(r) \/ CancelRun(r)
  \/ \E j \in Jobs : EnqueueJob(j)
  \/ \E r \in Runs : \E target, key : TransitionRun(r, target, key)
  \/ LeaseCalls
  \/ RuntimeTick

\* The states from which a job may still be started.
Startable == {"absent", "ready", "waiting_budget", "retry_scheduled"}

JobRows == [status : JobStatuses, attempt : Nat, wait : 0 .. RetryDelay]

Held(j) == {a \in Attempts(j) : leases[j][a].status = "active"}

RowsTyped ==
  /\ jobs \in [Jobs -> JobRows]
  /\ leases = [j \in Jobs |-> leases[j]]
  /\ \A j \in Jobs : leases[j] \in [Attempts(j) -> LeaseRows]

JobSound(j) ==
  /\ Held(j) = IF jobs[j].status = "claimed" THEN {jobs[j].attempt} ELSE {}
  /\ jobs[j].attempt =< MaxAttempts[j]
  /\ jobs[j].status \in Startable => jobs[j].attempt < MaxAttempts[j]
  /\ jobs[j].status # "retry_scheduled" => jobs[j].wait = 0

RuntimeInv == RowsTyped /\ \A j \in Jobs : JobSound(j)

-----------------------------------------------------------------------------
\* What a step may do to one job.

Stays(j) ==
  /\ jobs'[j].status = jobs[j].status /\ jobs'[j].attempt = jobs[j].attempt
  /\ Held(j)' = Held(j)

Turns(j) ==
  /\ jobs[j].status \in Startable
  /\ jobs'[j].status \in Startable \cup {"cancelled"}
  /\ jobs'[j].attempt = jobs[j].attempt
  /\ Held(j)' = Held(j)

Starts(j) ==
  /\ jobs[j].status \notin SettledJobs /\ jobs[j].attempt < MaxAttempts[j]
  /\ \A d \in DependsOn[j] : jobs[d].status = "succeeded"
  /\ jobs'[j].status = "claimed" /\ jobs'[j].attempt = jobs[j].attempt + 1
  /\ Held(j)' = {jobs[j].attempt + 1}

Stops(j) ==
  /\ jobs[j].status = "claimed"
  /\ \/ jobs'[j].status \in SettledJobs
     \/ jobs'[j].status \in Startable /\ jobs[j].attempt < MaxAttempts[j]
  /\ jobs'[j].attempt = jobs[j].attempt
  /\ Held(j)' = {}

JobStep(j) ==
  /\ Stays(j) \/ Turns(j) \/ Starts(j) \/ Stops(j)
  /\ jobs'[j].status # "retry_scheduled" => jobs'[j].wait = 0

Shape == RowsTyped' /\ \A j \in Jobs : JobStep(j)

-----------------------------------------------------------------------------
\* The shape carries the invariant.
LEMMA ShapePreserves ==
  ASSUME RuntimeInv, Shape
  PROVE  RuntimeInv'
<1> SUFFICES ASSUME NEW j \in Jobs PROVE JobSound(j)'
  BY DEF RuntimeInv, Shape
<1>1. JobSound(j) /\ JobStep(j) /\ jobs[j] \in JobRows
  BY DEF RuntimeInv, RowsTyped, Shape
<1>2. MaxAttempts[j] \in Nat /\ jobs[j].attempt \in Nat
  BY <1>1, RuntimeAssumption DEF JobRows
<1>3. CASE Stays(j)
  BY <1>1, <1>3 DEF JobSound, JobStep, Stays
<1>4. CASE Turns(j)
  BY <1>1, <1>2, <1>4 DEF JobSound, JobStep, Turns, Startable
<1>5. CASE Starts(j)
  BY <1>1, <1>2, <1>5 DEF JobSound, JobStep, Starts, Startable
<1>6. CASE Stops(j)
  BY <1>1, <1>2, <1>6 DEF JobSound, JobStep, Stops, Startable, SettledJobs
<1> QED
  BY <1>1, <1>3, <1>4, <1>5, <1>6 DEF JobStep

\* A settled row is kept, whatever the shape of the step.
LEMMA ShapeSettles ==
  ASSUME RuntimeInv, Shape, NEW j \in Jobs, jobs[j].status \in SettledJobs
  PROVE  jobs'[j] = jobs[j]
<1>1. JobSound(j) /\ JobStep(j) /\ jobs[j] \in JobRows /\ jobs'[j] \in JobRows
  BY DEF RuntimeInv, RowsTyped, Shape
<1>2. Stays(j)
  BY <1>1 DEF JobStep, Turns, Starts, Stops, Startable, SettledJobs
<1>3. jobs[j].wait = 0 /\ jobs'[j].wait = 0
  BY <1>1, <1>2 DEF JobSound, JobStep, Stays, SettledJobs
<1> QED
  BY <1>1, <1>2, <1>3 DEF Stays, JobRows

-----------------------------------------------------------------------------
\* A row with a new status and a new countdown.
LEMMA RowUpdated ==
  ASSUME NEW row \in JobRows, NEW st \in JobStatuses, NEW n \in 0 .. RetryDelay
  PROVE  LET new == [row EXCEPT !.status = st, !.wait = n] IN
         new \in JobRows /\ new.status = st /\ new.attempt = row.attempt /\ new.wait = n
BY DEF JobRows

\* The row of a job that claim_next hands out.
LEMMA RowClaimed ==
  ASSUME NEW row \in JobRows
  PROVE  /\ ClaimedRow(row) \in JobRows /\ ClaimedRow(row).status = "claimed"
         /\ ClaimedRow(row).attempt = row.attempt + 1 /\ ClaimedRow(row).wait = row.wait
<1>1. "claimed" \in JobStatuses /\ row.attempt + 1 \in Nat
  BY DEF JobRows, JobStatuses
<1> QED
  BY <1>1 DEF ClaimedRow, JobRows

\* A job whose lease ran out, or that failed, is retried while attempts are left.
LEMMA ExpiredRow ==
  ASSUME NEW j \in Jobs, jobs[j] \in JobRows
  PROVE  /\ ExpiredJob(j) \in JobRows /\ ExpiredJob(j).attempt = jobs[j].attempt
         /\ \/ ExpiredJob(j).status = "retry_scheduled" /\ jobs[j].attempt < MaxAttempts[j]
            \/ ExpiredJob(j).status = "failed" /\ ExpiredJob(j).wait = 0
<1>1. /\ 0 \in 0 .. RetryDelay /\ RetryDelay \in 0 .. RetryDelay
      /\ "retry_scheduled" \in JobStatuses /\ "failed" \in JobStatuses
  BY RuntimeAssumption DEF JobStatuses
<1>2. CASE jobs[j].attempt < MaxAttempts[j]
  BY <1>1, <1>2 DEF ExpiredJob, JobRows
<1>3. CASE ~ (jobs[j].attempt < MaxAttempts[j])
  BY <1>1, <1>3 DEF ExpiredJob, JobRows
<1> QED
  BY <1>2, <1>3

-----------------------------------------------------------------------------
\* The sweep, which reconcile runs by itself and claim_next runs first.

\* What the sweep makes of one job.
SweptLeases(j) == {a \in Attempts(j) : ReconciledLeases[j][a].status = "active"}

Swept(j) ==
  LET row == ReconciledJobs[j] IN
  /\ row.attempt = jobs[j].attempt
  /\ row.status # "retry_scheduled" => row.wait = 0
  /\ \/ row.status = jobs[j].status /\ SweptLeases(j) = Held(j)
     \/ /\ jobs[j].status = "retry_scheduled" /\ row.status = "ready"
        /\ SweptLeases(j) = Held(j)
     \/ /\ jobs[j].status = "claimed" /\ SweptLeases(j) = {}
        /\ \/ row.status = "failed"
           \/ row.status \in {"retry_scheduled", "ready"} /\ jobs[j].attempt < MaxAttempts[j]

\* The sweep leaves rows.
LEMMA SweepTyped ==
  ASSUME RuntimeInv
  PROVE  /\ ReconciledJobs \in [Jobs -> JobRows]
         /\ ReconciledLeases = [j \in Jobs |-> ReconciledLeases[j]]
         /\ \A j \in Jobs : ReconciledLeases[j] \in [Attempts(j) -> LeaseRows]
<1>1. ASSUME NEW j \in Jobs PROVE ExpiredJob(j) \in JobRows /\ jobs[j] \in JobRows
  BY ExpiredRow DEF RuntimeInv, RowsTyped
<1>2. ASSUME NEW row \in JobRows PROVE Due(row) \in JobRows
  BY DEF JobRows, Due, JobStatuses
<1>3. ReconciledJobs \in [Jobs -> JobRows]
  BY <1>1, <1>2 DEF ReconciledJobs
<1>4. ASSUME NEW j \in Jobs, NEW a \in Attempts(j)
      PROVE  /\ leases[j][a] \in LeaseRows
             /\ [leases[j][a] EXCEPT !.status = "expired"] \in LeaseRows
  BY DEF RuntimeInv, RowsTyped, LeaseRows
<1>5. ASSUME NEW j \in Jobs PROVE ReconciledLeases[j] \in [Attempts(j) -> LeaseRows]
  BY <1>4 DEF ReconciledLeases
<1> QED
  BY <1>3, <1>5 DEF ReconciledLeases

\* A lease that has run out is the only one of its job, and the job is claimed.
LEMMA SweepShape ==
  ASSUME RuntimeInv, NEW j \in Jobs
  PROVE  Swept(j)
<1>1. /\ JobSound(j) /\ jobs[j] \in JobRows
      /\ leases[j] \in [Attempts(j) -> LeaseRows]
  BY DEF RuntimeInv, RowsTyped
<1>2. MaxAttempts[j] \in Nat /\ jobs[j].attempt \in Nat /\ RetryDelay \in Nat
  BY <1>1, RuntimeAssumption DEF JobRows
<1>3. RunOut(j) \subseteq Held(j)
  BY DEF RunOut, Held
<1>4. SweptLeases(j) = Held(j) \ RunOut(j)
  <2>1. ASSUME NEW a \in Attempts(j)
        PROVE  ReconciledLeases[j][a].status = "active"
                 <=> leases[j][a].status = "active" /\ a \notin RunOut(j)
    <3>1. leases[j][a] \in LeaseRows
      BY <1>1
    <3>2. ReconciledLeases[j][a] = IF a \in RunOut(j)
                                   THEN [leases[j][a] EXCEPT !.status = "expired"]
                                   ELSE leases[j][a]
      BY DEF ReconciledLeases
    <3> QED
      BY <3>1, <3>2 DEF LeaseRows
  <2> QED
    BY <2>1 DEF SweptLeases, Held
<1>5. ReconciledJobs[j] = Due(IF j \in Expired THEN ExpiredJob(j) ELSE jobs[j])
  BY DEF ReconciledJobs
<1>6. CASE j \notin Expired
  <2>1. RunOut(j) = {} /\ ReconciledJobs[j] = Due(jobs[j])
    BY <1>5, <1>6 DEF Expired
  <2> QED
    BY <1>1, <1>4, <2>1 DEF Swept, Due, JobRows, JobSound
<1>7. CASE j \in Expired
  <2>1. RunOut(j) # {} /\ ReconciledJobs[j] = Due(ExpiredJob(j))
    BY <1>5, <1>7 DEF Expired
  <2>2. jobs[j].status = "claimed" /\ SweptLeases(j) = {}
    BY <1>1, <1>3, <1>4, <2>1 DEF JobSound
  <2> QED
    BY <1>1, <1>2, <2>1, <2>2 DEF Swept, Due, ExpiredJob, JobRows
<1> QED
  BY <1>6, <1>7

-----------------------------------------------------------------------------
\* One lemma per call.

\* reconcile: the sweep by itself stops jobs, or makes scheduled ones ready.
LEMMA ReconcileShape ==
  ASSUME RuntimeInv, Reconcile
  PROVE  Shape
<1>1. jobs' = ReconciledJobs /\ leases' = ReconciledLeases
  BY DEF Reconcile
<1>2. RowsTyped'
  BY <1>1, SweepTyped DEF RowsTyped
<1>3. ASSUME NEW j \in Jobs PROVE JobStep(j)
  <2>1. Swept(j) /\ JobSound(j)
    BY SweepShape DEF RuntimeInv
  <2>2. Held(j)' = SweptLeases(j)
    BY <1>1 DEF Held, SweptLeases, Attempts
  <2> QED
    BY <1>1, <2>1, <2>2 DEF Swept, JobSound, JobStep, Stays, Turns, Stops, Startable, SettledJobs
<1> QED
  BY <1>2, <1>3 DEF Shape

\* The scan marks jobs that wait for budget, on top of the sweep.
LEMMA MarkedShape ==
  ASSUME RuntimeInv, NEW rs
  PROVE  /\ Marked(ReconciledJobs, rs) \in [Jobs -> JobRows]
         /\ \A j \in Jobs :
              LET row == Marked(ReconciledJobs, rs)[j] IN
              \/ row = ReconciledJobs[j]
              \/ /\ ReconciledJobs[j].status \in {"ready", "waiting_budget"}
                 /\ row.status = "waiting_budget"
                 /\ row.attempt = ReconciledJobs[j].attempt /\ row.wait = ReconciledJobs[j].wait
<1>1. ASSUME NEW j \in Jobs
      PROVE  /\ ReconciledJobs[j] \in JobRows
             /\ Marked(ReconciledJobs, rs)[j] =
                  IF Admissible(ReconciledJobs, rs, j) /\ ~ Affordable(rs, j)
                  THEN [ReconciledJobs[j] EXCEPT !.status = "waiting_budget"]
                  ELSE ReconciledJobs[j]
  BY SweepTyped DEF Marked
<1>2. ASSUME NEW j \in Jobs, Admissible(ReconciledJobs, rs, j)
      PROVE  ReconciledJobs[j].status \in {"ready", "waiting_budget"}
  BY <1>2 DEF Admissible
<1>3. ASSUME NEW j \in Jobs PROVE Marked(ReconciledJobs, rs)[j] \in JobRows
  BY <1>1 DEF JobRows, JobStatuses
<1>4. Marked(ReconciledJobs, rs) \in [Jobs -> JobRows]
  BY <1>3 DEF Marked
<1> QED
  BY <1>1, <1>2, <1>4 DEF JobRows

\* claim_next: the sweep and the marks, and at most one job starts, under a lease of its
\* next attempt.
LEMMA ClaimNextShape ==
  ASSUME RuntimeInv, NEW w \in Workers, ClaimNext(w)
  PROVE  Shape
<1> DEFINE js == ReconciledJobs
           rs == ReconciledRuns
           marked == Marked(js, rs)
<1>1. /\ marked \in [Jobs -> JobRows]
      /\ \A j \in Jobs : \/ marked[j] = js[j]
                         \/ /\ js[j].status \in {"ready", "waiting_budget"}
                            /\ marked[j].status = "waiting_budget"
                            /\ marked[j].attempt = js[j].attempt /\ marked[j].wait = js[j].wait
  BY MarkedShape
<1>2. /\ js \in [Jobs -> JobRows]
      /\ ReconciledLeases = [j \in Jobs |-> ReconciledLeases[j]]
      /\ \A j \in Jobs : ReconciledLeases[j] \in [Attempts(j) -> LeaseRows]
  BY SweepTyped
<1>3. ASSUME NEW j \in Jobs, jobs'[j] = marked[j], Held(j)' = SweptLeases(j)
      PROVE  JobStep(j)
  <2>1. Swept(j) /\ JobSound(j)
    BY SweepShape DEF RuntimeInv
  <2>2. CASE marked[j] = js[j]
    BY <1>3, <2>1, <2>2
    DEF Swept, JobSound, JobStep, Stays, Turns, Stops, Startable, SettledJobs
  <2>3. CASE /\ js[j].status \in {"ready", "waiting_budget"}
             /\ marked[j].status = "waiting_budget"
             /\ marked[j].attempt = js[j].attempt /\ marked[j].wait = js[j].wait
    BY <1>3, <2>1, <2>3
    DEF Swept, JobSound, JobStep, Stays, Turns, Stops, Startable, SettledJobs
  <2> QED
    BY <1>1, <2>2, <2>3
<1>4. CASE Ranked(js, rs) = {}
  <2>1. jobs' = marked /\ leases' = ReconciledLeases
    BY <1>4 DEF ClaimNext
  <2>2. RowsTyped'
    BY <1>1, <1>2, <2>1 DEF RowsTyped
  <2>3. ASSUME NEW j \in Jobs PROVE Held(j)' = SweptLeases(j)
    BY <2>1 DEF Held, SweptLeases, Attempts
  <2> QED
    BY <1>3, <2>1, <2>2, <2>3 DEF Shape
<1>5. CASE Ranked(js, rs) # {}
  <2>1. PICK k \in Ranked(js, rs) :
          /\ jobs' = [marked EXCEPT ![k] = ClaimedRow(marked[k])]
          /\ leases' = [ReconciledLeases EXCEPT
                          ![k][js[k].attempt + 1] = [status |-> "active", ttl |-> LeaseTime,
                                                     charged |-> 0]]
    BY <1>5 DEF ClaimNext
  <2> DEFINE fresh == [status |-> "active", ttl |-> LeaseTime, charged |-> 0]
  <2>2. k \in Jobs /\ js[k].status \in {"ready", "waiting_budget"}
        /\ \A d \in DependsOn[k] : js[d].status = "succeeded"
    BY DEF Ranked, Admissible
  <2>3. Swept(k) /\ JobSound(k) /\ jobs[k] \in JobRows
    BY <2>2, SweepShape DEF RuntimeInv, RowsTyped
  <2>4. MaxAttempts[k] \in Nat /\ jobs[k].attempt \in Nat /\ LeaseTime \in Nat
    BY <2>2, <2>3, RuntimeAssumption DEF JobRows
  <2>5. /\ jobs[k].attempt < MaxAttempts[k] /\ jobs[k].status \notin SettledJobs
        /\ js[k].attempt = jobs[k].attempt /\ js[k].wait = 0
        /\ SweptLeases(k) = {}
    BY <2>2, <2>3, <2>4 DEF Swept, JobSound, Startable, SettledJobs
  <2>6. jobs[k].attempt + 1 \in Attempts(k)
    BY <2>4, <2>5 DEF Attempts
  <2>7. fresh \in LeaseRows
    BY <2>4 DEF LeaseRows
  <2>8. leases' = [j \in Jobs |-> IF j = k
                    THEN [ReconciledLeases[k] EXCEPT ![jobs[k].attempt + 1] = fresh]
                    ELSE ReconciledLeases[j]]
    BY <1>2, <2>1, <2>2, <2>5
  <2>9. /\ marked[k].wait = 0 /\ marked[k].attempt = jobs[k].attempt
        /\ marked[k] \in JobRows
    BY <1>1, <2>2, <2>5
  <2>10. /\ jobs'[k].status = "claimed" /\ jobs'[k].attempt = jobs[k].attempt + 1
         /\ jobs'[k].wait = 0
         /\ jobs'[k] \in JobRows
    <3>1. jobs'[k] = ClaimedRow(marked[k])
      BY <1>1, <2>1, <2>2
    <3> QED
      BY <2>9, <3>1, RowClaimed
  <2>11. ASSUME NEW j \in Jobs, j # k PROVE jobs'[j] = marked[j] /\ leases'[j] = ReconciledLeases[j]
    BY <1>1, <2>1, <2>8, <2>11
  <2>12. leases'[k] = [ReconciledLeases[k] EXCEPT ![jobs[k].attempt + 1] = fresh]
    BY <2>2, <2>8
  <2>13. RowsTyped'
    <3>1. jobs' \in [Jobs -> JobRows]
      <4>1. jobs' = [j \in Jobs |-> jobs'[j]]
        BY <1>1, <2>1
      <4>2. ASSUME NEW j \in Jobs PROVE jobs'[j] \in JobRows
        BY <1>1, <2>10, <2>11
      <4> QED
        BY <4>1, <4>2
    <3>2. leases' = [j \in Jobs |-> leases'[j]]
      BY <2>8
    <3>3. ASSUME NEW j \in Jobs PROVE leases'[j] \in [Attempts(j) -> LeaseRows]
      BY <1>2, <2>2, <2>7, <2>11, <2>12
    <3> QED
      BY <3>1, <3>2, <3>3 DEF RowsTyped, Attempts
  <2>14. ASSUME NEW j \in Jobs, j # k PROVE JobStep(j)
    <3>1. Held(j)' = SweptLeases(j)
      BY <2>11, <2>14 DEF Held, SweptLeases, Attempts
    <3> QED
      BY <1>3, <2>11, <2>14, <3>1
  <2>15. Held(k)' = {jobs[k].attempt + 1}
    <3>1. ASSUME NEW a \in Attempts(k)
          PROVE  leases'[k][a].status = "active" <=> a = jobs[k].attempt + 1
      <4>1. leases'[k][a] = IF a = jobs[k].attempt + 1 THEN fresh ELSE ReconciledLeases[k][a]
        BY <1>2, <2>2, <2>12
      <4>2. ReconciledLeases[k][a].status # "active"
        BY <2>5 DEF SweptLeases
      <4> QED
        BY <4>1, <4>2
    <3> QED
      BY <2>6, <3>1 DEF Held, Attempts
  <2>16. \A d \in DependsOn[k] : jobs[d].status = "succeeded"
    <3>1. ASSUME NEW d \in DependsOn[k] PROVE jobs[d].status = "succeeded"
      <4>1. d \in Jobs /\ js[d].status = "succeeded"
        BY <2>2, RuntimeAssumption
      <4>2. Swept(d)
        BY <4>1, SweepShape
      <4> QED
        BY <4>1, <4>2 DEF Swept
    <3> QED
      BY <3>1
  <2>17. JobStep(k)
    BY <2>5, <2>10, <2>15, <2>16 DEF JobStep, Starts
  <2> QED
    BY <2>13, <2>14, <2>17 DEF Shape
<1> QED
  BY <1>4, <1>5

\* register_run, transition_run and stuttering touch neither jobs nor leases.
LEMMA RowsKept ==
  ASSUME RuntimeInv, UNCHANGED <<jobs, leases>>
  PROVE  Shape
<1>1. RowsTyped'
  BY DEF RuntimeInv, RowsTyped
<1>2. ASSUME NEW j \in Jobs PROVE JobStep(j)
  BY DEF RuntimeInv, JobSound, JobStep, Stays, Held
<1> QED
  BY <1>1, <1>2 DEF Shape

\* enqueue_job makes an absent job ready.
LEMMA EnqueueShape ==
  ASSUME RuntimeInv, NEW k \in Jobs, EnqueueJob(k)
  PROVE  Shape
<1>1. jobs' = [jobs EXCEPT ![k].status = "ready"] /\ leases' = leases /\ jobs[k].status = "absent"
  BY DEF EnqueueJob
<1>2. jobs \in [Jobs -> JobRows]
  BY DEF RuntimeInv, RowsTyped
<1>3. jobs' \in [Jobs -> JobRows]
  BY <1>1, <1>2 DEF JobRows, JobStatuses
<1>4. RowsTyped'
  BY <1>1, <1>3 DEF RuntimeInv, RowsTyped
<1>5. ASSUME NEW j \in Jobs PROVE JobStep(j)
  <2>1. JobSound(j) /\ jobs[j] \in JobRows /\ Held(j)' = Held(j)
    BY <1>1, <1>2 DEF RuntimeInv, Held
  <2>2. CASE j = k
    BY <1>1, <1>2, <2>1, <2>2 DEF JobSound, JobStep, Turns, Startable, JobRows
  <2>3. CASE j # k
    BY <1>1, <1>2, <2>1, <2>3 DEF JobSound, JobStep, Stays
  <2> QED
    BY <2>2, <2>3
<1> QED
  BY <1>4, <1>5 DEF Shape

\* complete_job closes the lease of the current attempt, and settles or reschedules its job.
LEMMA CompleteShape ==
  ASSUME RuntimeInv, NEW k \in Jobs, NEW n \in Attempts(k), NEW outcome \in SettledJobs,
         NEW cost \in Costs \cup {Estimate[k]}, CompleteJob(k, n, outcome, cost)
  PROVE  Shape
<1> DEFINE done == [status |-> "completed", ttl |-> 0, charged |-> cost]
<1>1. /\ leases[k][n].status = "active"
      /\ leases' = [leases EXCEPT ![k][n] = done]
      /\ jobs' = [jobs EXCEPT ![k] = CompletedJob(k, outcome)]
  BY DEF CompleteJob
<1>2. /\ jobs \in [Jobs -> JobRows] /\ leases = [j \in Jobs |-> leases[j]]
      /\ \A j \in Jobs : leases[j] \in [Attempts(j) -> LeaseRows]
      /\ \A j \in Jobs : JobSound(j)
  BY DEF RuntimeInv, RowsTyped
<1>3. done \in LeaseRows
  <2>1. cost \in Nat /\ LeaseTime \in Nat
    BY RuntimeAssumption
  <2> QED
    BY <2>1 DEF LeaseRows
<1>4. /\ jobs[k] \in JobRows /\ MaxAttempts[k] \in Nat /\ jobs[k].attempt \in Nat /\ RetryDelay \in Nat
  BY <1>2, RuntimeAssumption DEF JobRows
<1>5. Held(k) = {n} /\ jobs[k].status = "claimed" /\ jobs[k].attempt = n /\ jobs[k].wait = 0
  <2>1. n \in Held(k) /\ JobSound(k)
    BY <1>1, <1>2 DEF Held
  <2> QED
    BY <2>1 DEF JobSound
<1>6. ExpiredJob(k) \in JobRows /\ ExpiredJob(k).attempt = jobs[k].attempt
      /\ \/ ExpiredJob(k).status = "retry_scheduled" /\ jobs[k].attempt < MaxAttempts[k]
         \/ ExpiredJob(k).status = "failed" /\ ExpiredJob(k).wait = 0
  BY <1>4, ExpiredRow
<1>7. /\ CompletedJob(k, outcome) \in JobRows
      /\ CompletedJob(k, outcome).attempt = jobs[k].attempt
      /\ \/ CompletedJob(k, outcome).status \in SettledJobs /\ CompletedJob(k, outcome).wait = 0
         \/ CompletedJob(k, outcome).status = "retry_scheduled" /\ jobs[k].attempt < MaxAttempts[k]
  <2>1. CASE outcome = "succeeded"
    BY <1>4, <1>5, <2>1 DEF CompletedJob, JobRows, JobStatuses, SettledJobs
  <2>2. CASE outcome = "cancelled"
    BY <1>4, <1>5, <2>2 DEF CompletedJob, JobRows, JobStatuses, SettledJobs
  <2>3. CASE outcome \notin {"succeeded", "cancelled"}
    <3>1. CompletedJob(k, outcome) = ExpiredJob(k)
      BY <2>3 DEF CompletedJob
    <3> QED
      BY <1>6, <3>1 DEF SettledJobs
  <2> QED
    BY <2>1, <2>2, <2>3
<1> HIDE DEF done
<1>8. RowsTyped'
  <2>1. jobs' \in [Jobs -> JobRows]
    BY <1>1, <1>2, <1>7
  <2>2. leases' = [j \in Jobs |-> leases'[j]]
    BY <1>1, <1>2
  <2>3. ASSUME NEW j \in Jobs PROVE leases'[j] \in [Attempts(j) -> LeaseRows]
    BY <1>1, <1>2, <1>3
  <2> QED
    BY <2>1, <2>2, <2>3 DEF RowsTyped, Attempts
<1>9. ASSUME NEW j \in Jobs, j # k PROVE JobStep(j)
  <2>1. jobs'[j] = jobs[j] /\ leases'[j] = leases[j]
    BY <1>1, <1>2, <1>9
  <2>2. Held(j)' = Held(j)
    BY <2>1 DEF Held, Attempts
  <2> QED
    BY <1>2, <2>1, <2>2 DEF JobSound, JobStep, Stays
<1>10. JobStep(k)
  <2>1. jobs'[k] = CompletedJob(k, outcome)
    BY <1>1, <1>2
  <2>2. Held(k)' = {}
    <3>1. ASSUME NEW a \in Attempts(k) PROVE leases'[k][a].status # "active"
      <4>1. leases'[k][a] = IF a = n THEN done ELSE leases[k][a]
        BY <1>1, <1>2
      <4>2. CASE a = n
        BY <4>1, <4>2 DEF done
      <4>3. CASE a # n
        BY <1>5, <4>1, <4>3 DEF Held
      <4> QED
        BY <4>2, <4>3
    <3> QED
      BY <3>1 DEF Held, Attempts
  <2> QED
    BY <1>5, <1>7, <2>1, <2>2 DEF JobStep, Stops, Startable, SettledJobs
<1> QED
  BY <1>8, <1>9, <1>10 DEF Shape

\* cancel_run stops what is claimed and cancels what waits.
LEMMA CancelShape ==
  ASSUME RuntimeInv, NEW r \in Runs, CancelRun(r)
  PROVE  Shape
<1>1. /\ leases' = CancelledLeases(r)
      /\ jobs' = [j \in Jobs |-> IF RunOf[j] = r /\ jobs[j].status \notin SettledJobs \cup {"absent"}
                                 THEN [jobs[j] EXCEPT !.status = "cancelled", !.wait = 0] ELSE jobs[j]]
  BY DEF CancelRun
<1>2. ASSUME NEW j \in Jobs
      PROVE  /\ jobs[j] \in JobRows /\ leases[j] \in [Attempts(j) -> LeaseRows] /\ JobSound(j)
             /\ LeaseTime \in Nat /\ RetryDelay \in Nat
  BY RuntimeAssumption DEF RuntimeInv, RowsTyped
<1>3. ASSUME NEW j \in Jobs
      PROVE  leases'[j] = IF RunOf[j] = r /\ jobs[j].status = "claimed"
                          THEN [a \in Attempts(j) |->
                                  IF leases[j][a].status = "active"
                                  THEN [leases[j][a] EXCEPT !.status = "cancelled", !.ttl = 0]
                                  ELSE leases[j][a]]
                          ELSE leases[j]
  BY <1>1 DEF CancelledLeases
<1>4. RowsTyped'
  <2>1. ASSUME NEW j \in Jobs PROVE jobs'[j] \in JobRows
    <3>1. "cancelled" \in JobStatuses /\ 0 \in 0 .. RetryDelay
      BY <1>2 DEF JobStatuses
    <3> QED
      BY <1>1, <1>2, <3>1, RowUpdated
  <2>2. jobs' \in [Jobs -> JobRows]
    BY <1>1, <2>1
  <2>3. leases' = [j \in Jobs |-> leases'[j]]
    BY <1>1 DEF CancelledLeases
  <2>4. ASSUME NEW j \in Jobs PROVE leases'[j] \in [Attempts(j) -> LeaseRows]
    <3>1. ASSUME NEW a \in Attempts(j)
          PROVE  /\ leases[j][a] \in LeaseRows
                 /\ [leases[j][a] EXCEPT !.status = "cancelled", !.ttl = 0] \in LeaseRows
      <4>1. leases[j][a] \in LeaseRows /\ 0 \in 0 .. LeaseTime
        BY <1>2
      <4>2. ASSUME NEW row \in LeaseRows, 0 \in 0 .. LeaseTime
            PROVE  [row EXCEPT !.status = "cancelled", !.ttl = 0] \in LeaseRows
        BY <4>2 DEF LeaseRows
      <4> QED
        BY <4>1, <4>2
    <3> QED
      BY <1>2, <1>3, <3>1
  <2> QED
    BY <2>2, <2>3, <2>4 DEF RowsTyped, Attempts
<1>5. ASSUME NEW j \in Jobs, ~ (RunOf[j] = r /\ jobs[j].status \notin SettledJobs \cup {"absent"})
      PROVE  JobStep(j)
  <2>1. jobs'[j] = jobs[j] /\ leases'[j] = leases[j]
    BY <1>1, <1>3, <1>5 DEF SettledJobs
  <2>2. Held(j)' = Held(j)
    BY <2>1 DEF Held, Attempts
  <2> QED
    BY <1>2, <2>1, <2>2 DEF JobSound, JobStep, Stays
<1>6. ASSUME NEW j \in Jobs, RunOf[j] = r, jobs[j].status \notin SettledJobs \cup {"absent"}
      PROVE  JobStep(j)
  <2>1. /\ jobs'[j].status = "cancelled" /\ jobs'[j].attempt = jobs[j].attempt /\ jobs'[j].wait = 0
    BY <1>1, <1>2, <1>6 DEF JobRows
  <2>2. CASE jobs[j].status = "claimed"
    <3>1. ASSUME NEW a \in Attempts(j) PROVE leases'[j][a].status # "active"
      <4>1. leases[j][a] \in LeaseRows
        BY <1>2
      <4>2. leases'[j][a] = IF leases[j][a].status = "active"
                            THEN [leases[j][a] EXCEPT !.status = "cancelled", !.ttl = 0]
                            ELSE leases[j][a]
        BY <1>3, <1>6, <2>2
      <4> QED
        BY <4>1, <4>2 DEF LeaseRows
    <3>2. Held(j)' = {}
      BY <3>1 DEF Held, Attempts
    <3> QED
      BY <2>1, <2>2, <3>2 DEF JobStep, Stops, SettledJobs
  <2>3. CASE jobs[j].status # "claimed"
    <3>1. leases'[j] = leases[j]
      BY <1>3, <2>3
    <3>2. Held(j)' = Held(j) /\ jobs[j].status \in Startable
      BY <1>2, <1>6, <2>3, <3>1 DEF Held, Attempts, JobRows, JobStatuses, SettledJobs, Startable
    <3> QED
      BY <2>1, <3>2 DEF JobStep, Turns
  <2> QED
    BY <2>2, <2>3
<1> QED
  BY <1>4, <1>5, <1>6 DEF Shape

\* Time moves the countdowns alone.
LEMMA TickShape ==
  ASSUME RuntimeInv, RuntimeTick
  PROVE  Shape
<1>1. ASSUME NEW j \in Jobs
      PROVE  /\ jobs[j] \in JobRows /\ leases[j] \in [Attempts(j) -> LeaseRows] /\ JobSound(j)
             /\ LeaseTime \in Nat /\ RetryDelay \in Nat
             /\ jobs'[j] = [jobs[j] EXCEPT !.wait = Down(@)]
             /\ leases'[j] = [a \in Attempts(j) |-> [leases[j][a] EXCEPT !.ttl = Down(@)]]
  BY RuntimeAssumption DEF RuntimeInv, RowsTyped, RuntimeTick
<1>2. ASSUME NEW m \in Nat, NEW n \in 0 .. m PROVE Down(n) \in 0 .. m /\ (n = 0 => Down(n) = 0)
  BY DEF Down, AtLeastZero
<1>3. ASSUME NEW j \in Jobs
      PROVE  /\ jobs'[j] \in JobRows
             /\ jobs'[j].status = jobs[j].status /\ jobs'[j].attempt = jobs[j].attempt
             /\ jobs[j].wait = 0 => jobs'[j].wait = 0
  <2>1. Down(jobs[j].wait) \in 0 .. RetryDelay /\ (jobs[j].wait = 0 => Down(jobs[j].wait) = 0)
    BY <1>1, <1>2 DEF JobRows
  <2> QED
    BY <1>1, <2>1, ZenonT(60) DEF JobRows
<1>4. ASSUME NEW j \in Jobs, NEW a \in Attempts(j)
      PROVE  /\ leases'[j][a] \in LeaseRows
             /\ leases'[j][a].status = leases[j][a].status
  <2>1. Down(leases[j][a].ttl) \in 0 .. LeaseTime /\ leases[j][a] \in LeaseRows
    BY <1>1, <1>2 DEF LeaseRows
  <2>2. leases'[j][a] = [leases[j][a] EXCEPT !.ttl = Down(@)]
    BY <1>1, ZenonT(60)
  <2> QED
    BY <2>1, <2>2 DEF LeaseRows
<1>5. RowsTyped'
  <2>1. jobs' \in [Jobs -> JobRows]
    BY <1>3 DEF RuntimeTick
  <2>2. leases' = [j \in Jobs |-> leases'[j]]
    BY DEF RuntimeTick
  <2>3. ASSUME NEW j \in Jobs PROVE leases'[j] \in [Attempts(j) -> LeaseRows]
    BY <1>1, <1>4
  <2> QED
    BY <2>1, <2>2, <2>3 DEF RowsTyped, Attempts
<1>6. ASSUME NEW j \in Jobs PROVE JobStep(j)
  <2>1. Held(j)' = Held(j)
    BY <1>4 DEF Held, Attempts
  <2> QED
    BY <1>1, <1>3, <2>1 DEF JobSound, JobStep, Stays
<1> QED
  BY <1>5, <1>6 DEF Shape

-----------------------------------------------------------------------------
\* Every step has the shape.
LEMMA RuntimeStep ==
  ASSUME RuntimeInv, [AnyCall]_runtimeVars
  PROVE  Shape
<1>1. ASSUME NEW r \in Runs, RegisterRun(r) PROVE Shape
  BY <1>1, RowsKept DEF RegisterRun
<1>2. ASSUME NEW r \in Runs, CancelRun(r) PROVE Shape
  BY <1>2, CancelShape
<1>3. ASSUME NEW j \in Jobs, EnqueueJob(j) PROVE Shape
  BY <1>3, EnqueueShape
<1>4. ASSUME NEW r \in Runs, NEW target, NEW key, TransitionRun(r, target, key) PROVE Shape
  BY <1>4, RowsKept DEF TransitionRun
<1>5. CASE LeaseCalls
  BY <1>5, ClaimNextShape, ReconcileShape, CompleteShape DEF LeaseCalls
<1>6. CASE RuntimeTick
  BY <1>6, TickShape
<1>7. CASE UNCHANGED runtimeVars
  BY <1>7, RowsKept DEF runtimeVars
<1> QED
  BY <1>1, <1>2, <1>3, <1>4, <1>5, <1>6, <1>7 DEF AnyCall

\* The clients of the runtime make its calls.
LEMMA RuntimeCalls == [RuntimeNext]_runtimeVars => [AnyCall]_runtimeVars
BY DEF RuntimeNext, AnyCall

\* The empty tables are sound.
LEMMA RuntimeStart ==
  ASSUME RuntimeInit
  PROVE  RuntimeInv
<1>1. ASSUME NEW j \in Jobs
      PROVE  /\ jobs[j] = [status |-> "absent", attempt |-> 0, wait |-> 0]
             /\ leases[j] = [a \in Attempts(j) |-> NoLease]
             /\ MaxAttempts[j] \in Nat \ {0} /\ LeaseTime \in Nat /\ RetryDelay \in Nat
  BY RuntimeAssumption DEF RuntimeInit
<1>2. NoLease \in LeaseRows /\ NoLease.status # "active"
  BY RuntimeAssumption DEF NoLease, LeaseRows
<1>3. RowsTyped
  BY <1>1, <1>2, RuntimeAssumption DEF RuntimeInit, RowsTyped, JobRows, JobStatuses
<1>4. ASSUME NEW j \in Jobs PROVE JobSound(j)
  <2>1. ASSUME NEW a \in Attempts(j) PROVE leases[j][a].status # "active"
    BY <1>1, <1>2
  <2>2. Held(j) = {}
    BY <2>1 DEF Held
  <2>3. MaxAttempts[j] \in Nat /\ MaxAttempts[j] # 0
    BY RuntimeAssumption
  <2>4. jobs[j] = [status |-> "absent", attempt |-> 0, wait |-> 0]
    BY <1>1
  <2> QED
    BY <2>2, <2>3, <2>4 DEF JobSound
<1> QED
  BY <1>3, <1>4 DEF RuntimeInv

-----------------------------------------------------------------------------
\* Rows are typed and every job is sound in every reachable state.
THEOREM RuntimeInvariance == RuntimeSpec => []RuntimeInv
<1>1. RuntimeInit => RuntimeInv
  BY RuntimeStart
<1>2. RuntimeInv /\ [RuntimeNext]_runtimeVars => RuntimeInv'
  BY RuntimeCalls, RuntimeStep, ShapePreserves
<1> QED
  BY <1>1, <1>2, PTL DEF RuntimeSpec

\* A job is claimed exactly while the lease of its current attempt is active
\* (claim_next, complete_job, cancel_run and the sweep keep the two tables in step).
THEOREM OneLease == RuntimeSpec => []OneLeasePerJob
<1>1. RuntimeInv => OneLeasePerJob
  BY DEF RuntimeInv, JobSound, Held, OneLeasePerJob
<1> QED
  BY <1>1, RuntimeInvariance, PTL

\* No call changes a job that has succeeded, failed or been cancelled.
THEOREM SettledIsFinal == RuntimeSpec => SettledStays
<1>1. RuntimeInv /\ [RuntimeNext]_runtimeVars
      => [\A j \in Jobs : jobs[j].status \in SettledJobs => jobs'[j] = jobs[j]]_runtimeVars
  BY RuntimeCalls, RuntimeStep, ShapeSettles
<1> QED
  BY <1>1, RuntimeInvariance, PTL DEF RuntimeSpec, SettledStays

\* A job is started only after its dependencies succeeded, and none of them is ever
\* started again.
THEOREM DependenciesHold == RuntimeSpec => []DependenciesFirst
<1>1. RuntimeInit => DependenciesFirst
  BY DEF RuntimeInit, DependenciesFirst
<1>2. RuntimeInv /\ DependenciesFirst /\ [RuntimeNext]_runtimeVars => DependenciesFirst'
  <2> SUFFICES ASSUME RuntimeInv, DependenciesFirst, [RuntimeNext]_runtimeVars
               PROVE  DependenciesFirst'
    OBVIOUS
  <2>1. Shape
    BY RuntimeCalls, RuntimeStep
  <2>2. SUFFICES ASSUME NEW j \in Jobs, jobs'[j].attempt > 0, NEW d \in DependsOn[j]
                 PROVE  jobs'[d].status = "succeeded"
    BY DEF DependenciesFirst
  <2>3. d \in Jobs /\ JobStep(j)
    BY <2>1, RuntimeAssumption DEF Shape
  <2>4. jobs[d].status = "succeeded"
    BY <2>2, <2>3 DEF JobStep, Stays, Turns, Starts, Stops, DependenciesFirst
  <2> QED
    BY <2>1, <2>3, <2>4, ShapeSettles DEF SettledJobs
<1> QED
  BY <1>1, <1>2, RuntimeInvariance, PTL DEF RuntimeSpec

-----------------------------------------------------------------------------
\* Budgets.

\* What the attempts of a job, and the jobs of a run, cost over their estimates.
JobOverrun(ls, j)  == Total([a \in Attempts(j) |-> AtLeastZero(ls[j][a].charged - Estimate[j])], Attempts(j))
OverrunsIn(ls, r)  == Total([j \in Jobs |-> JobOverrun(ls, j)], JobsOf(r))

\* The jobs that hold a reservation of run r.
Reserving(js, r) == Claimed(js) \cap JobsOf(r)

RunRow(row) ==
  /\ row = [state |-> row.state, reserved |-> row.reserved, spent |-> row.spent]
  /\ row.reserved \in Nat /\ row.spent \in Nat

\* What the tables say of the money of one run.
RunSound(rs, js, ls, r) ==
  /\ RunRow(rs[r])
  /\ rs[r].reserved = Total(Estimate, Reserving(js, r))
  /\ rs[r].reserved + rs[r].spent =< Ceiling[r] + OverrunsIn(ls, r)

\* An attempt is charged when it is completed, and no sooner.
Uncharged(ls) == \A j \in Jobs : \A a \in Attempts(j) : ls[j][a].status = "active" => ls[j][a].charged = 0

MoneyInv ==
  /\ runs = [r \in Runs |-> runs[r]]
  /\ Uncharged(leases)
  /\ \A r \in Runs : RunSound(runs, jobs, leases, r)

-----------------------------------------------------------------------------
\* Sums over the jobs of a run are sums of natural numbers over a finite set.
LEMMA Estimates ==
  ASSUME NEW S \in SUBSET Jobs
  PROVE  /\ IsFiniteSet(S) /\ \A j \in S : Estimate[j] \in Int
         /\ Total(Estimate, S) \in Nat
<1>1. IsFiniteSet(S) /\ \A j \in S : Estimate[j] \in Nat
  BY FS_Subset, RuntimeAssumption
<1> QED  BY <1>1, TotalNat

\* A job has finitely many attempts.
LEMMA AttemptsFinite == ASSUME NEW k \in Jobs PROVE IsFiniteSet(Attempts(k))
<1>1. MaxAttempts[k] \in Int
  BY RuntimeAssumption
<1>2. PICK n \in Int : n = MaxAttempts[k]
  BY <1>1
<1>3. IsFiniteSet(1 .. n)
  BY FS_Interval
<1> QED  BY <1>2, <1>3 DEF Attempts

\* Overruns are natural numbers.
LEMMA OverrunNat ==
  ASSUME NEW ls, \A j \in Jobs : ls[j] \in [Attempts(j) -> LeaseRows]
  PROVE  /\ \A j \in Jobs : JobOverrun(ls, j) \in Nat
         /\ \A r \in Runs : OverrunsIn(ls, r) \in Nat
<1>1. ASSUME NEW j \in Jobs PROVE JobOverrun(ls, j) \in Nat
  <2> DEFINE f == [a \in Attempts(j) |-> AtLeastZero(ls[j][a].charged - Estimate[j])]
  <2>1. IsFiniteSet(Attempts(j))
    BY AttemptsFinite
  <2>2. ASSUME NEW a \in Attempts(j) PROVE f[a] \in Nat
    <3>1. ls[j][a].charged \in Nat /\ Estimate[j] \in Nat
      BY RuntimeAssumption DEF LeaseRows
    <3> QED  BY <3>1 DEF AtLeastZero
  <2> HIDE DEF f
  <2>3. Total(f, Attempts(j)) \in Nat
    BY <2>1, <2>2, TotalNat
  <2> QED  BY <2>3 DEF JobOverrun, f
<1>2. ASSUME NEW r \in Runs PROVE OverrunsIn(ls, r) \in Nat
  <2> DEFINE f == [j \in Jobs |-> JobOverrun(ls, j)]
  <2>1. IsFiniteSet(JobsOf(r)) /\ \A j \in JobsOf(r) : f[j] \in Nat
    BY <1>1, FS_Subset, RuntimeAssumption DEF JobsOf
  <2> HIDE DEF f
  <2>2. Total(f, JobsOf(r)) \in Nat
    BY <2>1, TotalNat
  <2> QED  BY <2>2 DEF OverrunsIn, f
<1> QED  BY <1>1, <1>2

\* They depend on the charges of the run's own jobs alone.
LEMMA OverrunSame ==
  ASSUME NEW ls, NEW mm, NEW r \in Runs,
         \A j \in Jobs : ls[j] \in [Attempts(j) -> LeaseRows],
         \A j \in JobsOf(r) : \A a \in Attempts(j) : mm[j][a].charged = ls[j][a].charged
  PROVE  OverrunsIn(mm, r) = OverrunsIn(ls, r)
<1>1. ASSUME NEW j \in JobsOf(r) PROVE JobOverrun(mm, j) = JobOverrun(ls, j)
  BY DEF JobOverrun
<1> DEFINE f == [j \in Jobs |-> JobOverrun(ls, j)]
           e == [j \in Jobs |-> JobOverrun(mm, j)]
<1>2. /\ IsFiniteSet(JobsOf(r))
      /\ \A j \in JobsOf(r) : f[j] \in Int /\ f[j] = e[j]
  BY <1>1, OverrunNat, FS_Subset, RuntimeAssumption DEF JobsOf
<1> HIDE DEF f, e
<1>3. Total(f, JobsOf(r)) = Total(e, JobsOf(r))
  BY <1>2, TotalSame
<1> QED  BY <1>3 DEF OverrunsIn, f, e

\* Charging one attempt that was not charged before.
LEMMA OverrunCharged ==
  ASSUME NEW ls, NEW mm, \A j \in Jobs : ls[j] \in [Attempts(j) -> LeaseRows],
         \A j \in Jobs : mm[j] \in [Attempts(j) -> LeaseRows],
         NEW k \in Jobs, NEW n \in Attempts(k), ls[k][n].charged = 0,
         \A j \in Jobs : \A a \in Attempts(j) : j # k \/ a # n => mm[j][a].charged = ls[j][a].charged
  PROVE  OverrunsIn(mm, RunOf[k]) = OverrunsIn(ls, RunOf[k]) + AtLeastZero(mm[k][n].charged - Estimate[k])
<1>1. JobOverrun(mm, k) = JobOverrun(ls, k) + AtLeastZero(mm[k][n].charged - Estimate[k])
  <2> DEFINE f == [a \in Attempts(k) |-> AtLeastZero(ls[k][a].charged - Estimate[k])]
             e == [a \in Attempts(k) |-> AtLeastZero(mm[k][a].charged - Estimate[k])]
  <2>1. IsFiniteSet(Attempts(k))
    BY AttemptsFinite
  <2>2. Estimate[k] \in Nat
    BY RuntimeAssumption
  <2>3. ASSUME NEW a \in Attempts(k) PROVE f[a] \in Int /\ e[a] \in Int
    <3>1. ls[k][a].charged \in Nat /\ mm[k][a].charged \in Nat
      BY DEF LeaseRows
    <3> QED  BY <2>2, <3>1 DEF AtLeastZero
  <2>4. \A a \in Attempts(k) \ {n} : f[a] = e[a]
    OBVIOUS
  <2>5. f[n] = 0 /\ e[n] = AtLeastZero(mm[k][n].charged - Estimate[k])
    BY <2>2 DEF AtLeastZero
  <2> HIDE DEF f, e
  <2>6. Total(e, Attempts(k)) = Total(f, Attempts(k)) + e[n] - f[n]
    BY <2>1, <2>3, <2>4, TotalChange
  <2>7. Total(f, Attempts(k)) \in Int
    BY <2>1, <2>3, TotalInt
  <2>8. Total(e, Attempts(k)) = Total(f, Attempts(k)) + e[n]
    BY <2>3, <2>5, <2>6, <2>7
  <2> QED  BY <2>5, <2>8 DEF JobOverrun, f, e
<1>2. ASSUME NEW j \in Jobs, j # k PROVE JobOverrun(mm, j) = JobOverrun(ls, j)
  BY <1>2 DEF JobOverrun
<1> DEFINE f == [j \in Jobs |-> JobOverrun(ls, j)]
           e == [j \in Jobs |-> JobOverrun(mm, j)]
           r == RunOf[k]
<1>3. /\ IsFiniteSet(JobsOf(r)) /\ k \in JobsOf(r)
      /\ \A j \in JobsOf(r) : f[j] \in Int /\ e[j] \in Int
      /\ \A j \in JobsOf(r) \ {k} : f[j] = e[j]
  BY <1>2, OverrunNat, FS_Subset, RuntimeAssumption, SMTT(30) DEF JobsOf
<1>4. f[k] = JobOverrun(ls, k) /\ e[k] = JobOverrun(mm, k)
  OBVIOUS
<1> HIDE DEF f, e, r
<1>5. Total(e, JobsOf(r)) = Total(f, JobsOf(r)) + e[k] - f[k]
  BY <1>3, TotalChange
<1>6. Total(f, JobsOf(r)) \in Int /\ f[k] \in Int /\ e[k] \in Int
  BY <1>3, TotalInt
<1>7. AtLeastZero(mm[k][n].charged - Estimate[k]) \in Int
  <2>1. mm[k][n].charged \in Nat /\ Estimate[k] \in Nat
    BY RuntimeAssumption DEF LeaseRows
  <2> QED  BY <2>1 DEF AtLeastZero
<1>8. Total(e, JobsOf(r)) = Total(f, JobsOf(r)) + AtLeastZero(mm[k][n].charged - Estimate[k])
  BY <1>1, <1>4, <1>5, <1>6, <1>7
<1> QED  BY <1>8 DEF OverrunsIn, f, e, r
-----------------------------------------------------------------------------
\* What a call does to a run that is not its own, or to its state alone.
LEMMA RunKept ==
  ASSUME NEW r \in Runs, RuntimeInv, RunSound(runs, jobs, leases, r), NEW rs, NEW js, NEW ls,
         RunRow(rs[r]), rs[r].reserved = runs[r].reserved, rs[r].spent = runs[r].spent,
         Reserving(js, r) = Reserving(jobs, r),
         \A j \in JobsOf(r) : \A a \in Attempts(j) : ls[j][a].charged = leases[j][a].charged
  PROVE  RunSound(rs, js, ls, r)
<1>1. OverrunsIn(ls, r) = OverrunsIn(leases, r)
  BY OverrunSame DEF RuntimeInv, RowsTyped
<1> QED  BY <1>1 DEF RunSound

\* The invariant, of the next state.
LEMMA NextMoney ==
  ASSUME runs' = [r \in Runs |-> runs'[r]], Uncharged(leases'),
         \A r \in Runs : RunSound(runs', jobs', leases', r)
  PROVE  MoneyInv'
<1>1. Uncharged(leases)'
  BY DEF Uncharged, Attempts
<1>2. ASSUME NEW r \in Runs PROVE RunSound(runs, jobs, leases, r)'
  <2>1. RunSound(runs', jobs', leases', r)
    OBVIOUS
  <2> QED  BY <2>1, Zenon DEF RunSound, RunRow, OverrunsIn, JobOverrun, Attempts, Reserving, Claimed, JobsOf
<1> QED  BY <1>1, <1>2 DEF MoneyInv

\* The sweep gives back what the expired jobs had reserved, and they were all claimed.
LEMMA SweepMoney ==
  ASSUME RuntimeInv, MoneyInv
  PROVE  /\ Uncharged(ReconciledLeases)
         /\ ReconciledRuns = [r \in Runs |-> ReconciledRuns[r]]
         /\ \A r \in Runs : RunSound(ReconciledRuns, ReconciledJobs, ReconciledLeases, r)
<1>1. ASSUME NEW j \in Jobs, NEW a \in Attempts(j)
      PROVE  /\ ReconciledLeases[j][a].charged = leases[j][a].charged
             /\ ReconciledLeases[j][a].status = "active" => leases[j][a].status = "active"
  <2>1. leases[j][a] \in LeaseRows
    BY DEF RuntimeInv, RowsTyped
  <2>2. ReconciledLeases[j][a] = IF a \in RunOut(j) THEN [leases[j][a] EXCEPT !.status = "expired"]
                                                    ELSE leases[j][a]
    BY DEF ReconciledLeases
  <2> QED  BY <2>1, <2>2 DEF LeaseRows
<1>2. Uncharged(ReconciledLeases)
  BY <1>1 DEF MoneyInv, Uncharged
<1>3. Claimed(ReconciledJobs) = Claimed(jobs) \ Expired /\ Expired \subseteq Claimed(jobs)
  <2>1. ASSUME NEW j \in Jobs
        PROVE  /\ j \in Expired => jobs[j].status = "claimed"
               /\ ReconciledJobs[j].status = "claimed" <=> jobs[j].status = "claimed" /\ j \notin Expired
    <3>1. jobs[j] \in JobRows /\ JobSound(j)
      BY DEF RuntimeInv, RowsTyped
    <3>2. ReconciledJobs[j] = Due(IF j \in Expired THEN ExpiredJob(j) ELSE jobs[j])
      BY DEF ReconciledJobs
    <3>3. j \in Expired => Held(j) # {}
      BY DEF Expired, RunOut, Held
    <3>4. ExpiredJob(j) \in JobRows /\ ExpiredJob(j).status # "claimed"
      BY <3>1, ExpiredRow
    <3>5. ASSUME NEW row \in JobRows PROVE Due(row).status = "claimed" <=> row.status = "claimed"
      BY DEF Due, JobRows
    <3> QED  BY <3>1, <3>2, <3>3, <3>4, <3>5 DEF JobSound
  <2> QED  BY <2>1 DEF Claimed, Expired
<1>4. ASSUME NEW r \in Runs PROVE RunSound(ReconciledRuns, ReconciledJobs, ReconciledLeases, r)
  <2> DEFINE S == Reserving(jobs, r)
             T == Expired \cap JobsOf(r)
  <2>1. S \in SUBSET Jobs /\ T \in SUBSET S /\ Reserving(ReconciledJobs, r) = S \ T
    BY <1>3 DEF Reserving, JobsOf
  <2>2. RunSound(runs, jobs, leases, r)
    BY DEF MoneyInv
  <2>3. ReconciledRuns[r] = [runs[r] EXCEPT !.reserved = AtLeastZero(runs[r].reserved - Total(Estimate, T))]
    BY DEF ReconciledRuns
  <2>4. runs[r].reserved = Total(Estimate, S)
    BY <2>2 DEF RunSound
  <2> HIDE DEF S, T
  <2>5. /\ Total(Estimate, S) = Total(Estimate, T) + Total(Estimate, S \ T)
        /\ Total(Estimate, T) \in Nat /\ Total(Estimate, S \ T) \in Nat
    BY <2>1, Estimates, TotalSplit
  <2>6. AtLeastZero(runs[r].reserved - Total(Estimate, T)) = Total(Estimate, S \ T)
    BY <2>4, <2>5 DEF AtLeastZero
  <2>7. /\ RunRow(ReconciledRuns[r]) /\ ReconciledRuns[r].spent = runs[r].spent
        /\ ReconciledRuns[r].reserved = Total(Estimate, S \ T)
    BY <2>2, <2>3, <2>5, <2>6 DEF RunSound, RunRow
  <2>8. OverrunsIn(ReconciledLeases, r) = OverrunsIn(leases, r) /\ OverrunsIn(leases, r) \in Nat
    BY <1>1, OverrunSame, OverrunNat DEF RuntimeInv, RowsTyped, JobsOf
  <2>9. Ceiling[r] \in Nat /\ runs[r].spent \in Nat
    BY <2>2, RuntimeAssumption DEF RunSound, RunRow
  <2> QED  BY <2>1, <2>2, <2>4, <2>5, <2>7, <2>8, <2>9 DEF RunSound
<1> QED  BY <1>2, <1>4 DEF ReconciledRuns

\* reconcile.
LEMMA ReconcileMoney ==
  ASSUME RuntimeInv, MoneyInv, Reconcile
  PROVE  MoneyInv'
<1>1. jobs' = ReconciledJobs /\ leases' = ReconciledLeases /\ runs' = ReconciledRuns
  BY DEF Reconcile
<1> QED  BY <1>1, SweepMoney, NextMoney

\* claim_next: the job it starts fits into what the run has left.
LEMMA ClaimNextMoney ==
  ASSUME RuntimeInv, MoneyInv, NEW w \in Workers, ClaimNext(w), RuntimeInv'
  PROVE  MoneyInv'
<1> DEFINE js == ReconciledJobs
           rs == ReconciledRuns
           ls == ReconciledLeases
           marked == Marked(js, rs)
<1>1. /\ Uncharged(ls) /\ rs = [r \in Runs |-> rs[r]]
      /\ \A r \in Runs : RunSound(rs, js, ls, r)
  BY SweepMoney
<1>2. /\ js \in [Jobs -> JobRows] /\ ls = [j \in Jobs |-> ls[j]]
      /\ \A j \in Jobs : ls[j] \in [Attempts(j) -> LeaseRows]
  BY SweepTyped
<1>3. marked \in [Jobs -> JobRows] /\ Claimed(marked) = Claimed(js)
  BY MarkedShape DEF Claimed
<1>4. \/ jobs' = marked /\ leases' = ls /\ runs' = rs
      \/ \E j \in Ranked(js, rs) :
            /\ jobs' = [marked EXCEPT ![j] = ClaimedRow(marked[j])]
            /\ leases' = [ls EXCEPT ![j][js[j].attempt + 1] = [status |-> "active", ttl |-> LeaseTime,
                                                               charged |-> 0]]
            /\ runs' = [rs EXCEPT ![RunOf[j]].reserved = rs[RunOf[j]].reserved + Estimate[j]]
  BY DEF ClaimNext
<1>5. ASSUME NEW j \in Ranked(js, rs) PROVE j \in Jobs /\ Admissible(js, rs, j) /\ Affordable(rs, j)
  BY DEF Ranked
<1> HIDE DEF js, rs, ls, marked
<1>6. CASE jobs' = marked /\ leases' = ls /\ runs' = rs
  <2>1. ASSUME NEW r \in Runs PROVE RunSound(runs', jobs', leases', r)
    <3>1. Reserving(jobs', r) = Reserving(js, r)
      BY <1>3, <1>6 DEF Reserving
    <3> QED  BY <1>1, <1>6, <3>1 DEF RunSound
  <2> QED  BY <1>1, <1>6, <2>1, NextMoney
<1>7. ASSUME NEW j \in Ranked(js, rs),
             jobs' = [marked EXCEPT ![j] = ClaimedRow(marked[j])],
             leases' = [ls EXCEPT ![j][js[j].attempt + 1] = [status |-> "active", ttl |-> LeaseTime, charged |-> 0]],
             runs' = [rs EXCEPT ![RunOf[j]].reserved = rs[RunOf[j]].reserved + Estimate[j]]
      PROVE  MoneyInv'
  <2> DEFINE k == RunOf[j]
             n == js[j].attempt + 1
  <2>1. /\ j \in Jobs /\ k \in Runs /\ Estimate[j] \in Nat /\ Ceiling[k] \in Nat
        /\ js[j].status # "claimed"
        /\ Ceiling[k] - rs[k].reserved - rs[k].spent >= Estimate[j]
    BY <1>5, RuntimeAssumption DEF Admissible, Affordable
  <2>2. Claimed(jobs') = Claimed(js) \cup {j} /\ j \notin Claimed(js)
    <3>1. jobs'[j].status = "claimed"
      BY <1>3, <1>7, <2>1, RowClaimed
    <3> QED  BY <1>3, <1>7, <2>1, <3>1 DEF Claimed
  <2>3. RunSound(rs, js, ls, k)
    BY <1>1, <2>1
  <2>4. ASSUME NEW i \in Jobs, NEW a \in Attempts(i)
        PROVE  leases'[i][a] = IF i = j /\ a = n THEN [status |-> "active", ttl |-> LeaseTime, charged |-> 0]
                               ELSE ls[i][a]
    BY <1>2, <1>7
  <2>5. Uncharged(leases')
    BY <1>1, <2>4 DEF Uncharged
  <2>6. /\ runs' = [r \in Runs |-> runs'[r]]
        /\ runs'[k] = [rs[k] EXCEPT !.reserved = rs[k].reserved + Estimate[j]]
        /\ \A r \in Runs \ {k} : runs'[r] = rs[r]
    BY <1>1, <1>7, <2>1
  <2> HIDE DEF k, n
  <2>7. RunSound(runs', jobs', leases', k)
    <3>1. /\ Reserving(jobs', k) = Reserving(js, k) \cup {j} /\ j \notin Reserving(js, k)
      BY <2>1, <2>2 DEF Reserving, JobsOf, k
    <3>2. Reserving(js, k) \in SUBSET Jobs
      BY DEF Reserving, JobsOf
    <3>3. IsFiniteSet(Reserving(js, k)) /\ \A y \in Reserving(js, k) \cup {j} : Estimate[y] \in Int
      BY <2>1, <3>2, Estimates
    <3>4. Total(Estimate, Reserving(jobs', k)) = Total(Estimate, Reserving(js, k)) + Estimate[j]
      BY <3>1, <3>3, TotalAdd
    <3>5. /\ RunRow(runs'[k]) /\ runs'[k].spent = rs[k].spent
          /\ runs'[k].reserved = rs[k].reserved + Estimate[j]
      BY <2>1, <2>3, <2>6 DEF RunSound, RunRow
    <3>6. OverrunsIn(leases', k) \in Nat
      BY <2>1, OverrunNat DEF RuntimeInv, RowsTyped, Attempts
    <3>7. rs[k].reserved \in Nat /\ rs[k].spent \in Nat /\ rs[k].reserved = Total(Estimate, Reserving(js, k))
      BY <2>3 DEF RunSound, RunRow
    <3> QED  BY <2>1, <3>4, <3>5, <3>6, <3>7 DEF RunSound
  <2>8. ASSUME NEW r \in Runs, r # k PROVE RunSound(runs', jobs', leases', r)
    <3>1. Reserving(jobs', r) = Reserving(js, r)
      BY <2>2, <2>8 DEF Reserving, JobsOf, k
    <3>2. \A i \in JobsOf(r) : \A a \in Attempts(i) : leases'[i][a].charged = ls[i][a].charged
      BY <2>4, <2>8 DEF JobsOf, k
    <3>3. OverrunsIn(leases', r) = OverrunsIn(ls, r)
      BY <1>2, <3>2, OverrunSame
    <3>4. runs'[r] = rs[r] /\ RunSound(rs, js, ls, r)
      BY <1>1, <2>6, <2>8
    <3> QED  BY <3>1, <3>3, <3>4 DEF RunSound
  <2> QED  BY <2>5, <2>6, <2>7, <2>8, NextMoney
<1> QED  BY <1>4, <1>6, <1>7

\* complete_job gives the estimate back and charges the attempt, once.
LEMMA CompleteMoney ==
  ASSUME RuntimeInv, MoneyInv, NEW k \in Jobs, NEW n \in Attempts(k), NEW outcome \in SettledJobs,
         NEW cost \in Costs \cup {Estimate[k]}, CompleteJob(k, n, outcome, cost), RuntimeInv'
  PROVE  MoneyInv'
<1> DEFINE q == RunOf[k]
           done == [status |-> "completed", ttl |-> 0, charged |-> cost]
<1>1. /\ leases[k][n].status = "active"
      /\ runs' = [runs EXCEPT ![q].reserved = AtLeastZero(@ - Estimate[k]), ![q].spent = @ + cost]
      /\ leases' = [leases EXCEPT ![k][n] = done]
      /\ jobs' = [jobs EXCEPT ![k] = CompletedJob(k, outcome)]
  BY DEF CompleteJob
<1>2. /\ jobs \in [Jobs -> JobRows] /\ leases = [j \in Jobs |-> leases[j]]
      /\ \A j \in Jobs : leases[j] \in [Attempts(j) -> LeaseRows]
      /\ \A j \in Jobs : leases'[j] \in [Attempts(j) -> LeaseRows]
      /\ JobSound(k)
  BY DEF RuntimeInv, RowsTyped, Attempts
<1>3. /\ q \in Runs /\ cost \in Nat /\ Estimate[k] \in Nat /\ Ceiling[q] \in Nat
  BY RuntimeAssumption
<1>4. jobs[k].status = "claimed"
  BY <1>1, <1>2 DEF JobSound, Held
<1>5. CompletedJob(k, outcome).status # "claimed"
  BY <1>2, ExpiredRow DEF CompletedJob, JobRows
<1>6. Claimed(jobs') = Claimed(jobs) \ {k} /\ k \in Claimed(jobs)
  BY <1>1, <1>2, <1>4, <1>5 DEF Claimed
<1>7. ASSUME NEW i \in Jobs, NEW a \in Attempts(i)
      PROVE  leases'[i][a] = IF i = k /\ a = n THEN done ELSE leases[i][a]
  BY <1>1, <1>2
<1>8. Uncharged(leases')
  BY <1>7 DEF MoneyInv, Uncharged
<1>9. /\ runs' = [r \in Runs |-> runs'[r]]
      /\ runs'[q] = [runs[q] EXCEPT !.reserved = AtLeastZero(runs[q].reserved - Estimate[k]),
                                    !.spent = runs[q].spent + cost]
      /\ \A r \in Runs \ {q} : runs'[r] = runs[r]
  BY <1>1, <1>3 DEF MoneyInv, RunSound, RunRow
<1>10. RunSound(runs, jobs, leases, q) /\ leases[k][n].charged = 0
  BY <1>1, <1>3 DEF MoneyInv, Uncharged
<1> HIDE DEF q, done
<1>11. RunSound(runs', jobs', leases', q)
  <2> DEFINE S == Reserving(jobs, q)
  <2>1. k \in S /\ S \in SUBSET Jobs /\ Reserving(jobs', q) = S \ {k}
    BY <1>6 DEF Reserving, JobsOf, q
  <2>2. runs[q].reserved = Total(Estimate, S) /\ runs[q].spent \in Nat
    BY <1>10 DEF RunSound, RunRow
  <2> HIDE DEF S
  <2>3. /\ Total(Estimate, S) = Estimate[k] + Total(Estimate, S \ {k})
        /\ Total(Estimate, S \ {k}) \in Nat
    BY <2>1, Estimates, TotalTake
  <2>4. AtLeastZero(runs[q].reserved - Estimate[k]) = Total(Estimate, S \ {k})
    BY <1>3, <2>2, <2>3 DEF AtLeastZero
  <2>5. /\ RunRow(runs'[q]) /\ runs'[q].spent = runs[q].spent + cost
        /\ runs'[q].reserved = Total(Estimate, S \ {k})
    <3>1. RunRow(runs[q])
      BY <1>10 DEF RunSound
    <3>2. runs'[q] = [state |-> runs[q].state, reserved |-> Total(Estimate, S \ {k}),
                      spent |-> runs[q].spent + cost]
      BY <1>9, <2>4, <3>1 DEF RunRow
    <3> QED  BY <1>3, <2>2, <2>3, <3>2 DEF RunRow
  <2>6. OverrunsIn(leases', q) = OverrunsIn(leases, q) + AtLeastZero(leases'[k][n].charged - Estimate[k])
    <3>1. \A j \in Jobs : \A a \in Attempts(j) :
            j # k \/ a # n => leases'[j][a].charged = leases[j][a].charged
      BY <1>7
    <3>2. /\ \A j \in Jobs : leases[j] \in [Attempts(j) -> LeaseRows]
          /\ \A j \in Jobs : leases'[j] \in [Attempts(j) -> LeaseRows]
          /\ leases[k][n].charged = 0
      BY <1>2, <1>10
    <3>3. OverrunsIn(leases', RunOf[k])
            = OverrunsIn(leases, RunOf[k]) + AtLeastZero(leases'[k][n].charged - Estimate[k])
      BY <3>1, <3>2, OverrunCharged
    <3> QED  BY <3>3 DEF q
  <2>7. leases'[k][n].charged = cost
    BY <1>7 DEF done
  <2>8. OverrunsIn(leases, q) \in Nat
    BY <1>2, <1>3, OverrunNat
  <2>9. cost =< Estimate[k] + AtLeastZero(cost - Estimate[k]) /\ AtLeastZero(cost - Estimate[k]) \in Nat
    BY <1>3 DEF AtLeastZero
  <2>10. runs[q].reserved + runs[q].spent =< Ceiling[q] + OverrunsIn(leases, q)
    BY <1>10 DEF RunSound
  <2> QED  BY <1>3, <2>1, <2>2, <2>3, <2>5, <2>6, <2>7, <2>8, <2>9, <2>10 DEF RunSound
<1>12. ASSUME NEW r \in Runs, r # q PROVE RunSound(runs', jobs', leases', r)
  <2>1. Reserving(jobs', r) = Reserving(jobs, r)
    BY <1>6, <1>12 DEF Reserving, JobsOf, q
  <2>2. \A i \in JobsOf(r) : \A a \in Attempts(i) : leases'[i][a].charged = leases[i][a].charged
    BY <1>7, <1>12 DEF JobsOf, q
  <2>3. runs'[r] = runs[r] /\ RunSound(runs, jobs, leases, r)
    BY <1>9, <1>12 DEF MoneyInv
  <2> QED  BY <2>1, <2>2, <2>3, RunKept DEF RunSound
<1> QED  BY <1>8, <1>9, <1>11, <1>12, NextMoney

\* cancel_run gives back all that its run had reserved, and none of its jobs stays claimed.
LEMMA CancelMoney ==
  ASSUME RuntimeInv, MoneyInv, NEW k \in Runs, CancelRun(k)
  PROVE  MoneyInv'
<1>1. /\ leases' = CancelledLeases(k)
      /\ jobs' = [j \in Jobs |-> IF RunOf[j] = k /\ jobs[j].status \notin SettledJobs \cup {"absent"}
                                 THEN [jobs[j] EXCEPT !.status = "cancelled", !.wait = 0] ELSE jobs[j]]
      /\ runs' = [runs EXCEPT ![k].state = "cancelled", ![k].reserved = 0]
  BY DEF CancelRun
<1>2. /\ jobs \in [Jobs -> JobRows]
      /\ \A j \in Jobs : leases[j] \in [Attempts(j) -> LeaseRows]
  BY DEF RuntimeInv, RowsTyped
<1>3. ASSUME NEW i \in Jobs, NEW a \in Attempts(i)
      PROVE  /\ leases'[i][a].charged = leases[i][a].charged
             /\ leases'[i][a].status = "active" => leases[i][a].status = "active"
  <2>1. leases[i][a] \in LeaseRows
    BY <1>2
  <2>2. \/ leases'[i][a] = leases[i][a]
        \/ leases'[i][a] = [leases[i][a] EXCEPT !.status = "cancelled", !.ttl = 0]
    BY <1>1 DEF CancelledLeases
  <2> QED  BY <2>1, <2>2 DEF LeaseRows
<1>4. Uncharged(leases')
  BY <1>3 DEF MoneyInv, Uncharged
<1>5. Claimed(jobs') = Claimed(jobs) \ JobsOf(k)
  <2>1. ASSUME NEW j \in Jobs
        PROVE  jobs'[j].status = "claimed" <=> jobs[j].status = "claimed" /\ RunOf[j] # k
    BY <1>1, <1>2 DEF SettledJobs, JobRows
  <2> QED  BY <2>1 DEF Claimed, JobsOf
<1>6. /\ runs' = [r \in Runs |-> runs'[r]]
      /\ runs'[k] = [runs[k] EXCEPT !.state = "cancelled", !.reserved = 0]
      /\ \A r \in Runs \ {k} : runs'[r] = runs[r]
  BY <1>1 DEF MoneyInv, RunSound, RunRow
<1>7. RunSound(runs', jobs', leases', k)
  <2>1. Reserving(jobs', k) = {}
    BY <1>5 DEF Reserving
  <2>2. RunSound(runs, jobs, leases, k)
    BY DEF MoneyInv
  <2>3. /\ RunRow(runs'[k]) /\ runs'[k].spent = runs[k].spent /\ runs'[k].reserved = 0
    <3>1. RunRow(runs[k])
      BY <2>2 DEF RunSound
    <3>2. runs'[k] = [state |-> "cancelled", reserved |-> 0, spent |-> runs[k].spent]
      BY <1>6, <3>1 DEF RunRow
    <3> QED  BY <3>1, <3>2 DEF RunRow
  <2>4. OverrunsIn(leases', k) = OverrunsIn(leases, k) /\ OverrunsIn(leases, k) \in Nat
    BY <1>2, <1>3, OverrunSame, OverrunNat DEF JobsOf
  <2>5. Total(Estimate, Reserving(jobs', k)) = 0
    BY <2>1, TotalEmpty
  <2>6. runs[k].reserved \in Nat /\ runs[k].spent \in Nat /\ Ceiling[k] \in Nat
    BY <2>2, RuntimeAssumption DEF RunSound, RunRow
  <2> QED  BY <2>2, <2>3, <2>4, <2>5, <2>6 DEF RunSound
<1>8. ASSUME NEW r \in Runs, r # k PROVE RunSound(runs', jobs', leases', r)
  <2>1. Reserving(jobs', r) = Reserving(jobs, r)
    BY <1>5, <1>8 DEF Reserving, JobsOf
  <2>2. \A i \in JobsOf(r) : \A a \in Attempts(i) : leases'[i][a].charged = leases[i][a].charged
    BY <1>3 DEF JobsOf
  <2>3. runs'[r] = runs[r] /\ RunSound(runs, jobs, leases, r)
    BY <1>6, <1>8 DEF MoneyInv
  <2> QED  BY <2>1, <2>2, <2>3, RunKept DEF RunSound
<1> QED  BY <1>4, <1>6, <1>7, <1>8, NextMoney

\* The other calls move states, and jobs that are not claimed; time moves countdowns.
LEMMA OtherMoney ==
  ASSUME RuntimeInv, MoneyInv,
         runs' = [r \in Runs |-> runs'[r]], Claimed(jobs') = Claimed(jobs),
         \A r \in Runs : /\ RunRow(runs'[r])
                         /\ runs'[r].reserved = runs[r].reserved /\ runs'[r].spent = runs[r].spent,
         \A j \in Jobs : \A a \in Attempts(j) : /\ leases'[j][a].charged = leases[j][a].charged
                                                /\ leases'[j][a].status = leases[j][a].status
  PROVE  MoneyInv'
<1>1. Uncharged(leases')
  BY DEF MoneyInv, Uncharged
<1>2. ASSUME NEW r \in Runs PROVE RunSound(runs', jobs', leases', r)
  <2>1. RunSound(runs, jobs, leases, r) /\ Reserving(jobs', r) = Reserving(jobs, r)
    BY DEF MoneyInv, Reserving
  <2>2. \A j \in JobsOf(r) : \A a \in Attempts(j) : leases'[j][a].charged = leases[j][a].charged
    BY DEF JobsOf
  <2> QED  BY <2>1, <2>2, RunKept
<1> QED  BY <1>1, <1>2, NextMoney

\* A run whose state alone changes.
LEMMA StateMoved ==
  ASSUME RuntimeInv, MoneyInv, NEW k \in Runs, NEW state, runs' = [runs EXCEPT ![k].state = state],
         UNCHANGED <<jobs, leases>>
  PROVE  MoneyInv'
<1>1. ASSUME NEW r \in Runs
      PROVE  /\ RunRow(runs'[r])
             /\ runs'[r].reserved = runs[r].reserved /\ runs'[r].spent = runs[r].spent
  BY DEF MoneyInv, RunSound, RunRow
<1>2. runs' = [r \in Runs |-> runs'[r]]
  BY DEF MoneyInv
<1> QED  BY <1>1, <1>2, OtherMoney

\* Every step keeps the money of every run.
LEMMA MoneyStep ==
  ASSUME RuntimeInv, MoneyInv, [AnyCall]_runtimeVars
  PROVE  MoneyInv'
<1>0. RuntimeInv'
  BY RuntimeStep, ShapePreserves
<1>1. ASSUME NEW r \in Runs, RegisterRun(r) PROVE MoneyInv'
  BY <1>1, StateMoved DEF RegisterRun
<1>2. ASSUME NEW r \in Runs, CancelRun(r) PROVE MoneyInv'
  BY <1>2, CancelMoney
<1>3. ASSUME NEW k \in Jobs, EnqueueJob(k) PROVE MoneyInv'
  <2>1. Claimed(jobs') = Claimed(jobs)
    BY <1>3 DEF EnqueueJob, Claimed, RuntimeInv, RowsTyped, JobRows
  <2> QED  BY <1>3, <2>1, OtherMoney DEF EnqueueJob, MoneyInv, RunSound
<1>4. ASSUME NEW r \in Runs, NEW target, NEW key, TransitionRun(r, target, key) PROVE MoneyInv'
  BY <1>4, StateMoved DEF TransitionRun
<1>5. CASE LeaseCalls
  BY <1>0, <1>5, ClaimNextMoney, ReconcileMoney, CompleteMoney DEF LeaseCalls
<1>6. CASE RuntimeTick
  <2>1. ASSUME NEW j \in Jobs
        PROVE  /\ jobs'[j].status = jobs[j].status
               /\ \A a \in Attempts(j) : /\ leases'[j][a].charged = leases[j][a].charged
                                         /\ leases'[j][a].status = leases[j][a].status
    BY <1>6 DEF RuntimeTick, RuntimeInv, RowsTyped, JobRows, LeaseRows
  <2>2. Claimed(jobs') = Claimed(jobs) /\ runs' = runs
    BY <1>6, <2>1 DEF Claimed, RuntimeTick
  <2> QED  BY <2>1, <2>2, OtherMoney DEF MoneyInv, RunSound
<1>7. CASE UNCHANGED runtimeVars
  BY <1>7, OtherMoney DEF runtimeVars, MoneyInv, RunSound
<1> QED
  BY <1>1, <1>2, <1>3, <1>4, <1>5, <1>6, <1>7 DEF AnyCall

\* Nothing is reserved, spent or charged in the empty tables.
LEMMA MoneyStart ==
  ASSUME RuntimeInit
  PROVE  MoneyInv
<1>1. RuntimeInv
  BY RuntimeStart
<1>2. Uncharged(leases)
  BY DEF RuntimeInit, Uncharged, NoLease
<1>3. ASSUME NEW r \in Runs PROVE RunSound(runs, jobs, leases, r)
  <2>1. Reserving(jobs, r) = {} /\ runs[r] = [state |-> "absent", reserved |-> 0, spent |-> 0]
    BY DEF RuntimeInit, Reserving, Claimed
  <2>2. Total(Estimate, Reserving(jobs, r)) = 0
    BY <2>1, TotalEmpty
  <2>3. OverrunsIn(leases, r) \in Nat /\ Ceiling[r] \in Nat
    BY <1>1, OverrunNat, RuntimeAssumption DEF RuntimeInv, RowsTyped
  <2> QED  BY <2>1, <2>2, <2>3 DEF RunSound, RunRow
<1>4. runs = [r \in Runs |-> runs[r]]
  BY DEF RuntimeInit
<1> QED  BY <1>2, <1>3, <1>4 DEF MoneyInv

\* The money of every run is sound in every reachable state.
LEMMA MoneyInvariance == RuntimeSpec => []MoneyInv
<1>1. RuntimeInit => MoneyInv
  BY MoneyStart
<1>2. RuntimeInv /\ MoneyInv /\ [RuntimeNext]_runtimeVars => MoneyInv'
  BY RuntimeCalls, MoneyStep
<1> QED
  BY <1>1, <1>2, RuntimeInvariance, PTL DEF RuntimeSpec

\* budget_reserved is the sum of the estimates of the jobs that are claimed: no
\* completion, expiry or cancellation gives a reservation back twice or keeps one.
THEOREM ReservationsBacked == RuntimeSpec => []ReservedBacked
<1>1. MoneyInv => ReservedBacked
  BY DEF MoneyInv, RunSound, Reserving, ReservedBacked
<1> QED
  BY <1>1, MoneyInvariance, PTL

\* A run passes its ceiling by no more than what its attempts cost over their estimates.
THEOREM CeilingKept == RuntimeSpec => []CeilingHolds
<1>1. MoneyInv => CeilingHolds
  BY DEF MoneyInv, RunSound, CeilingHolds, Overruns, OverrunsIn, JobOverrun
<1> QED
  BY <1>1, MoneyInvariance, PTL

-----------------------------------------------------------------------------
\* The implementation cycle.

\* The cycle drives runs while workers claim and complete their jobs.
DrivenVars == <<runtimeVars, cycleVars>>
DrivenNext ==
  \/ CycleNext
  \/ (LeaseCalls \/ RuntimeTick) /\ UNCHANGED cycleVars
DrivenSpec == RuntimeInit /\ CycleInit /\ [][DrivenNext]_DrivenVars

\* A correction is allowed only by a failure that was counted.
LoopsCounted ==
  /\ trackers \in [CycleRuns -> [attempts : Nat, failures : Nat]]
  /\ reworks \in [CycleRuns -> Nat]
  /\ \A r \in CycleRuns : reworks[r] =< trackers[r].attempts /\ reworks[r] < MaxCorrections

-----------------------------------------------------------------------------
\* A step that touches no tracker.
LEMMA LoopsKept ==
  ASSUME LoopsCounted, UNCHANGED <<trackers, reworks>>
  PROVE  LoopsCounted'
BY DEF LoopsCounted

\* A success resets the consecutive failures and keeps the attempts.
LEMMA SuccessKeeps ==
  ASSUME LoopsCounted, NEW r \in CycleRuns,
         trackers' = [trackers EXCEPT ![r] = Success(@)], UNCHANGED reworks
  PROVE  LoopsCounted'
<1>1. /\ Success(trackers[r]) \in [attempts : Nat, failures : Nat]
      /\ Success(trackers[r]).attempts = trackers[r].attempts
  BY DEF LoopsCounted, Success
<1>2. trackers' = [trackers EXCEPT ![r] = Success(trackers[r])]
  OBVIOUS
<1> QED
  BY <1>1, <1>2 DEF LoopsCounted

\* A failure is counted before its verdict is read, so the last one allowed is the
\* one before the limit.
LEMMA FailureCounts ==
  ASSUME LoopsCounted, NEW r \in CycleRuns, Counted(r, Failure(trackers[r]))
  PROVE  LoopsCounted'
<1> DEFINE failed == Failure(trackers[r])
<1>1. /\ failed \in [attempts : Nat, failures : Nat]
      /\ failed.attempts = trackers[r].attempts + 1
  BY DEF LoopsCounted, Failure
<1>2. MaxCorrections \in Nat /\ reworks[r] \in Nat /\ trackers[r].attempts \in Nat
      /\ reworks[r] =< trackers[r].attempts /\ reworks[r] < MaxCorrections
  BY CycleAssumption DEF LoopsCounted
<1>3. PICK more \in {0, 1} :
        /\ reworks' = [reworks EXCEPT ![r] = @ + more]
        /\ more = 1 => failed.attempts < MaxCorrections
  <2>1. reworks' = [reworks EXCEPT ![r] = @ + (IF CanRetry(failed) THEN 1 ELSE 0)]
    BY DEF Counted
  <2>2. CASE CanRetry(failed)
    BY <2>1, <2>2 DEF CanRetry
  <2>3. CASE ~ CanRetry(failed)
    BY <2>1, <2>3
  <2> QED
    BY <2>2, <2>3
<1>4. trackers' = [trackers EXCEPT ![r] = failed]
  BY DEF Counted
<1> HIDE DEF failed
<1>5. reworks[r] + more =< failed.attempts /\ reworks[r] + more < MaxCorrections
      /\ reworks[r] + more \in Nat
  BY <1>1, <1>2, <1>3
<1> QED
  BY <1>1, <1>3, <1>4, <1>5 DEF LoopsCounted

\* What each step does to the trackers, and to the runtime's tables.
LEMMA LoopStep ==
  ASSUME LoopsCounted, [DrivenNext]_DrivenVars
  PROVE  LoopsCounted'
<1>1. ASSUME NEW r \in CycleRuns, RegisterRun(r) /\ UNCHANGED cycleVars PROVE LoopsCounted'
  BY <1>1, LoopsKept DEF cycleVars
<1>2. ASSUME NEW r \in CycleRuns, StartDevelopment(r) \/ SubmitCandidate(r) PROVE LoopsCounted'
  BY <1>2, LoopsKept DEF StartDevelopment, SubmitCandidate
<1>3. ASSUME NEW r \in CycleRuns, NEW verdict \in BOOLEAN, RunValidation(r, verdict)
      PROVE  LoopsCounted'
  <2>1. CASE verdict
    BY <1>3, <2>1, SuccessKeeps DEF RunValidation
  <2>2. CASE ~ verdict
    BY <1>3, <2>2, FailureCounts DEF RunValidation
  <2> QED
    BY <2>1, <2>2
<1>4. ASSUME NEW r \in CycleRuns, NEW verdict \in BOOLEAN, ConductIndependentReview(r, verdict)
      PROVE  LoopsCounted'
  <2>1. CASE verdict
    BY <1>4, <2>1, SuccessKeeps DEF ConductIndependentReview
  <2>2. CASE ~ verdict
    BY <1>4, <2>2, FailureCounts DEF ConductIndependentReview
  <2> QED
    BY <2>1, <2>2
<1>5. ASSUME NEW r \in CycleRuns, CallTransition(r) \/ CallEnqueue(r) PROVE LoopsCounted'
  BY <1>5, LoopsKept DEF CallTransition, CallEnqueue
<1>6. CASE Restart
  <2>1. FreshTracker \in [attempts : Nat, failures : Nat] /\ FreshTracker.attempts = 0
    BY DEF FreshTracker
  <2>2. MaxCorrections \in Nat /\ MaxCorrections # 0
    BY CycleAssumption
  <2> QED
    BY <1>6, <2>1, <2>2 DEF Restart, LoopsCounted
<1>7. CASE UNCHANGED cycleVars
  BY <1>7, LoopsKept DEF cycleVars
<1> QED
  BY <1>1, <1>2, <1>3, <1>4, <1>5, <1>6, <1>7 DEF DrivenNext, CycleNext, DrivenVars

\* Each step of the cycle is one of the runtime's calls, or leaves the runtime alone.
LEMMA DrivenCalls ==
  ASSUME [DrivenNext]_DrivenVars
  PROVE  [AnyCall]_runtimeVars
<1>1. CASE UNCHANGED runtimeVars
  BY <1>1
<1>2. ASSUME NEW r \in CycleRuns, RegisterRun(r) PROVE AnyCall
  BY <1>2, CycleAssumption DEF AnyCall
<1>3. ASSUME NEW r \in CycleRuns,
             \/ StartDevelopment(r) \/ SubmitCandidate(r)
             \/ \E verdict \in BOOLEAN : RunValidation(r, verdict) \/ ConductIndependentReview(r, verdict)
      PROVE  UNCHANGED runtimeVars
  BY <1>3 DEF StartDevelopment, SubmitCandidate, RunValidation, ConductIndependentReview, Begin
<1>4. ASSUME NEW r \in CycleRuns, CallTransition(r) PROVE [AnyCall]_runtimeVars
  <2>1. CASE \E target, key : TransitionRun(r, target, key)
    BY <2>1, CycleAssumption DEF AnyCall
  <2> QED
    BY <1>4, <2>1 DEF CallTransition, Raise
<1>5. ASSUME NEW r \in CycleRuns, CallEnqueue(r) PROVE [AnyCall]_runtimeVars
  BY <1>5 DEF CallEnqueue, Unused, JobsOf, AnyCall
<1>6. CASE Restart
  BY <1>6 DEF Restart
<1>7. CASE LeaseCalls \/ RuntimeTick
  BY <1>7 DEF AnyCall
<1> QED
  BY <1>1, <1>2, <1>3, <1>4, <1>5, <1>6, <1>7 DEF DrivenNext, CycleNext, DrivenVars

-----------------------------------------------------------------------------
\* While the service lives, the tracker sends a ticket back fewer times than its limit.
THEOREM LoopBounded == DrivenSpec => []ReworkBounded
<1>1. RuntimeInit /\ CycleInit => LoopsCounted
  <2>1. FreshTracker \in [attempts : Nat, failures : Nat] /\ FreshTracker.attempts = 0
    BY DEF FreshTracker
  <2>2. MaxCorrections \in Nat /\ MaxCorrections # 0
    BY CycleAssumption
  <2> QED
    BY <2>1, <2>2 DEF CycleInit, LoopsCounted
<1>2. LoopsCounted /\ [DrivenNext]_DrivenVars => LoopsCounted'
  BY LoopStep
<1>3. LoopsCounted => ReworkBounded
  BY DEF LoopsCounted, ReworkBounded
<1> QED
  BY <1>1, <1>2, <1>3, PTL DEF DrivenSpec

\* Jobs that the cycle enqueues while workers claim others keep one lease each.
THEOREM DrivenOneLease == DrivenSpec => []OneLeasePerJob
<1>1. RuntimeInit /\ CycleInit => RuntimeInv
  BY RuntimeStart
<1>2. RuntimeInv /\ [DrivenNext]_DrivenVars => RuntimeInv'
  BY DrivenCalls, RuntimeStep, ShapePreserves
<1>3. RuntimeInv => OneLeasePerJob
  BY DEF RuntimeInv, JobSound, Held, OneLeasePerJob
<1> QED
  BY <1>1, <1>2, <1>3, PTL DEF DrivenSpec

\* And what they reserve is backed, and stays under the ceiling of the run.
THEOREM DrivenMoney == DrivenSpec => []ReservedBacked /\ []CeilingHolds
<1>1. RuntimeInit /\ CycleInit => RuntimeInv /\ MoneyInv
  BY RuntimeStart, MoneyStart
<1>2. RuntimeInv /\ MoneyInv /\ [DrivenNext]_DrivenVars => RuntimeInv' /\ MoneyInv'
  BY DrivenCalls, RuntimeStep, ShapePreserves, MoneyStep
<1>3. MoneyInv => ReservedBacked /\ CeilingHolds
  BY DEF MoneyInv, RunSound, Reserving, ReservedBacked, CeilingHolds, Overruns, OverrunsIn, JobOverrun
<1> QED
  BY <1>1, <1>2, <1>3, PTL DEF DrivenSpec

-----------------------------------------------------------------------------
\* Jobs that run at the same time.

\* What claim_next promises of a set of claimed jobs.
Together(S) ==
  /\ \A i, j \in S : i # j => ConflictKeys[i] \cap ConflictKeys[j] = {}
  /\ \A st \in DOMAIN StageLimits : Cardinality({j \in S : StageOf[j] = st}) =< StageLimits[st]

\* Fewer jobs than may run together may.
LEMMA TogetherPart ==
  ASSUME NEW S \in SUBSET Jobs, Together(S), NEW T \in SUBSET S
  PROVE  Together(T)
<1>1. ASSUME NEW st \in DOMAIN StageLimits
      PROVE  Cardinality({j \in T : StageOf[j] = st}) =< StageLimits[st]
  <2> DEFINE A == {j \in S : StageOf[j] = st}
             B == {j \in T : StageOf[j] = st}
  <2>1. IsFiniteSet(A) /\ A \in SUBSET Jobs /\ B \in SUBSET A /\ IsFiniteSet(B)
    BY FS_Subset, RuntimeAssumption
  <2>2. Cardinality(A) \in Nat /\ Cardinality(B) \in Nat /\ Cardinality(B) =< Cardinality(A)
    BY <2>1, FS_Subset, FS_CardinalityType
  <2>3. Cardinality(A) =< StageLimits[st] /\ StageLimits[st] \in Nat
    BY RuntimeAssumption DEF Together
  <2> HIDE DEF A, B
  <2>4. Cardinality(B) =< StageLimits[st]
    BY <2>2, <2>3
  <2> QED  BY <2>4 DEF B
<1>2. \A i, j \in T : i # j => ConflictKeys[i] \cap ConflictKeys[j] = {}
  BY DEF Together
<1> QED  BY <1>1, <1>2 DEF Together

\* A job that the filters of claim_next let through may run beside the claimed ones.
LEMMA TogetherMore ==
  ASSUME NEW js, NEW rs, Together(Claimed(js)), NEW k \in Jobs, Admissible(js, rs, k)
  PROVE  Together(Claimed(js) \cup {k})
<1> DEFINE S == Claimed(js)
<1>1. S \in SUBSET Jobs
  BY DEF Claimed
<1>2. \A i \in S : ConflictKeys[i] \cap ConflictKeys[k] = {}
  BY DEF Admissible
<1>3. \A i, j \in S \cup {k} : i # j => ConflictKeys[i] \cap ConflictKeys[j] = {}
  BY <1>2 DEF Together
<1>4. ASSUME NEW st \in DOMAIN StageLimits
      PROVE  Cardinality({j \in S \cup {k} : StageOf[j] = st}) =< StageLimits[st]
  <2> DEFINE A == {j \in S : StageOf[j] = st}
             B == {j \in S \cup {k} : StageOf[j] = st}
  <2>1. IsFiniteSet(A)
    BY <1>1, FS_Subset, RuntimeAssumption
  <2>2. Cardinality(A) \in Nat /\ Cardinality(A) =< StageLimits[st] /\ StageLimits[st] \in Nat
    BY <2>1, FS_CardinalityType, RuntimeAssumption DEF Together
  <2>3. CASE StageOf[k] = st
    <3>1. B = A \cup {k}
      BY <2>3
    <3>2. Cardinality(A) < StageLimits[st]
      BY <2>3 DEF Admissible
    <3> HIDE DEF A, B
    <3>3. Cardinality(A \cup {k}) =< Cardinality(A) + 1
      <4>1. Cardinality(A \cup {k}) = IF k \in A THEN Cardinality(A) ELSE Cardinality(A) + 1
        BY <2>1, FS_AddElement
      <4> QED  BY <2>2, <4>1
    <3>4. Cardinality(A \cup {k}) \in Nat
      BY <2>1, FS_AddElement, FS_CardinalityType
    <3>5. Cardinality(B) =< StageLimits[st]
      BY <2>2, <3>1, <3>2, <3>3, <3>4
    <3> QED  BY <3>5 DEF B
  <2>4. CASE StageOf[k] # st
    <3>1. B = A
      BY <2>4
    <3> QED  BY <2>2, <3>1
  <2> QED  BY <2>3, <2>4
<1> HIDE DEF S
<1>5. Together(S \cup {k})
  BY <1>3, <1>4 DEF Together
<1> QED  BY <1>5 DEF S

\* claim_next adds one job, admitted beside those that its own sweep leaves claimed.
LEMMA ClaimNextTogether ==
  ASSUME RuntimeInv, Together(Claimed(jobs)), NEW w \in Workers, ClaimNext(w)
  PROVE  Together(Claimed(jobs'))
<1> DEFINE js == ReconciledJobs
           rs == ReconciledRuns
           marked == Marked(js, rs)
<1>1. Claimed(js) \in SUBSET Claimed(jobs) /\ Claimed(jobs) \in SUBSET Jobs
  BY SweepShape DEF Swept, Claimed
<1>2. Together(Claimed(js))
  BY <1>1, TogetherPart
<1>3. Claimed(marked) \in SUBSET Claimed(js) /\ marked = [j \in Jobs |-> marked[j]]
  BY MarkedShape DEF Claimed, Marked
<1>4. CASE Ranked(js, rs) = {}
  <2>1. jobs' = marked
    BY <1>4 DEF ClaimNext
  <2> HIDE DEF js, rs, marked
  <2> QED  BY <1>1, <1>2, <1>3, <2>1, TogetherPart
<1>5. CASE Ranked(js, rs) # {}
  <2>1. PICK k \in Ranked(js, rs) : jobs' = [marked EXCEPT ![k] = ClaimedRow(marked[k])]
    BY <1>5 DEF ClaimNext
  <2>2. k \in Jobs /\ Admissible(js, rs, k)
    BY DEF Ranked
  <2> HIDE DEF js, rs, marked
  <2>3. Together(Claimed(js) \cup {k})
    BY <1>2, <2>2, TogetherMore
  <2>4. Claimed(jobs') \in SUBSET (Claimed(js) \cup {k})
    BY <1>3, <2>1 DEF Claimed
  <2>5. Claimed(js) \cup {k} \in SUBSET Jobs
    BY <1>1, <2>2
  <2> QED  BY <2>3, <2>4, <2>5, TogetherPart
<1> QED  BY <1>4, <1>5

\* No other call claims a job.
LEMMA CoexistenceStep ==
  ASSUME RuntimeInv, Coexistence, [AnyCall]_runtimeVars
  PROVE  Coexistence'
<1>1. Together(Claimed(jobs)) /\ Claimed(jobs) \in SUBSET Jobs
  BY DEF Coexistence, Together, Claimed
<1>2. SUFFICES Together(Claimed(jobs'))
  BY DEF Coexistence, Together, Claimed
<1>3. ASSUME \A j \in Jobs : jobs'[j].status = "claimed" => jobs[j].status = "claimed"
      PROVE  Together(Claimed(jobs'))
  <2>1. Claimed(jobs') \in SUBSET Claimed(jobs)
    BY <1>3 DEF Claimed
  <2> QED  BY <1>1, <2>1, TogetherPart
<1>4. ASSUME NEW r \in Runs, CancelRun(r) PROVE Together(Claimed(jobs'))
  <2>1. ASSUME NEW j \in Jobs, NEW row, row = [jobs[j] EXCEPT !.status = "cancelled", !.wait = 0]
        PROVE  row.status # "claimed"
    BY <2>1 DEF RuntimeInv, RowsTyped, JobRows
  <2>2. ASSUME NEW j \in Jobs, jobs'[j].status = "claimed" PROVE jobs[j].status = "claimed"
    <3>1. \/ jobs'[j] = jobs[j]
          \/ jobs'[j] = [jobs[j] EXCEPT !.status = "cancelled", !.wait = 0]
      BY <1>4 DEF CancelRun
    <3> QED  BY <2>1, <2>2, <3>1
  <2> QED  BY <1>3, <2>2
<1>5. ASSUME NEW j \in Jobs, EnqueueJob(j) PROVE Together(Claimed(jobs'))
  BY <1>3, <1>5 DEF EnqueueJob, RuntimeInv, RowsTyped, JobRows
<1>6. CASE LeaseCalls
  <2>1. CASE \E w \in Workers : ClaimNext(w)
    BY <1>1, <2>1, ClaimNextTogether
  <2>2. CASE Reconcile
    BY <1>3, <2>2, SweepShape DEF Reconcile, Swept
  <2>3. ASSUME NEW j \in Jobs, NEW a \in Attempts(j), NEW outcome \in SettledJobs,
               NEW cost \in Costs \cup {Estimate[j]}, CompleteJob(j, a, outcome, cost)
        PROVE  Together(Claimed(jobs'))
    <3>1. jobs[j] \in JobRows /\ ExpiredJob(j).status # "claimed"
      BY ExpiredRow DEF RuntimeInv, RowsTyped
    <3>2. CompletedJob(j, outcome).status # "claimed"
      BY <3>1 DEF CompletedJob, JobRows
    <3>3. jobs' = [jobs EXCEPT ![j] = CompletedJob(j, outcome)]
      BY <2>3 DEF CompleteJob
    <3> QED  BY <1>3, <3>2, <3>3 DEF RuntimeInv, RowsTyped
  <2> QED  BY <1>6, <2>1, <2>2, <2>3 DEF LeaseCalls
<1>7. CASE RuntimeTick
  BY <1>3, <1>7 DEF RuntimeTick, RuntimeInv, RowsTyped, JobRows
<1>8. ASSUME NEW r \in Runs, NEW target, NEW key, RegisterRun(r) \/ TransitionRun(r, target, key)
      PROVE  Together(Claimed(jobs'))
  BY <1>1, <1>8 DEF RegisterRun, TransitionRun
<1>9. CASE UNCHANGED runtimeVars
  BY <1>1, <1>9 DEF runtimeVars
<1> QED  BY <1>4, <1>5, <1>6, <1>7, <1>8, <1>9 DEF AnyCall

\* At first no job is claimed.
LEMMA CoexistenceStart ==
  ASSUME RuntimeInit
  PROVE  Coexistence
<1>1. Claimed(jobs) = {}
  BY DEF RuntimeInit, Claimed
<1>2. ASSUME NEW st \in DOMAIN StageLimits
      PROVE  Cardinality({j \in Claimed(jobs) : StageOf[j] = st}) =< StageLimits[st]
  <2>1. {j \in Claimed(jobs) : StageOf[j] = st} = {}
    BY <1>1
  <2>2. Cardinality({}) = 0 /\ StageLimits[st] \in Nat
    BY FS_EmptySet, RuntimeAssumption
  <2> QED  BY <2>1, <2>2
<1> QED  BY <1>1, <1>2 DEF Coexistence

\* Jobs that are claimed at the same time share no conflict key and keep to the limits
\* of their stages, whatever else is completed, expires or is cancelled between two
\* claims, and whoever enqueues them.
THEOREM JobsCoexist == (RuntimeSpec => []Coexistence) /\ (DrivenSpec => []Coexistence)
<1>1. RuntimeSpec => []Coexistence
  <2>1. RuntimeInv /\ Coexistence /\ [RuntimeNext]_runtimeVars => Coexistence'
    BY RuntimeCalls, CoexistenceStep
  <2>2. RuntimeInit => Coexistence
    BY CoexistenceStart
  <2> QED  BY <2>1, <2>2, RuntimeInvariance, PTL DEF RuntimeSpec
<1>2. DrivenSpec => []Coexistence
  <2>1. RuntimeInit /\ CycleInit => RuntimeInv /\ Coexistence
    BY RuntimeStart, CoexistenceStart
  <2>2. RuntimeInv /\ Coexistence /\ [DrivenNext]_DrivenVars => RuntimeInv' /\ Coexistence'
    BY DrivenCalls, RuntimeStep, ShapePreserves, CoexistenceStep
  <2> QED  BY <2>1, <2>2, PTL DEF DrivenSpec
<1> QED  BY <1>1, <1>2

-----------------------------------------------------------------------------
\* The states of the workflow graph.
StatesInGraph == \A r \in Runs : runs[r].state \in WorkflowStates \cup {"absent"}

\* Every edge of the graph leads into it.
LEMMA Edges == ASSUME NEW state PROVE AllowedTransitions(state) \in SUBSET WorkflowStates
<1>1. Forward(state) \in SUBSET WorkflowStates
  BY DEF Forward, WorkflowStates, Pending, DispatchableStates, TerminalStates
<1>2. "cancelled" \in WorkflowStates
  BY DEF WorkflowStates, TerminalStates
<1> QED  BY <1>1, <1>2 DEF AllowedTransitions

\* Only register_run, transition_run and cancel_run write the state of a run.
LEMMA StatesStep ==
  ASSUME InitialState \in WorkflowStates, MoneyInv, MoneyInv', StatesInGraph, [AnyCall]_runtimeVars
  PROVE  StatesInGraph'
<1>1. ASSUME NEW r \in Runs PROVE runs[r] = [state |-> runs[r].state, reserved |-> runs[r].reserved, spent |-> runs[r].spent]
  BY DEF MoneyInv, RunSound, RunRow
<1>2. ASSUME \A r \in Runs : runs'[r].state = runs[r].state PROVE StatesInGraph'
  BY <1>2 DEF StatesInGraph
<1>3. ASSUME NEW r \in Runs, RegisterRun(r) PROVE StatesInGraph'
  BY <1>1, <1>3 DEF RegisterRun, StatesInGraph, MoneyInv
<1>4. ASSUME NEW r \in Runs, CancelRun(r) PROVE StatesInGraph'
  <2>1. "cancelled" \in WorkflowStates
    BY DEF WorkflowStates, TerminalStates
  <2>2. ASSUME NEW i \in Runs PROVE runs'[i].state \in {runs[i].state, "cancelled"}
    <3>1. runs' = [runs EXCEPT ![r].state = "cancelled", ![r].reserved = 0] /\ runs = [k \in Runs |-> runs[k]]
      BY <1>4 DEF CancelRun, MoneyInv
    <3>2. runs'[i] = IF i = r THEN [runs[r] EXCEPT !.state = "cancelled", !.reserved = 0] ELSE runs[i]
      BY <3>1
    <3> QED  BY <1>1, <3>2
  <2> QED  BY <2>1, <2>2 DEF StatesInGraph
<1>5. ASSUME NEW r \in Runs, NEW target, NEW key, TransitionRun(r, target, key) PROVE StatesInGraph'
  <2>1. target \in WorkflowStates
    BY <1>5, Edges DEF TransitionRun, Transitions
  <2> QED  BY <1>1, <1>5, <2>1 DEF TransitionRun, StatesInGraph, MoneyInv
<1>6. ASSUME NEW r \in Runs PROVE ReconciledRuns[r].state = runs[r].state
  <2> DEFINE n == AtLeastZero(runs[r].reserved - Total(Estimate, Expired \cap JobsOf(r)))
  <2>1. ReconciledRuns[r] = [runs[r] EXCEPT !.reserved = n]
    BY DEF ReconciledRuns
  <2> HIDE DEF n
  <2> QED  BY <1>1, <2>1
<1>7. CASE LeaseCalls
  <2>1. ASSUME NEW w \in Workers, ClaimNext(w) PROVE StatesInGraph'
    <3>1. \/ runs' = ReconciledRuns
          \/ \E k \in Jobs : runs' = [ReconciledRuns EXCEPT ![RunOf[k]].reserved = @ + Estimate[k]]
      BY <2>1 DEF ClaimNext, Ranked
    <3>2. CASE runs' = ReconciledRuns
      BY <1>2, <1>6, <3>2
    <3>3. ASSUME NEW k \in Jobs, runs' = [ReconciledRuns EXCEPT ![RunOf[k]].reserved = @ + Estimate[k]]
          PROVE  StatesInGraph'
      <4>1. ASSUME NEW r \in Runs PROVE runs'[r].state = ReconciledRuns[r].state
        <5>1. \E n : ReconciledRuns[r] = [runs[r] EXCEPT !.reserved = n]
          BY DEF ReconciledRuns
        <5>2. PICK n : ReconciledRuns[r] = [state |-> runs[r].state, reserved |-> n, spent |-> runs[r].spent]
          BY <1>1, <5>1
        <5> QED  BY <3>3, <5>2 DEF ReconciledRuns
      <4> QED  BY <1>2, <1>6, <4>1
    <3> QED  BY <3>1, <3>2, <3>3
  <2>2. CASE Reconcile
    BY <1>2, <1>6, <2>2 DEF Reconcile
  <2>3. ASSUME NEW j \in Jobs, NEW a \in Attempts(j), NEW outcome \in SettledJobs,
               NEW cost \in Costs \cup {Estimate[j]}, CompleteJob(j, a, outcome, cost)
        PROVE  StatesInGraph'
    <3>1. runs' = [runs EXCEPT ![RunOf[j]].reserved = AtLeastZero(@ - Estimate[j]), ![RunOf[j]].spent = @ + cost]
      BY <2>3 DEF CompleteJob
    <3>2. ASSUME NEW r \in Runs PROVE runs'[r].state = runs[r].state
      <4> DEFINE k == RunOf[j]
                 m == AtLeastZero(runs[k].reserved - Estimate[j])
                 n == runs[k].spent + cost
      <4>1. k \in Runs /\ runs[k] = [state |-> runs[k].state, reserved |-> runs[k].reserved, spent |-> runs[k].spent]
        BY <1>1, RuntimeAssumption
      <4>2. runs' = [runs EXCEPT ![k] = [state |-> runs[k].state, reserved |-> m, spent |-> n]]
        BY <3>1, <4>1 DEF MoneyInv
      <4> HIDE DEF k, m, n
      <4> QED  BY <4>1, <4>2 DEF MoneyInv
    <3> QED  BY <1>2, <3>2
  <2> QED  BY <1>7, <2>1, <2>2, <2>3 DEF LeaseCalls
<1>8. CASE UNCHANGED runs
  BY <1>2, <1>8
<1> QED  BY <1>3, <1>4, <1>5, <1>7, <1>8 DEF AnyCall, runtimeVars, EnqueueJob, RuntimeTick

\* The rows of the tables have their types, as long as runs are registered in a state
\* of the graph (an enumeration of the code).
THEOREM RuntimeTyped ==
  ASSUME InitialState \in WorkflowStates
  PROVE  RuntimeSpec => []RuntimeTypeOK
<1>1. RuntimeInit => RuntimeInv /\ MoneyInv /\ StatesInGraph
  BY RuntimeStart, MoneyStart DEF RuntimeInit, StatesInGraph
<1>2. RuntimeInv /\ MoneyInv /\ StatesInGraph /\ [RuntimeNext]_runtimeVars => (RuntimeInv /\ MoneyInv /\ StatesInGraph)'
  BY RuntimeCalls, RuntimeStep, ShapePreserves, MoneyStep, StatesStep
<1>3. RuntimeInv /\ MoneyInv /\ StatesInGraph => RuntimeTypeOK
  <2> SUFFICES ASSUME RuntimeInv, MoneyInv, StatesInGraph PROVE RuntimeTypeOK
    OBVIOUS
  <2>1. ASSUME NEW r \in Runs
        PROVE  /\ runs[r].state \in WorkflowStates \cup {"absent"}
               /\ runs[r].reserved \in Nat /\ runs[r].spent \in Nat
    BY DEF StatesInGraph, MoneyInv, RunSound, RunRow
  <2>2. ASSUME NEW j \in Jobs
        PROVE  /\ jobs[j].status \in JobStatuses /\ jobs[j].attempt \in 0 .. MaxAttempts[j]
               /\ jobs[j].wait \in 0 .. RetryDelay /\ leases[j] \in [Attempts(j) -> LeaseRows]
    <3>1. jobs[j] \in JobRows /\ JobSound(j) /\ leases[j] \in [Attempts(j) -> LeaseRows] /\ MaxAttempts[j] \in Nat
      BY RuntimeAssumption DEF RuntimeInv, RowsTyped
    <3> QED  BY <3>1 DEF JobRows, JobSound
  <2> QED  BY <2>1, <2>2 DEF RuntimeTypeOK
<1> QED  BY <1>1, <1>2, <1>3, PTL DEF RuntimeSpec
=============================================================================
