------------------------- MODULE ControlStoreProofs -------------------------
(***************************************************************************)
(* Proofs about ControlStore, for every set of runs, stages, workers,      *)
(* hosts, leases and reservations and every value of the timing constants; *)
(* the last part shows that the store implements StageLease.               *)
(***************************************************************************)
EXTENDS StoreRefinement, FiniteSetTheorems, TLAPS

-----------------------------------------------------------------------------
\* The rows that operations write are rows.

\* There is at least one job key.
LEMMA KeysExist == \E k \in Keys : TRUE
  <1>1. PICK r \in Runs : TRUE
    BY StoreAssumption
  <1>2. [run |-> r, stage |-> "grill", iteration |-> 0] \in Keys
    BY <1>1, SuccessorsAssumption DEF Keys
  <1> QED BY <1>2

\* Every time an operation writes, and its countdown, is a timer.
LEMMA TimerFacts ==
  /\ Floor \in Timers /\ Floor \in Int
  /\ \A lag \in Lags : /\ LeaseDuration - lag \in Timers
                       /\ RetryDelay - lag \in Timers
                       /\ lag \in 0 .. MaxAge + 1
  /\ \A t \in Timers : CountDown(t) \in Timers
  BY StoreAssumption DEF Floor, Timers, Lags, CountDown

\* The unused rows of Init are rows.
LEMMA EmptyRows ==
  /\ NoJob \in JobRows
  /\ NoClaim \in ClaimRows
  /\ NoReservationRow \in ReservationRows
  <1>1. NoJob \in JobRows
    BY TimerFacts, StoreAssumption DEF NoJob, JobRows, JobStatuses
  <1>2. NoClaim \in ClaimRows
    <2>1. (CHOOSE k \in Keys : TRUE) \in Keys
      BY KeysExist
    <2> QED BY <2>1, TimerFacts, StoreAssumption DEF NoClaim, ClaimRows
  <1>3. NoReservationRow \in ReservationRows
    <2>1. (CHOOSE r \in Runs : TRUE) \in Runs /\ (CHOOSE h \in Hosts : TRUE) \in Hosts
      BY StoreAssumption
    <2> QED BY <2>1, TimerFacts DEF NoReservationRow, ReservationRows, ReservationStatuses
  <1> QED BY <1>1, <1>2, <1>3

\* The row accept and materialize_result insert is a row.
LEMMA NewJobRow ==
  ASSUME NEW status \in JobStatuses, NEW gate \in Timers, NEW lag \in Lags
  PROVE  NewJob(status, gate, lag) \in JobRows
  BY EmptyRows, TimerFacts DEF NewJob, JobRows, NoJob

\* The columns of a job row.
LEMMA JobRowParts ==
  ASSUME NEW row \in JobRows
  PROVE  /\ row.status \in JobStatuses /\ row.token \in Nat /\ row.token + 1 \in Nat
         /\ row.lease \in Leases \cup {NoLease} /\ row.retries \in 0 .. MaxRetries
         /\ row.gate \in Timers /\ row.age \in 0 .. MaxAge + 1
         /\ row.retries < MaxRetries => row.retries + 1 \in 0 .. MaxRetries
  <1>1. row.token \in Nat /\ row.retries \in 0 .. MaxRetries
    BY DEF JobRows
  <1>2. row.token + 1 \in Nat /\ (row.retries < MaxRetries => row.retries + 1 \in 0 .. MaxRetries)
    BY <1>1, StoreAssumption
  <1> QED BY <1>1, <1>2 DEF JobRows

\* A job row whose status, token, lease, retries and age are overwritten.
Updated(row, s, t, l, n, lag) ==
  [row EXCEPT !.status = s, !.token = t, !.lease = l, !.retries = n, !.age = lag]

\* Such a row is a row and holds what was written.
LEMMA UpdatedJobRow ==
  ASSUME NEW row \in JobRows, NEW s \in JobStatuses, NEW t \in Nat,
         NEW l \in Leases \cup {NoLease}, NEW n \in 0 .. MaxRetries, NEW lag \in Lags
  PROVE  /\ Updated(row, s, t, l, n, lag) \in JobRows
         /\ Updated(row, s, t, l, n, lag).status = s
         /\ Updated(row, s, t, l, n, lag).token = t
         /\ Updated(row, s, t, l, n, lag).lease = l
  BY TimerFacts DEF JobRows, Updated

\* A status that neither runs nor is missing: what a job is left with whenever an
\* operation other than claim writes it.
Resting == JobStatuses \ {"running", "absent"}

\* What finish leaves in the row of the job: its token, no lease, a resting status.
LEMMA FinishedJobRow ==
  ASSUME NEW row \in JobRows, NEW outcome \in Outcomes, NEW lag \in Lags
  PROVE  /\ FinishedJob(row, outcome, lag) \in JobRows
         /\ FinishedJob(row, outcome, lag).token = row.token
         /\ FinishedJob(row, outcome, lag).lease = NoLease
         /\ FinishedJob(row, outcome, lag).status \in Resting
  <1> DEFINE new == FinishedJob(row, outcome, lag)
  <1>1. PICK s \in Resting, n \in 0 .. MaxRetries :
          new = Updated(row, s, row.token, NoLease, n, lag)
    <2>1. CASE outcome = "success"
      <3>1. new = Updated(row, "succeeded", row.token, NoLease, row.retries, lag)
        BY <2>1 DEF FinishedJob, JobRows, Updated
      <3> QED BY <3>1, JobRowParts DEF Resting, JobStatuses, SettledJobStatuses
    <2>2. CASE outcome = "retry" /\ row.retries < MaxRetries
      <3>1. new = Updated(row, "pending", row.token, NoLease, row.retries + 1, lag)
        BY <2>2 DEF FinishedJob, JobRows, Updated
      <3> QED BY <2>2, <3>1, JobRowParts DEF Resting, JobStatuses, RUN_OPEN_JOB_STATUSES
    <2>3. CASE outcome = "retry" /\ ~ (row.retries < MaxRetries)
      <3>1. new = Updated(row, "failed", row.token, NoLease, row.retries, lag)
        BY <2>3 DEF FinishedJob, JobRows, Updated
      <3> QED BY <3>1, JobRowParts DEF Resting, JobStatuses, SettledJobStatuses
    <2>4. CASE outcome \notin {"success", "retry"}
      <3>1. new = Updated(row, outcome, row.token, NoLease, row.retries, lag)
        BY <2>4 DEF FinishedJob, JobRows, Updated
      <3>2. outcome \in Resting
        BY <2>4 DEF Outcomes, Resting, JobStatuses, RUN_OPEN_JOB_STATUSES, SettledJobStatuses
      <3> QED BY <3>1, <3>2, JobRowParts
    <2> QED BY <2>1, <2>2, <2>3, <2>4
  <1> HIDE DEF new
  <1>2. row.token \in Nat /\ NoLease \in Leases \cup {NoLease} /\ s \in JobStatuses
    BY JobRowParts DEF Resting
  <1>3. new \in JobRows /\ new.token = row.token /\ new.lease = NoLease /\ new.status = s
    BY <1>1, <1>2, UpdatedJobRow
  <1> QED BY <1>1, <1>3 DEF new

\* What the lease sweep leaves in the row of the job: a larger token and no lease.
LEMMA ReconciledJobRow ==
  ASSUME NEW row \in JobRows, NEW lag \in Lags
  PROVE  /\ ReconciledJob(row, lag) \in JobRows
         /\ ReconciledJob(row, lag).token = row.token + 1
         /\ ReconciledJob(row, lag).lease = NoLease
         /\ ReconciledJob(row, lag).status \in Resting
  <1> DEFINE new == ReconciledJob(row, lag)
  <1>1. PICK t \in Nat : t = row.token + 1
    BY JobRowParts
  <1>2. PICK s \in Resting, n \in 0 .. MaxRetries : new = Updated(row, s, t, NoLease, n, lag)
    <2>1. CASE row.retries < MaxRetries
      <3>1. new = Updated(row, "pending", row.token + 1, NoLease, row.retries + 1, lag)
        BY <2>1 DEF ReconciledJob, JobRows, Updated
      <3> QED BY <1>1, <2>1, <3>1, JobRowParts DEF Resting, JobStatuses, RUN_OPEN_JOB_STATUSES
    <2>2. CASE ~ (row.retries < MaxRetries)
      <3>1. new = Updated(row, "failed", row.token + 1, NoLease, row.retries, lag)
        BY <2>2 DEF ReconciledJob, JobRows, Updated
      <3> QED BY <1>1, <3>1, JobRowParts DEF Resting, JobStatuses, SettledJobStatuses
    <2> QED BY <2>1, <2>2
  <1> HIDE DEF new
  <1>3. NoLease \in Leases \cup {NoLease} /\ s \in JobStatuses
    BY DEF Resting
  <1>4. new \in JobRows /\ new.token = t /\ new.lease = NoLease /\ new.status = s
    BY <1>2, <1>3, UpdatedJobRow
  <1> QED BY <1>1, <1>2, <1>4 DEF new

\* What a fleet sweep leaves in the row of a running job.
LEMMA RequeuedJobRow ==
  ASSUME NEW row \in JobRows, NEW lag \in Lags
  PROVE  /\ RequeuedJob(row, lag) \in JobRows
         /\ RequeuedJob(row, lag).token = row.token + 1
         /\ RequeuedJob(row, lag).lease = NoLease
         /\ RequeuedJob(row, lag).status = "pending"
  <1>1. PICK t \in Nat : t = row.token + 1
    BY JobRowParts
  <1>2. RequeuedJob(row, lag) = Updated(row, "pending", row.token + 1, NoLease, row.retries, lag)
    BY DEF RequeuedJob, JobRows, Updated
  <1>3. /\ NoLease \in Leases \cup {NoLease} /\ "pending" \in JobStatuses
        /\ row.retries \in 0 .. MaxRetries
    BY JobRowParts DEF JobStatuses, RUN_OPEN_JOB_STATUSES
  <1>4. RequeuedJob(row, lag) = Updated(row, "pending", t, NoLease, row.retries, lag)
    BY <1>1, <1>2
  <1> QED BY <1>1, <1>3, <1>4, UpdatedJobRow

\* Closing a claim or a reservation changes its status alone.
LEMMA ClosedRows ==
  /\ \A row \in ClaimRows, s \in {"released", "expired"} :
       /\ Closed(row, s) \in ClaimRows
       /\ Closed(row, s).status = s
       /\ Closed(row, s).key = row.key /\ Closed(row, s).token = row.token
  /\ \A row \in ReservationRows, s \in ReservationStatuses :
       /\ Closed(row, s) \in ReservationRows
       /\ Closed(row, s).status = s
       /\ Closed(row, s).run = row.run /\ Closed(row, s).host = row.host
  BY TimerFacts DEF Closed, ClaimRows, ReservationRows

-----------------------------------------------------------------------------
\* The inductive invariant.

\* No row before its run: a job exists only under an accepted run, and has no
\* token until it exists.  Without it accept and materialize_result, which insert
\* rows with token 0, could reset the token of a claimed job.
Unborn ==
  \A k \in Keys :
    /\ jobs[k].status = "absent" => jobs[k].token = 0
    /\ runs[k.run] = "absent" => jobs[k].status = "absent"

IInv == TypeOK /\ LeaseIntegrity /\ RunningIsLeased /\ TokensFence /\ Unborn

\* Every operation but claim does one of two things to a job, as far as leases
\* are concerned: it keeps it, or it puts it to rest, with the next token or its own.
Kept(k) ==
  /\ jobs'[k].status = jobs[k].status
  /\ jobs'[k].lease = jobs[k].lease
  /\ jobs'[k].token = jobs[k].token

Rested(k) ==
  /\ jobs'[k].status \in Resting
  /\ jobs'[k].lease = NoLease
  /\ jobs'[k].token \in {jobs[k].token, jobs[k].token + 1}
  /\ jobs[k].status \in SettledJobStatuses => jobs'[k].status = jobs[k].status
  /\ runs'[k.run] # "absent"

\* ... and it closes an active claim exactly when it puts its job to rest.
ClaimStays(l) ==
  /\ claims'[l].status = claims[l].status
  /\ claims[l].status = "active" => Kept(claims[l].key)

ClaimCloses(l) ==
  /\ claims[l].status = "active"
  /\ claims'[l].status \in {"released", "expired"}
  /\ Rested(claims[l].key)

Loosens ==
  /\ \A k \in Keys : Kept(k) \/ Rested(k)
  /\ \A l \in Leases : /\ ClaimStays(l) \/ ClaimCloses(l)
                       /\ claims'[l].key = claims[l].key
                       /\ claims'[l].token = claims[l].token
  /\ \A r \in Runs : runs[r] # "absent" => runs'[r] # "absent"

\* A step that only keeps and rests jobs preserves the invariant.
LEMMA LoosensPreserves ==
  ASSUME IInv, TypeOK', Loosens, \A k \in Keys : ops'[k] =< jobs'[k].token
  PROVE  IInv'
  <1>t. TypeOK /\ TypeOK'
    BY DEF IInv
  <1>k. \A l \in Leases : claims[l].key \in Keys /\ claims[l].token \in Nat
    BY <1>t DEF TypeOK, ClaimRows
  <1>j. \A k \in Keys : jobs[k].token \in Nat /\ jobs'[k].token \in Nat /\ k.run \in Runs
    BY <1>t DEF TypeOK, JobRows, Keys
  <1>1. LeaseIntegrity'
    <2> SUFFICES ASSUME NEW l \in Leases, claims'[l].status = "active"
                 PROVE  /\ jobs'[claims'[l].key].status = "running"
                        /\ jobs'[claims'[l].key].lease = l
                        /\ jobs'[claims'[l].key].token = claims'[l].token
      BY DEF LeaseIntegrity
    <2>1. claims[l].status = "active" /\ Kept(claims[l].key)
      BY DEF Loosens, ClaimStays, ClaimCloses
    <2> QED BY <2>1 DEF Loosens, Kept, IInv, LeaseIntegrity
  <1>2. RunningIsLeased'
    <2> SUFFICES ASSUME NEW k \in Keys
                 PROVE  IF jobs'[k].status = "running"
                        THEN /\ jobs'[k].lease \in Leases
                             /\ claims'[jobs'[k].lease].status = "active"
                             /\ claims'[jobs'[k].lease].key = k
                        ELSE jobs'[k].lease = NoLease
      BY DEF RunningIsLeased
    <2>1. CASE Rested(k)
      BY <2>1 DEF Rested, Resting
    <2>2. CASE Kept(k) /\ ~ Rested(k)
      <3>1. CASE jobs[k].status = "running"
        <4>1. /\ jobs[k].lease \in Leases /\ claims[jobs[k].lease].status = "active"
              /\ claims[jobs[k].lease].key = k
          BY <3>1 DEF IInv, RunningIsLeased
        <4>2. ~ ClaimCloses(jobs[k].lease)
          BY <4>1, <2>2 DEF ClaimCloses
        <4> QED BY <3>1, <4>1, <4>2, <2>2 DEF Loosens, ClaimStays, Kept
      <3>2. CASE jobs[k].status # "running"
        BY <3>2, <2>2 DEF Kept, IInv, RunningIsLeased
      <3> QED BY <3>1, <3>2
    <2> QED BY <2>1, <2>2 DEF Loosens
  <1>3. \A k \in Keys : jobs'[k].token >= jobs[k].token
    BY <1>j DEF Loosens, Kept, Rested
  <1>4. TokensFence'
    <2>1. \A l \in Leases : /\ (claims'[l].status # "absent") = (claims[l].status # "absent")
                            /\ claims'[l].key = claims[l].key
                            /\ claims'[l].token = claims[l].token
      BY DEF Loosens, ClaimStays, ClaimCloses
    <2>2. ASSUME NEW l \in Leases, claims'[l].status # "absent"
          PROVE  claims'[l].token =< jobs'[claims'[l].key].token
      <3>1. claims[l].token =< jobs[claims[l].key].token
        BY <2>1, <2>2 DEF IInv, TokensFence
      <3>2. /\ jobs'[claims[l].key].token >= jobs[claims[l].key].token
            /\ jobs[claims[l].key].token \in Nat /\ jobs'[claims[l].key].token \in Nat
            /\ claims[l].token \in Nat
        BY <1>3, <1>k, <1>j
      <3>3. claims[l].token =< jobs'[claims[l].key].token
        BY <3>1, <3>2
      <3> QED BY <3>3, <2>1
    <2>3. ASSUME NEW l \in Leases, claims'[l].status # "absent",
                 NEW m \in Leases \ {l}, claims'[m].status # "absent",
                 claims'[m].key = claims'[l].key
          PROVE  claims'[m].token # claims'[l].token
      BY <2>1, <2>3 DEF IInv, TokensFence
    <2> QED BY <2>2, <2>3 DEF TokensFence
  <1>5. Unborn'
    <2> SUFFICES ASSUME NEW k \in Keys
                 PROVE  /\ jobs'[k].status = "absent" => jobs'[k].token = 0
                        /\ runs'[k.run] = "absent" => jobs'[k].status = "absent"
      BY DEF Unborn
    <2> QED BY <1>j DEF Loosens, Kept, Rested, Resting, IInv, Unborn
  <1> QED BY <1>t, <1>1, <1>2, <1>4, <1>5 DEF IInv

\* The columns of the rows of a typed state.
LEMMA RowParts ==
  ASSUME IInv
  PROVE  /\ \A k \in Keys : jobs[k] \in JobRows /\ k.run \in Runs
         /\ \A k \in Keys : jobs[k].token \in Nat /\ ops[k] \in Nat
         /\ \A l \in Leases : /\ claims[l] \in ClaimRows /\ claims[l].key \in Keys
                              /\ claims[l].token \in Nat
         /\ \A x \in Reservations : /\ reservations[x] \in ReservationRows
                                    /\ reservations[x].run \in Runs
  BY DEF IInv, TypeOK, JobRows, ClaimRows, ReservationRows, Keys

\* An existing job belongs to an accepted run.
LEMMA BornRun ==
  ASSUME IInv, NEW k \in Keys, jobs[k].status # "absent"
  PROVE  runs[k.run] # "absent"
  BY DEF IInv, Unborn

\* An active claim is the lease of a running job.
LEMMA ActiveClaim ==
  ASSUME IInv, NEW l \in Leases, claims[l].status = "active"
  PROVE  /\ claims[l].key \in Keys
         /\ jobs[claims[l].key].status = "running"
         /\ jobs[claims[l].key].lease = l
         /\ jobs[claims[l].key].token = claims[l].token
         /\ runs[claims[l].key.run] # "absent"
  BY RowParts, BornRun DEF IInv, LeaseIntegrity

\* What record_operation does: the operation of a running job gets the job's token.
Records(k) == /\ jobs[k].status = "running"
              /\ ops' = [ops EXCEPT ![k] = jobs[k].token]
              /\ jobs' = jobs /\ claims' = claims

\* What every operation but claim preserves and promises.
Quiet ==
  /\ TypeOK'
  /\ Loosens
  /\ \A k \in Keys : ops[k] =< ops'[k] /\ ops'[k] =< jobs'[k].token
  /\ ops' = ops \/ \E k \in Keys : Records(k)

\* Hence a quiet operation preserves the invariant.
LEMMA QuietPreserves == ASSUME IInv, Quiet PROVE IInv'
  BY LoosensPreserves DEF Quiet

\* An operation that loosens and records no external operation is quiet.
LEMMA QuietOps ==
  ASSUME IInv, TypeOK', Loosens, ops' = ops
  PROVE  Quiet
  <1>1. ASSUME NEW k \in Keys
        PROVE  ops[k] =< ops'[k] /\ ops'[k] =< jobs'[k].token
    <2>1. ops[k] \in Nat /\ jobs[k].token \in Nat /\ jobs'[k].token \in Nat
      BY RowParts DEF TypeOK, JobRows
    <2>2. jobs'[k].token >= jobs[k].token
      BY <2>1 DEF Loosens, Kept, Rested
    <2>3. ops[k] =< jobs[k].token
      BY DEF IInv, TokensFence
    <2> QED BY <2>1, <2>2, <2>3
  <1> QED BY <1>1 DEF Quiet

-----------------------------------------------------------------------------
\* One lemma per operation: intake and leases.

\* accept inserts the first job of a run that has none.
LEMMA AcceptQuiet ==
  ASSUME IInv, NEW r \in Runs, NEW lag \in Lags, Accept(r, lag)
  PROVE  Quiet
  <1> DEFINE key == [run |-> r, stage |-> "grill", iteration |-> 0]
             row == NewJob("pending", Floor, lag)
  <1>1. key \in Keys
    BY SuccessorsAssumption DEF Keys
  <1>2. /\ row \in JobRows /\ row.status = "pending" /\ row.lease = NoLease /\ row.token = 0
    <2>1. "pending" \in JobStatuses
      BY DEF JobStatuses, RUN_OPEN_JOB_STATUSES
    <2> QED BY <2>1, TimerFacts, NewJobRow DEF NewJob, NoJob
  <1> HIDE DEF row
  <1>3. /\ runs[r] = "absent" /\ runs' = [runs EXCEPT ![r] = "active"]
        /\ jobs' = [jobs EXCEPT ![key] = row]
        /\ claims' = claims /\ reservations' = reservations /\ ops' = ops
    BY DEF Accept, row
  <1>4. key.run = r
    OBVIOUS
  <1> HIDE DEF key
  <1>5. TypeOK'
    BY <1>1, <1>2, <1>3 DEF IInv, TypeOK, RunStatuses
  <1>6. jobs[key].status = "absent" /\ jobs[key].token = 0
    BY <1>1, <1>3, <1>4 DEF IInv, Unborn
  <1>7. Loosens
    <2>1. Rested(key)
      <3>1. jobs'[key] = row /\ runs'[r] = "active"
        BY <1>1, <1>3 DEF IInv, TypeOK
      <3>2. "pending" \in Resting
        BY DEF Resting, JobStatuses, RUN_OPEN_JOB_STATUSES
      <3>3. row.token >= jobs[key].token
        BY <1>2, <1>6
      <3> QED BY <3>1, <3>2, <3>3, <1>2, <1>4, <1>6 DEF Rested, SettledJobStatuses
    <2>2. \A k \in Keys \ {key} : Kept(k)
      BY <1>3 DEF IInv, TypeOK, Kept
    <2>3. \A l \in Leases : ClaimStays(l)
      <3> SUFFICES ASSUME NEW l \in Leases, claims[l].status = "active"
                   PROVE  Kept(claims[l].key)
        BY <1>3 DEF ClaimStays
      <3> QED BY <1>6, <2>2, ActiveClaim
    <2> QED BY <1>3, <2>1, <2>2, <2>3 DEF Loosens, IInv, TypeOK
  <1> QED BY <1>3, <1>5, <1>7, QuietOps

\* accept, documentary mode, touches no job.
LEMMA AcceptDocumentaryQuiet ==
  ASSUME IInv, NEW r \in Runs, AcceptDocumentary(r)
  PROVE  Quiet
  <1>1. TypeOK'
    BY DEF AcceptDocumentary, IInv, TypeOK, RunStatuses
  <1>2. Loosens
    BY DEF AcceptDocumentary, IInv, TypeOK, Loosens, Kept, ClaimStays
  <1> QED BY <1>1, <1>2, QuietOps DEF AcceptDocumentary

\* heartbeat moves expiries only.
LEMMA HeartbeatQuiet ==
  ASSUME IInv, NEW l \in Leases, NEW lag \in Lags, Heartbeat(l, lag)
  PROVE  Quiet
  <1> DEFINE key == claims[l].key
  <1>1. key \in Keys /\ jobs[key] \in JobRows /\ claims[l] \in ClaimRows
    BY RowParts
  <1>2. PICK t \in Timers : t = LeaseDuration - lag
    BY TimerFacts
  <1>3. /\ [jobs[key] EXCEPT !.age = lag] \in JobRows
        /\ [claims[l] EXCEPT !.ttl = t] \in ClaimRows
    BY <1>1, TimerFacts DEF JobRows, ClaimRows
  <1>4. /\ claims' = [claims EXCEPT ![l] = [claims[l] EXCEPT !.ttl = t]]
        /\ jobs' = [jobs EXCEPT ![key] = [jobs[key] EXCEPT !.age = lag]]
        /\ runs' = runs /\ reservations' = reservations /\ ops' = ops
    BY <1>2 DEF Heartbeat
  <1>5. TypeOK'
    BY <1>1, <1>3, <1>4 DEF IInv, TypeOK
  <1>6. \A k \in Keys : Kept(k)
    BY <1>1, <1>4 DEF IInv, TypeOK, JobRows, Kept
  <1>7. \A m \in Leases : /\ claims'[m].status = claims[m].status
                          /\ claims'[m].key = claims[m].key
                          /\ claims'[m].token = claims[m].token
    BY <1>1, <1>4 DEF IInv, TypeOK, ClaimRows
  <1>8. Loosens
    BY <1>4, <1>6, <1>7, RowParts DEF Loosens, ClaimStays
  <1> QED BY <1>4, <1>5, <1>8, QuietOps

\* record_operation writes the token of the current lease.
LEMMA RecordOperationQuiet ==
  ASSUME IInv, NEW l \in Leases, NEW lag \in Lags, RecordOperation(l, lag)
  PROVE  Quiet
  <1> DEFINE key == claims[l].key
  <1>1. key \in Keys /\ claims[l].token \in Nat /\ claims[l].token = jobs[key].token
    BY RowParts, ActiveClaim DEF RecordOperation, Holds
  <1>2. /\ ops' = [ops EXCEPT ![key] = claims[l].token]
        /\ runs' = runs /\ jobs' = jobs /\ claims' = claims /\ reservations' = reservations
    BY DEF RecordOperation
  <1>3. TypeOK'
    BY <1>1, <1>2 DEF IInv, TypeOK
  <1>4. Loosens
    BY <1>2 DEF Loosens, Kept, ClaimStays
  <1>5. ASSUME NEW k \in Keys
        PROVE  ops[k] =< ops'[k] /\ ops'[k] =< jobs'[k].token
    <2>1. ops[k] \in Nat /\ jobs[k].token \in Nat /\ ops[k] =< jobs[k].token
      BY RowParts DEF IInv, TokensFence
    <2>2. ops'[k] = IF k = key THEN jobs[k].token ELSE ops[k]
      BY <1>1, <1>2 DEF IInv, TypeOK
    <2> QED BY <1>2, <2>1, <2>2
  <1>6. Records(key)
    BY <1>1, <1>2, ActiveClaim DEF Records, RecordOperation, Holds
  <1> QED BY <1>1, <1>3, <1>4, <1>5, <1>6 DEF Quiet

\* finish closes the current lease and rests its job.
LEMMA FinishQuiet ==
  ASSUME IInv, NEW l \in Leases, NEW outcome \in Outcomes, NEW lag \in Lags,
         Finish(l, outcome, lag)
  PROVE  Quiet
  <1> DEFINE key == claims[l].key
             row == FinishedJob(jobs[key], outcome, lag)
             shut == Closed(claims[l], "released")
  <1>1. /\ key \in Keys /\ jobs[key] \in JobRows /\ claims[l] \in ClaimRows
        /\ jobs[key].token \in Nat
    BY RowParts
  <1>2. claims[l].status = "active"
    BY DEF Finish, CanFinish, Holds
  <1>3. /\ row \in JobRows /\ row.token = jobs[key].token
        /\ row.lease = NoLease /\ row.status \in Resting
    BY <1>1, FinishedJobRow
  <1>4. /\ shut \in ClaimRows /\ shut.status = "released"
        /\ shut.key = key /\ shut.token = claims[l].token
    BY <1>1, ClosedRows
  <1>5. /\ jobs' = [jobs EXCEPT ![key] = row]
        /\ claims' = [claims EXCEPT ![l] = shut]
        /\ reservations' = reservations /\ ops' = ops
        /\ runs' = runs \/ runs' = [runs EXCEPT ![key.run] = "completed"]
    BY DEF Finish
  <1> HIDE DEF row, shut
  <1>6. TypeOK'
    BY <1>1, <1>3, <1>4, <1>5 DEF IInv, TypeOK, RunStatuses
  <1>7. \A r \in Runs : runs[r] # "absent" => runs'[r] # "absent"
    BY <1>5 DEF IInv, TypeOK
  <1>8. Rested(key)
    <2>1. jobs[key].status = "running" /\ runs[key.run] # "absent" /\ key.run \in Runs
      BY <1>1, <1>2, ActiveClaim, RowParts
    <2>2. jobs'[key] = row
      BY <1>1, <1>5 DEF IInv, TypeOK
    <2>3. row.token >= jobs[key].token
      BY <1>1, <1>3
    <2> QED BY <1>3, <1>7, <2>1, <2>2, <2>3 DEF Rested, SettledJobStatuses
  <1>9. \A k \in Keys \ {key} : Kept(k)
    BY <1>5 DEF IInv, TypeOK, Kept
  <1>10. Loosens
    <2>1. claims'[l] = shut
      BY <1>5 DEF IInv, TypeOK
    <2>2. ClaimCloses(l)
      BY <1>2, <1>4, <1>8, <2>1 DEF ClaimCloses
    <2>3. ASSUME NEW m \in Leases \ {l}
          PROVE  claims'[m] = claims[m] /\ ClaimStays(m)
      <3>1. claims'[m] = claims[m]
        BY <1>5 DEF IInv, TypeOK
      <3>2. claims[m].status = "active" => claims[m].key # key
        BY <1>2, ActiveClaim
      <3> QED BY <3>1, <3>2, <1>9, RowParts DEF ClaimStays
    <2> QED BY <1>4, <1>7, <1>8, <1>9, <2>1, <2>2, <2>3 DEF Loosens
  <1> QED BY <1>5, <1>6, <1>10, QuietOps

\* reconcile expires claims and rests exactly their jobs.
LEMMA ReconcileQuiet ==
  ASSUME IInv, NEW lag \in Lags, Reconcile(lag)
  PROVE  Quiet
  <1> DEFINE Hit(k) == \E l \in ExpiredClaims(lag) : /\ claims[l].key = k
                                                     /\ claims[l].token = jobs[k].token
  <1>1. /\ claims' = [l \in Leases |-> IF l \in ExpiredClaims(lag)
                                       THEN Closed(claims[l], "expired") ELSE claims[l]]
        /\ jobs' = [k \in Keys |-> IF Hit(k) THEN ReconciledJob(jobs[k], lag) ELSE jobs[k]]
        /\ runs' = runs /\ reservations' = reservations /\ ops' = ops
    BY DEF Reconcile
  <1>2. \A l \in ExpiredClaims(lag) : l \in Leases /\ claims[l].status = "active"
    BY DEF ExpiredClaims
  <1>3. \A k \in Keys : Hit(k) => jobs[k].status = "running" /\ runs[k.run] # "absent"
    BY <1>2, ActiveClaim
  <1>4. \A l \in Leases : claims[l].status = "active" =>
                            (Hit(claims[l].key) <=> l \in ExpiredClaims(lag))
    BY <1>2, ActiveClaim
  <1> HIDE DEF Hit
  <1>5. ASSUME NEW k \in Keys
        PROVE  jobs'[k] \in JobRows /\ (IF Hit(k) THEN Rested(k) ELSE Kept(k))
    <2>1. CASE Hit(k)
      <3>1. jobs'[k] = ReconciledJob(jobs[k], lag) /\ jobs[k] \in JobRows
        BY <1>1, <2>1, RowParts
      <3>2. /\ jobs'[k] \in JobRows /\ jobs'[k].token = jobs[k].token + 1
            /\ jobs'[k].lease = NoLease /\ jobs'[k].status \in Resting
        BY <3>1, ReconciledJobRow
      <3>3. jobs'[k].token >= jobs[k].token
        BY <3>2, RowParts
      <3> QED BY <1>1, <1>3, <2>1, <3>2, <3>3 DEF Rested, SettledJobStatuses
    <2>2. CASE ~ Hit(k)
      BY <1>1, <2>2, RowParts DEF Kept
    <2> QED BY <2>1, <2>2
  <1>6. ASSUME NEW l \in Leases
        PROVE  /\ claims'[l] \in ClaimRows
               /\ claims'[l].key = claims[l].key /\ claims'[l].token = claims[l].token
               /\ ClaimStays(l) \/ ClaimCloses(l)
    <2>1. claims[l] \in ClaimRows /\ claims[l].key \in Keys
      BY RowParts
    <2>2. CASE l \in ExpiredClaims(lag)
      <3>1. claims'[l] = Closed(claims[l], "expired")
        BY <1>1, <2>2
      <3>2. /\ claims'[l] \in ClaimRows /\ claims'[l].status = "expired"
            /\ claims'[l].key = claims[l].key /\ claims'[l].token = claims[l].token
        BY <2>1, <3>1, ClosedRows
      <3>3. Rested(claims[l].key)
        BY <1>2, <1>4, <1>5, <2>1, <2>2
      <3> QED BY <1>2, <2>2, <3>2, <3>3 DEF ClaimCloses
    <2>3. CASE l \notin ExpiredClaims(lag)
      <3>1. claims'[l] = claims[l]
        BY <1>1, <2>3
      <3>2. claims[l].status = "active" => Kept(claims[l].key)
        BY <1>4, <1>5, <2>1, <2>3
      <3> QED BY <2>1, <3>1, <3>2 DEF ClaimStays
    <2> QED BY <2>2, <2>3
  <1>7. TypeOK'
    <2>1. jobs' \in [Keys -> JobRows] /\ claims' \in [Leases -> ClaimRows]
      BY <1>1, <1>5, <1>6
    <2> QED BY <1>1, <2>1 DEF IInv, TypeOK
  <1>8. Loosens
    BY <1>1, <1>5, <1>6 DEF Loosens
  <1> QED BY <1>1, <1>7, <1>8, QuietOps

-----------------------------------------------------------------------------
\* Successors, parking and cancellation.

\* The status materialize_result records is never one of a running job.
LEMMA DbStatusRests ==
  ASSUME NEW k, NEW result \in Results, NEW top, NEW overBudget
  PROVE  DbStatus(k, result, top, overBudget) \in Resting
  <1>1. result.outcome \in Outcomes
    BY DEF Results, Outcomes
  <1>2. \A o \in Outcomes \ {"success"} : o \in Resting
    BY DEF Outcomes, Resting, JobStatuses, RUN_OPEN_JOB_STATUSES, SettledJobStatuses
  <1>3. {"succeeded", "failed"} \subseteq Resting
    BY DEF Resting, JobStatuses, RUN_OPEN_JOB_STATUSES, SettledJobStatuses
  <1>4. \/ DbStatus(k, result, top, overBudget) = "succeeded"
        \/ DbStatus(k, result, top, overBudget) = "failed"
        \/ /\ result.outcome # "success"
           /\ DbStatus(k, result, top, overBudget) = result.outcome
    BY DEF DbStatus
  <1> QED BY <1>1, <1>2, <1>3, <1>4

\* resume_job requeues a parked job, which has no lease.
LEMMA ResumeJobQuiet ==
  ASSUME IInv, NEW key \in Keys, NEW lag \in Lags, ResumeJob(key, lag)
  PROVE  Quiet
  <1> DEFINE row == [jobs[key] EXCEPT !.status = "pending", !.gate = Floor, !.age = lag]
  <1>1. /\ jobs[key] \in JobRows /\ jobs[key].token \in Nat /\ key.run \in Runs
        /\ jobs[key].status \in {"waiting_human", "waiting_dependency"}
    BY RowParts DEF ResumeJob
  <1>2. /\ row \in JobRows /\ row.status = "pending" /\ row.lease = jobs[key].lease
        /\ row.token = jobs[key].token
    <2>1. "pending" \in JobStatuses
      BY DEF JobStatuses, RUN_OPEN_JOB_STATUSES
    <2> QED BY <1>1, <2>1, TimerFacts DEF JobRows
  <1>3. /\ jobs' = [jobs EXCEPT ![key] = row]
        /\ claims' = claims /\ reservations' = reservations /\ ops' = ops
        /\ runs' = runs \/ runs' = [runs EXCEPT ![key.run] = "active"]
    BY DEF ResumeJob
  <1> HIDE DEF row
  <1>4. TypeOK'
    BY <1>1, <1>2, <1>3 DEF IInv, TypeOK, RunStatuses
  <1>5. \A r \in Runs : runs[r] # "absent" => runs'[r] # "absent"
    BY <1>3 DEF IInv, TypeOK
  <1>6. Rested(key)
    <2>1. jobs[key].lease = NoLease /\ runs[key.run] # "absent"
      BY <1>1, BornRun DEF IInv, RunningIsLeased
    <2>2. jobs'[key] = row
      BY <1>3 DEF IInv, TypeOK
    <2>3. "pending" \in Resting
      BY DEF Resting, JobStatuses, RUN_OPEN_JOB_STATUSES
    <2>4. row.token >= jobs[key].token
      BY <1>1, <1>2
    <2> QED BY <1>1, <1>2, <1>5, <2>1, <2>2, <2>3, <2>4 DEF Rested, SettledJobStatuses
  <1>7. \A k \in Keys \ {key} : Kept(k)
    BY <1>3 DEF IInv, TypeOK, Kept
  <1>8. Loosens
    <2>1. ASSUME NEW l \in Leases PROVE ClaimStays(l)
      BY <1>1, <1>3, <1>7, ActiveClaim DEF ClaimStays
    <2> QED BY <1>3, <1>5, <1>6, <1>7, <2>1 DEF Loosens
  <1> QED BY <1>3, <1>4, <1>8, QuietOps

\* A cancellation or a fleet sweep hits every active claim of some runs together
\* with its job: P tells the jobs, R the runs of the claims.
LEMMA GroupLoosens ==
  ASSUME IInv, NEW STATE R, NEW STATE P,
         \A k \in Keys : jobs[k].status = "running" => (k \in P <=> k.run \in R),
         \A k \in Keys : IF k \in P THEN Rested(k) ELSE Kept(k),
         claims' = ReleasedClaims(R),
         \A r \in Runs : runs[r] # "absent" => runs'[r] # "absent"
  PROVE  claims' \in [Leases -> ClaimRows] /\ Loosens
  <1>1. ASSUME NEW l \in Leases
        PROVE  /\ claims'[l] \in ClaimRows
               /\ claims'[l].key = claims[l].key /\ claims'[l].token = claims[l].token
               /\ ClaimStays(l) \/ ClaimCloses(l)
    <2>1. claims[l] \in ClaimRows /\ claims[l].key \in Keys
      BY RowParts
    <2>2. CASE claims[l].status = "active" /\ claims[l].key.run \in R
      <3>1. claims'[l] = Closed(claims[l], "released")
        BY <2>2 DEF ReleasedClaims
      <3>2. /\ claims'[l] \in ClaimRows /\ claims'[l].status = "released"
            /\ claims'[l].key = claims[l].key /\ claims'[l].token = claims[l].token
        BY <2>1, <3>1, ClosedRows
      <3>3. Rested(claims[l].key)
        BY <2>1, <2>2, ActiveClaim
      <3> QED BY <2>2, <3>2, <3>3 DEF ClaimCloses
    <2>3. CASE ~ (claims[l].status = "active" /\ claims[l].key.run \in R)
      <3>1. claims'[l] = claims[l]
        BY <2>3 DEF ReleasedClaims
      <3>2. claims[l].status = "active" => Kept(claims[l].key)
        BY <2>1, <2>3, ActiveClaim
      <3> QED BY <2>1, <3>1, <3>2 DEF ClaimStays
    <2> QED BY <2>2, <2>3
  <1>2. claims' \in [Leases -> ClaimRows]
    BY <1>1 DEF ReleasedClaims
  <1> QED BY <1>1, <1>2 DEF Loosens

\* cancel_run rests the open jobs of a run and releases its claims.
LEMMA CancelRunQuiet ==
  ASSUME IInv, NEW r \in Runs, NEW lag \in Lags, CancelRun(r, lag)
  PROVE  Quiet
  <1> DEFINE P == {k \in Keys : k.run = r /\ jobs[k].status \in RUN_OPEN_JOB_STATUSES}
             Row(k) == [jobs[k] EXCEPT !.status = "cancelled", !.lease = NoLease, !.age = lag]
  <1>1. /\ jobs' = [k \in Keys |-> IF k \in P THEN Row(k) ELSE jobs[k]]
        /\ claims' = ReleasedClaims({r})
        /\ reservations' = [x \in Reservations |->
                              IF x \in LiveOf(r) THEN Closed(reservations[x], "cancelled")
                              ELSE reservations[x]]
        /\ runs' = [runs EXCEPT ![r] = "cancelled"] /\ ops' = ops
    BY DEF CancelRun
  <1>2. ASSUME NEW k \in Keys
        PROVE  jobs'[k] \in JobRows /\ (IF k \in P THEN Rested(k) ELSE Kept(k))
    <2>1. CASE k \in P
      <3>1. jobs[k] \in JobRows /\ jobs[k].token \in Nat /\ jobs'[k] = Row(k)
        BY <1>1, <2>1, RowParts
      <3>2. "cancelled" \in JobStatuses /\ "cancelled" \in Resting
        BY DEF Resting, JobStatuses, SettledJobStatuses
      <3>3. /\ Row(k) \in JobRows /\ Row(k).status = "cancelled"
            /\ Row(k).lease = NoLease /\ Row(k).token = jobs[k].token
        BY <3>1, <3>2, TimerFacts DEF JobRows
      <3>4. Row(k).token >= jobs[k].token
        BY <3>1, <3>3
      <3>5. runs'[k.run] # "absent"
        BY <1>1, <2>1 DEF IInv, TypeOK
      <3>6. jobs[k].status \notin SettledJobStatuses
        BY <2>1 DEF RUN_OPEN_JOB_STATUSES, SettledJobStatuses
      <3> HIDE DEF Row
      <3> QED BY <2>1, <3>1, <3>2, <3>3, <3>4, <3>5, <3>6 DEF Rested
    <2>2. CASE k \notin P
      BY <1>1, <2>2, RowParts DEF Kept
    <2> QED BY <2>1, <2>2
  <1>3. /\ runs' \in [Runs -> RunStatuses]
        /\ \A q \in Runs : runs[q] # "absent" => runs'[q] # "absent"
    BY <1>1 DEF IInv, TypeOK, RunStatuses
  <1>4. \A k \in Keys : jobs[k].status = "running" => (k \in P <=> k.run \in {r})
    BY DEF RUN_OPEN_JOB_STATUSES
  <1>5. jobs' \in [Keys -> JobRows]
    BY <1>1, <1>2
  <1>6. reservations' \in [Reservations -> ReservationRows]
    <2>1. \A x \in Reservations : Closed(reservations[x], "cancelled") \in ReservationRows
      BY RowParts, ClosedRows DEF ReservationStatuses, ReleaseStatuses
    <2> QED BY <1>1, <2>1, RowParts
  <1> HIDE DEF P, Row
  <1>7. claims' \in [Leases -> ClaimRows] /\ Loosens
    BY <1>1, <1>2, <1>3, <1>4, GroupLoosens
  <1>8. TypeOK'
    BY <1>1, <1>3, <1>5, <1>6, <1>7 DEF IInv, TypeOK
  <1> QED BY <1>1, <1>7, <1>8, QuietOps

\* A fleet sweep of the runs R.
LEMMA SweepQuiet ==
  ASSUME IInv, NEW lag \in Lags, NEW STATE R,
         jobs' = RequeuedJobs(R, lag), claims' = ReleasedClaims(R),
         runs' = runs, ops' = ops,
         reservations' \in [Reservations -> ReservationRows]
  PROVE  Quiet
  <1> DEFINE P == {k \in Keys : k.run \in R /\ jobs[k].status = "running"}
  <1>1. ASSUME NEW k \in Keys
        PROVE  jobs'[k] \in JobRows /\ (IF k \in P THEN Rested(k) ELSE Kept(k))
    <2>1. CASE k \in P
      <3>1. jobs[k] \in JobRows /\ jobs[k].token \in Nat /\ jobs'[k] = RequeuedJob(jobs[k], lag)
        BY <2>1, RowParts DEF RequeuedJobs
      <3>2. /\ jobs'[k] \in JobRows /\ jobs'[k].token = jobs[k].token + 1
            /\ jobs'[k].lease = NoLease /\ jobs'[k].status = "pending"
        BY <3>1, RequeuedJobRow
      <3>3. "pending" \in Resting
        BY DEF Resting, JobStatuses, RUN_OPEN_JOB_STATUSES
      <3>4. jobs'[k].token >= jobs[k].token
        BY <3>1, <3>2
      <3>5. runs'[k.run] # "absent"
        BY <2>1, BornRun
      <3> QED BY <2>1, <3>2, <3>3, <3>4, <3>5 DEF Rested, SettledJobStatuses
    <2>2. CASE k \notin P
      BY <2>2, RowParts DEF Kept, RequeuedJobs
    <2> QED BY <2>1, <2>2
  <1>2. \A k \in Keys : jobs[k].status = "running" => (k \in P <=> k.run \in R)
    OBVIOUS
  <1>3. jobs' \in [Keys -> JobRows]
    BY <1>1 DEF RequeuedJobs
  <1> HIDE DEF P
  <1>4. claims' \in [Leases -> ClaimRows] /\ Loosens
    BY <1>1, <1>2, GroupLoosens
  <1>5. TypeOK'
    BY <1>3, <1>4 DEF IInv, TypeOK
  <1> QED BY <1>4, <1>5, QuietOps

\* An operation on the reservations alone.
LEMMA ReservationsQuiet ==
  ASSUME IInv, UNCHANGED <<runs, jobs, claims, ops>>,
         reservations' \in [Reservations -> ReservationRows]
  PROVE  Quiet
  <1>1. TypeOK'
    BY DEF IInv, TypeOK
  <1>2. Loosens
    BY DEF Loosens, Kept, ClaimStays
  <1> QED BY <1>1, <1>2, QuietOps

\* The job and claim tables under materialize_result, for a job whose run exists.
LEMMA MaterializeQuiet ==
  ASSUME IInv, NEW key \in Keys, NEW result \in Results, NEW STATE top,
         NEW overBudget, NEW lag \in Lags, runs[key.run] # "absent",
         MaterializeResult(key, result, top, overBudget, lag)
  PROVE  Quiet
  <1> DEFINE status == DbStatus(key, result, top, overBudget)
             succs  == SuccessorKeys(key, result, top, overBudget)
             Row(k) == [jobs[k] EXCEPT !.status = status, !.lease = NoLease, !.age = lag]
             P == {k \in Keys : \/ k = key /\ jobs[k].status \in {"pending", "running", "absent"}
                                \/ k # key /\ k \in succs /\ jobs[k].status = "absent"}
             shut == jobs[key].status \in {"pending", "running"}
  <1>1. status \in Resting /\ status \in JobStatuses
    BY DbStatusRests DEF Resting
  <1>2. \A k \in succs : k.run = key.run
    BY ZenonT(60) DEF SuccessorKeys, When, RetryKey, Keys
  <1> HIDE DEF status, succs
  <1>3. /\ jobs' = MaterializedJobs(key, result, top, overBudget, lag)
        /\ claims' = [l \in Leases |-> IF shut /\ l = jobs[key].lease
                                       THEN Closed(claims[l], "released") ELSE claims[l]]
        /\ \/ runs' = runs
           \/ runs' = [runs EXCEPT ![key.run] = "failed"]
           \/ runs' = [runs EXCEPT ![key.run] = "completed"]
        /\ reservations' = reservations /\ ops' = ops
    BY DEF MaterializeResult
  <1>4. /\ runs' \in [Runs -> RunStatuses]
        /\ \A r \in Runs : runs[r] # "absent" => runs'[r] # "absent"
    BY <1>3, RowParts DEF IInv, TypeOK, RunStatuses
  <1>5. ASSUME NEW k \in Keys
        PROVE  /\ k = key /\ shut => jobs'[k] = Row(k)
               /\ k = key /\ jobs[k].status = "absent" => jobs'[k] = NewJob(status, Floor, lag)
               /\ k # key /\ k \in P => \E t \in Timers : jobs'[k] = NewJob("pending", t, lag)
               /\ k \notin P => jobs'[k] = jobs[k]
    <2> DEFINE gate(j) == IF Gated(j, key, result, top, overBudget) THEN RetryDelay - lag ELSE Floor
    <2>1. gate(k) \in Timers
      BY TimerFacts
    <2>2. jobs'[k] = CASE k = key /\ jobs[k].status \in {"pending", "running"} -> Row(k)
                       [] k = key /\ jobs[k].status = "absent" -> NewJob(status, Floor, lag)
                       [] k # key /\ k \in succs /\ jobs[k].status = "absent" ->
                            NewJob("pending", gate(k), lag)
                       [] OTHER -> jobs[k]
      BY <1>3 DEF MaterializedJobs, status, succs
    <2> HIDE DEF gate, Row
    <2> QED BY <2>1, <2>2
  <1>6. ASSUME NEW k \in Keys
        PROVE  jobs'[k] \in JobRows /\ (IF k \in P THEN Rested(k) ELSE Kept(k))
    <2>r. /\ jobs[k] \in JobRows /\ jobs[k].token \in Nat /\ k.run \in Runs
          /\ jobs[k].status = "absent" => jobs[k].token = 0
      BY RowParts DEF IInv, Unborn
    <2>p. "pending" \in Resting /\ "pending" \in JobStatuses
      BY DEF Resting, JobStatuses, RUN_OPEN_JOB_STATUSES
    <2>n. ASSUME NEW s \in Resting, NEW t \in Timers, jobs'[k] = NewJob(s, t, lag),
                 jobs[k].status = "absent", k.run = key.run
          PROVE  jobs'[k] \in JobRows /\ Rested(k)
      <3>1. /\ jobs'[k] \in JobRows /\ jobs'[k].status = s
            /\ jobs'[k].lease = NoLease /\ jobs'[k].token = 0
        <4>1. s \in JobStatuses
          BY DEF Resting
        <4>2. NewJob(s, t, lag) \in JobRows
          BY <4>1, NewJobRow
        <4>3. /\ NewJob(s, t, lag).status = s /\ NewJob(s, t, lag).lease = NoLease
              /\ NewJob(s, t, lag).token = 0
          BY DEF NewJob, NoJob
        <4> QED BY <2>n, <4>2, <4>3
      <3>2. jobs'[k].token >= jobs[k].token
        BY <3>1, <2>r, <2>n
      <3> QED BY <2>r, <2>n, <3>1, <3>2, <1>4 DEF Rested, SettledJobStatuses
    <2>1. CASE k = key /\ shut
      <3>1. /\ Row(k) \in JobRows /\ Row(k).status = status
            /\ Row(k).lease = NoLease /\ Row(k).token = jobs[k].token
        BY <1>1, <2>r, TimerFacts DEF JobRows
      <3> HIDE DEF Row
      <3>2. Row(k).token >= jobs[k].token
        BY <2>r, <3>1
      <3> QED BY <1>1, <1>4, <1>5, <2>r, <2>1, <3>1, <3>2 DEF Rested, SettledJobStatuses
    <2>2. CASE k = key /\ jobs[k].status = "absent"
      BY <1>1, <1>5, <2>2, <2>n, TimerFacts
    <2>3. CASE k # key /\ k \in P
      BY <1>2, <1>5, <2>3, <2>n, <2>p
    <2>4. CASE k \notin P
      BY <1>5, <2>r, <2>4 DEF Kept
    <2> QED BY <2>1, <2>2, <2>3, <2>4
  <1>7. jobs' \in [Keys -> JobRows]
    BY <1>3, <1>6 DEF MaterializedJobs
  <1>8. ASSUME NEW l \in Leases
        PROVE  /\ claims'[l] \in ClaimRows
               /\ claims'[l].key = claims[l].key /\ claims'[l].token = claims[l].token
               /\ ClaimStays(l) \/ ClaimCloses(l)
    <2>1. claims[l] \in ClaimRows /\ claims[l].key \in Keys
      BY RowParts
    <2>2. CASE shut /\ l = jobs[key].lease
      <3>1. claims[l].status = "active" /\ claims[l].key = key
        BY <2>2, StoreAssumption DEF IInv, RunningIsLeased
      <3>2. claims'[l] = Closed(claims[l], "released")
        BY <1>3, <2>2
      <3>3. /\ claims'[l] \in ClaimRows /\ claims'[l].status = "released"
            /\ claims'[l].key = claims[l].key /\ claims'[l].token = claims[l].token
        BY <2>1, <3>2, ClosedRows
      <3> QED BY <1>6, <2>2, <3>1, <3>3 DEF ClaimCloses
    <2>3. CASE ~ (shut /\ l = jobs[key].lease)
      <3>1. claims'[l] = claims[l]
        BY <1>3, <2>3
      <3>2. claims[l].status = "active" => claims[l].key \notin P
        BY <2>3, ActiveClaim
      <3> QED BY <1>6, <2>1, <3>1, <3>2 DEF ClaimStays
    <2> QED BY <2>2, <2>3
  <1>9. claims' \in [Leases -> ClaimRows]
    BY <1>3, <1>8
  <1>10. TypeOK'
    BY <1>3, <1>4, <1>7, <1>9 DEF IInv, TypeOK
  <1>11. Loosens
    BY <1>4, <1>6, <1>8 DEF Loosens
  <1> QED BY <1>3, <1>10, <1>11, QuietOps

\* Every call of materialize_result in Next is for an existing run.
LEMMA MaterializeSomeQuiet ==
  ASSUME IInv, NEW lag \in Lags, MaterializeSome(lag)
  PROVE  Quiet
  <1>1. PICK k \in Keys, result \in Results :
          /\ jobs[k].token > 0 \/ runs[k.run] = "active"
          /\ \E overBudget \in BudgetReadings(result) :
               MaterializeResult(k, result, TopFor(k, result), overBudget, lag)
    BY DEF MaterializeSome
  <1>2. runs[k.run] # "absent"
    BY <1>1 DEF IInv, Unborn
  <1> QED BY <1>1, <1>2, MaterializeQuiet

-----------------------------------------------------------------------------
\* Fleet reservations.  The active reservations only shrink, except in
\* reserve_cycle: the other operations say so with NoNewActive.

NoNewActive ==
  \A x \in Reservations :
    reservations'[x].status = "active" =>
      /\ reservations[x].status = "active"
      /\ reservations'[x].run = reservations[x].run
      /\ reservations'[x].host = reservations[x].host

\* A reservation row with another expiry, and one that drains.
Renewed(row, t) == [row EXCEPT !.ttl = t]
Drained(row) == [row EXCEPT !.status = "draining"]

\* What the operations do to a reservation row: close it, renew it, drain it.
LEMMA ReservationRowEdits ==
  ASSUME NEW row \in ReservationRows
  PROVE  /\ \A s \in ReservationStatuses : /\ Closed(row, s) \in ReservationRows
                                           /\ Closed(row, s).status = s
         /\ \A t \in Timers : /\ Renewed(row, t) \in ReservationRows
                              /\ Renewed(row, t).status = row.status
                              /\ Renewed(row, t).run = row.run
                              /\ Renewed(row, t).host = row.host
         /\ Drained(row) \in ReservationRows
         /\ Drained(row).status = "draining"
         /\ CountDown(row.ttl) \in Timers
  <1>1. "draining" \in ReservationStatuses
    BY DEF ReservationStatuses, LiveReservation
  <1> QED BY <1>1, ClosedRows, TimerFacts DEF ReservationRows, Renewed, Drained

\* _expire_fleet_reservations yields rows and no new active one.
LEMMA SweptRows ==
  ASSUME IInv, NEW lag \in Lags
  PROVE  /\ SweptReservations(lag) \in [Reservations -> ReservationRows]
         /\ \A x \in Reservations :
              SweptReservations(lag)[x].status = "active" =>
                SweptReservations(lag)[x] = reservations[x]
  <1>1. ASSUME NEW x \in Reservations
        PROVE  /\ Closed(reservations[x], "expired") \in ReservationRows
               /\ Closed(reservations[x], "expired").status = "expired"
    BY RowParts, ReservationRowEdits DEF ReservationStatuses
  <1> QED BY <1>1, RowParts DEF SweptReservations

\* reserve_cycle sweeps expired reservations and may activate one.
LEMMA ReserveCycleQuiet ==
  ASSUME IInv, NEW r \in Runs, NEW h \in Hosts, NEW x \in Reservations, NEW lag \in Lags,
         ReserveCycle(r, h, x, lag)
  PROVE  Quiet
  <1> DEFINE row == [status |-> "active", run |-> r, host |-> h, ttl |-> LeaseDuration - lag]
  <1>1. row \in ReservationRows
    <2>1. "active" \in ReservationStatuses /\ LeaseDuration - lag \in Timers
      BY TimerFacts DEF ReservationStatuses, LiveReservation
    <2> QED BY <2>1 DEF ReservationRows
  <1>2. \/ reservations' = SweptReservations(lag)
        \/ reservations' = [SweptReservations(lag) EXCEPT ![x] = row]
    BY DEF ReserveCycle
  <1> HIDE DEF row
  <1>3. reservations' \in [Reservations -> ReservationRows]
    BY <1>1, <1>2, SweptRows
  <1>4. /\ jobs' = RequeuedJobs(SweptRuns(lag), lag)
        /\ claims' = ReleasedClaims(SweptRuns(lag))
        /\ runs' = runs /\ ops' = ops
    BY DEF ReserveCycle
  <1> QED BY <1>3, <1>4, SweepQuiet

\* heartbeat_reservation renews, or expires and requeues.
LEMMA HeartbeatReservationQuiet ==
  ASSUME IInv, NEW x \in Reservations, NEW lag \in Lags, HeartbeatReservation(x, lag)
  PROVE  Quiet /\ NoNewActive
  <1>1. reservations[x] \in ReservationRows
    BY RowParts
  <1>2. CASE Passed(reservations[x].ttl, lag)
    <2> DEFINE row == Closed(reservations[x], "expired")
    <2>1. row \in ReservationRows /\ row.status = "expired"
      BY <1>1, ReservationRowEdits DEF ReservationStatuses
    <2>2. /\ reservations' = [reservations EXCEPT ![x] = row]
          /\ jobs' = RequeuedJobs({reservations[x].run}, lag)
          /\ claims' = ReleasedClaims({reservations[x].run})
          /\ runs' = runs /\ ops' = ops
      BY <1>2 DEF HeartbeatReservation
    <2> HIDE DEF row
    <2>3. reservations' \in [Reservations -> ReservationRows] /\ NoNewActive
      BY <2>1, <2>2 DEF IInv, TypeOK, NoNewActive
    <2> QED BY <2>2, <2>3, SweepQuiet
  <1>3. CASE ~ Passed(reservations[x].ttl, lag)
    <2>1. PICK t \in Timers : t = LeaseDuration - lag
      BY TimerFacts
    <2> DEFINE row == Renewed(reservations[x], t)
    <2>2. /\ row \in ReservationRows /\ row.status = reservations[x].status
          /\ row.run = reservations[x].run /\ row.host = reservations[x].host
      BY <1>1, ReservationRowEdits
    <2>3. /\ reservations' = [reservations EXCEPT ![x] = row]
          /\ UNCHANGED <<runs, jobs, claims, ops>>
      BY <1>3, <2>1 DEF HeartbeatReservation, Renewed
    <2> HIDE DEF row
    <2>4. reservations' \in [Reservations -> ReservationRows] /\ NoNewActive
      BY <2>2, <2>3 DEF IInv, TypeOK, NoNewActive
    <2> QED BY <2>3, <2>4, ReservationsQuiet
  <1> QED BY <1>2, <1>3

\* release_reservation closes one reservation.
LEMMA ReleaseReservationQuiet ==
  ASSUME IInv, NEW x \in Reservations, NEW status \in ReleaseStatuses,
         ReleaseReservation(x, status)
  PROVE  Quiet /\ NoNewActive
  <1> DEFINE row == Closed(reservations[x], status)
  <1>1. row \in ReservationRows /\ row.status = status /\ status # "active"
    BY RowParts, ReservationRowEdits DEF ReservationStatuses, ReleaseStatuses
  <1>2. /\ reservations' = [reservations EXCEPT ![x] = row]
        /\ UNCHANGED <<runs, jobs, claims, ops>>
    BY DEF ReleaseReservation
  <1> HIDE DEF row
  <1>3. reservations' \in [Reservations -> ReservationRows] /\ NoNewActive
    BY <1>1, <1>2 DEF IInv, TypeOK, NoNewActive
  <1> QED BY <1>2, <1>3, ReservationsQuiet

\* drain_host only moves active reservations to draining.
LEMMA DrainHostQuiet ==
  ASSUME IInv, NEW h \in Hosts, DrainHost(h)
  PROVE  Quiet /\ NoNewActive
  <1>1. ASSUME NEW x \in Reservations
        PROVE  /\ reservations'[x] \in ReservationRows
               /\ reservations'[x].status = "active" => reservations'[x] = reservations[x]
    <2>1. \/ reservations'[x] = Drained(reservations[x])
          \/ reservations'[x] = reservations[x]
      BY DEF DrainHost, Drained
    <2>2. reservations[x] \in ReservationRows
      BY RowParts
    <2>3. CASE reservations'[x] = Drained(reservations[x])
      BY <2>2, <2>3, ReservationRowEdits
    <2>4. CASE reservations'[x] = reservations[x]
      BY <2>2, <2>4
    <2> QED BY <2>1, <2>3, <2>4
  <1>2. reservations' \in [Reservations -> ReservationRows]
    BY <1>1 DEF DrainHost
  <1>3. NoNewActive
    BY <1>1 DEF NoNewActive
  <1>4. UNCHANGED <<runs, jobs, claims, ops>>
    BY DEF DrainHost
  <1> QED BY <1>2, <1>3, <1>4, ReservationsQuiet

\* renew_open_run_reservations moves expiries only.
LEMMA RenewOpenRunReservationsQuiet ==
  ASSUME IInv, NEW lag \in Lags, RenewOpenRunReservations(lag)
  PROVE  Quiet /\ NoNewActive
  <1>1. PICK t \in Timers : t = LeaseDuration - lag
    BY TimerFacts
  <1>2. ASSUME NEW x \in Reservations
        PROVE  /\ reservations'[x] \in ReservationRows
               /\ reservations'[x].status = reservations[x].status
               /\ reservations'[x].run = reservations[x].run
               /\ reservations'[x].host = reservations[x].host
    <2>1. \/ reservations'[x] = Renewed(reservations[x], t)
          \/ reservations'[x] = reservations[x]
      BY <1>1 DEF RenewOpenRunReservations, Renewed
    <2>2. reservations[x] \in ReservationRows
      BY RowParts
    <2>3. /\ Renewed(reservations[x], t) \in ReservationRows
          /\ Renewed(reservations[x], t).status = reservations[x].status
          /\ Renewed(reservations[x], t).run = reservations[x].run
          /\ Renewed(reservations[x], t).host = reservations[x].host
      BY <2>2, ReservationRowEdits
    <2> QED BY <2>1, <2>2, <2>3
  <1>3. reservations' \in [Reservations -> ReservationRows]
    BY <1>2 DEF RenewOpenRunReservations
  <1>4. NoNewActive
    BY <1>2 DEF NoNewActive
  <1>5. UNCHANGED <<runs, jobs, claims, ops>>
    BY DEF RenewOpenRunReservations
  <1> QED BY <1>3, <1>4, <1>5, ReservationsQuiet

\* reconcile_fleet_reservations sweeps expired reservations.
LEMMA ReconcileFleetReservationsQuiet ==
  ASSUME IInv, NEW lag \in Lags, ReconcileFleetReservations(lag)
  PROVE  Quiet /\ NoNewActive
  <1>1. /\ reservations' = SweptReservations(lag)
        /\ jobs' = RequeuedJobs(SweptRuns(lag), lag)
        /\ claims' = ReleasedClaims(SweptRuns(lag))
        /\ runs' = runs /\ ops' = ops
    BY DEF ReconcileFleetReservations
  <1>2. reservations' \in [Reservations -> ReservationRows] /\ NoNewActive
    BY <1>1, SweptRows DEF NoNewActive
  <1> QED BY <1>1, <1>2, SweepQuiet

-----------------------------------------------------------------------------
\* Time and claims.

\* The passage of time changes timers only.
LEMMA TickQuiet ==
  ASSUME IInv, Tick
  PROVE  Quiet /\ NoNewActive
  <1>1. ASSUME NEW k \in Keys
        PROVE  jobs'[k] \in JobRows /\ Kept(k)
    <2>1. jobs[k] \in JobRows
      BY RowParts
    <2>2. jobs[k].age \in 0 .. MaxAge + 1 /\ jobs[k].gate \in Timers
      BY <2>1, JobRowParts
    <2>3. Older(k) \in 0 .. MaxAge + 1 /\ CountDown(jobs[k].gate) \in Timers
      <3>1. CountDown(jobs[k].gate) \in Timers
        BY <2>2, TimerFacts
      <3>2. \/ Older(k) = MaxAge + 1
            \/ Older(k) = jobs[k].age
            \/ jobs[k].age =< MaxAge /\ Older(k) = jobs[k].age + 1
        <4>1. jobs[k].age < MaxAge => jobs[k].age =< MaxAge
          BY <2>2, StoreAssumption
        <4> QED BY <4>1 DEF Older
      <3> QED BY <2>2, <3>1, <3>2, StoreAssumption
    <2>4. PICK g \in Timers, a \in 0 .. MaxAge + 1 :
            \/ jobs'[k] = jobs[k]
            \/ jobs'[k] = [jobs[k] EXCEPT !.gate = g, !.age = a]
      BY <2>3 DEF Tick
    <2>5. /\ [jobs[k] EXCEPT !.gate = g, !.age = a] \in JobRows
          /\ [jobs[k] EXCEPT !.gate = g, !.age = a].status = jobs[k].status
          /\ [jobs[k] EXCEPT !.gate = g, !.age = a].lease = jobs[k].lease
          /\ [jobs[k] EXCEPT !.gate = g, !.age = a].token = jobs[k].token
      BY <2>1 DEF JobRows
    <2> QED BY <2>1, <2>4, <2>5 DEF Kept
  <1>2. ASSUME NEW l \in Leases
        PROVE  /\ claims'[l] \in ClaimRows /\ claims'[l].status = claims[l].status
               /\ claims'[l].key = claims[l].key /\ claims'[l].token = claims[l].token
    <2>1. claims[l] \in ClaimRows /\ claims[l].ttl \in Timers
      BY RowParts DEF ClaimRows
    <2>2. PICK t \in Timers : t = CountDown(claims[l].ttl)
      BY <2>1, TimerFacts
    <2>3. claims'[l] = [claims[l] EXCEPT !.ttl = t]
      BY <2>2 DEF Tick
    <2> QED BY <2>1, <2>3 DEF ClaimRows
  <1>3. ASSUME NEW x \in Reservations
        PROVE  /\ reservations'[x] \in ReservationRows
               /\ reservations'[x].status = reservations[x].status
               /\ reservations'[x].run = reservations[x].run
               /\ reservations'[x].host = reservations[x].host
    <2>1. reservations[x] \in ReservationRows
      BY RowParts
    <2>2. PICK t \in Timers : t = CountDown(reservations[x].ttl)
      BY <2>1, ReservationRowEdits
    <2>3. reservations'[x] = Renewed(reservations[x], t)
      BY <2>2 DEF Tick, Renewed
    <2>4. /\ Renewed(reservations[x], t) \in ReservationRows
          /\ Renewed(reservations[x], t).status = reservations[x].status
          /\ Renewed(reservations[x], t).run = reservations[x].run
          /\ Renewed(reservations[x], t).host = reservations[x].host
      BY <2>1, ReservationRowEdits
    <2> QED BY <2>3, <2>4
  <1>4. /\ jobs' \in [Keys -> JobRows] /\ claims' \in [Leases -> ClaimRows]
        /\ reservations' \in [Reservations -> ReservationRows]
    BY <1>1, <1>2, <1>3 DEF Tick
  <1>5. runs' = runs /\ ops' = ops
    BY DEF Tick
  <1>6. TypeOK'
    BY <1>4, <1>5 DEF IInv, TypeOK
  <1>7. Loosens
    BY <1>1, <1>2, <1>5, RowParts DEF Loosens, ClaimStays
  <1>8. NoNewActive
    BY <1>3 DEF NoNewActive
  <1> QED BY <1>5, <1>6, <1>7, <1>8, QuietOps

\* What claim does: it takes a pending job under an unused lease id, with the
\* next fencing token.
Claims(key, l) ==
  /\ jobs[key].status = "pending"
  /\ claims[l].status = "absent"
  /\ jobs'[key].status = "running"
  /\ jobs'[key].lease = l
  /\ jobs'[key].token = jobs[key].token + 1
  /\ claims'[l].status = "active"
  /\ claims'[l].key = key
  /\ claims'[l].token = jobs[key].token + 1
  /\ \A k \in Keys \ {key} : jobs'[k] = jobs[k]
  /\ \A m \in Leases \ {l} : claims'[m] = claims[m]
  /\ runs' = runs /\ ops' = ops

\* The Claim action does that, and activates no reservation.
LEMMA ClaimClaims ==
  ASSUME IInv, NEW w \in Workers, NEW key \in Keys, NEW l \in Leases,
         NEW x \in Reservations \cup {NoReservation}, NEW lag \in Lags,
         Claim(w, key, l, x, lag)
  PROVE  TypeOK' /\ Claims(key, l) /\ NoNewActive
  <1>1. PICK n \in Nat : n = jobs[key].token + 1
    BY RowParts
  <1>2. PICK t \in Timers : t = LeaseDuration - lag
    BY TimerFacts
  <1> DEFINE row == Updated(jobs[key], "running", n, l, jobs[key].retries, lag)
             claim == [status |-> "active", key |-> key, token |-> n,
                       reservation |-> x, ttl |-> t]
  <1>3. /\ row \in JobRows /\ row.status = "running" /\ row.lease = l /\ row.token = n
    <2>1. jobs[key] \in JobRows /\ "running" \in JobStatuses
      BY RowParts DEF JobStatuses, RUN_OPEN_JOB_STATUSES
    <2>2. jobs[key].retries \in 0 .. MaxRetries
      BY <2>1, JobRowParts
    <2> QED BY <2>1, <2>2, UpdatedJobRow
  <1>4. claim \in ClaimRows
    BY DEF ClaimRows
  <1>5. /\ jobs[key].status = "pending" /\ claims[l].status = "absent"
        /\ jobs' = [jobs EXCEPT ![key] = row]
        /\ claims' = [claims EXCEPT ![l] = claim]
        /\ runs' = runs /\ ops' = ops
    <2>1. jobs[key] \in JobRows /\ jobs' = [jobs EXCEPT ![key] = ClaimedJob(jobs[key], l, lag)]
      BY RowParts DEF Claim
    <2>2. ClaimedJob(jobs[key], l, lag)
            = Updated(jobs[key], "running", jobs[key].token + 1, l, jobs[key].retries, lag)
      BY <2>1 DEF ClaimedJob, JobRows, Updated
    <2>3. jobs' = [jobs EXCEPT ![key] = row]
      BY <1>1, <2>1, <2>2
    <2>4. claims' = [claims EXCEPT ![l] = claim]
      BY <1>1, <1>2 DEF Claim
    <2> QED BY <2>3, <2>4 DEF Claim
  <1>6. claim.status = "active" /\ claim.key = key /\ claim.token = n
    OBVIOUS
  <1> HIDE DEF row, claim
  <1>7. Claims(key, l)
    BY <1>1, <1>3, <1>5, <1>6 DEF Claims, IInv, TypeOK
  <1>8. ASSUME NEW y \in Reservations
        PROVE  /\ reservations'[y] \in ReservationRows
               /\ reservations'[y].status = reservations[y].status
               /\ reservations'[y].run = reservations[y].run
               /\ reservations'[y].host = reservations[y].host
    <2>1. \/ reservations'[y] = Renewed(reservations[y], t)
          \/ reservations'[y] = reservations[y]
      BY <1>2 DEF Claim, Renewed
    <2>2. reservations[y] \in ReservationRows
      BY RowParts
    <2>3. /\ Renewed(reservations[y], t) \in ReservationRows
          /\ Renewed(reservations[y], t).status = reservations[y].status
          /\ Renewed(reservations[y], t).run = reservations[y].run
          /\ Renewed(reservations[y], t).host = reservations[y].host
      BY <2>2, ReservationRowEdits
    <2> QED BY <2>1, <2>2, <2>3
  <1>9. reservations' \in [Reservations -> ReservationRows] /\ NoNewActive
    BY <1>8 DEF Claim, NoNewActive
  <1>10. TypeOK'
    BY <1>3, <1>4, <1>5, <1>9 DEF IInv, TypeOK
  <1> QED BY <1>7, <1>9, <1>10

\* A claim preserves the invariant: no active claim can already be on a pending
\* job, and no earlier claim can carry the next token.
LEMMA ClaimPreserves ==
  ASSUME IInv, TypeOK', NEW key \in Keys, NEW l \in Leases, Claims(key, l)
  PROVE  IInv'
  <1>1. \A m \in Leases \ {l} : claims[m].status = "active" => claims[m].key # key
    BY ActiveClaim DEF Claims
  <1>2. LeaseIntegrity'
    <2> SUFFICES ASSUME NEW m \in Leases, claims'[m].status = "active"
                 PROVE  /\ jobs'[claims'[m].key].status = "running"
                        /\ jobs'[claims'[m].key].lease = m
                        /\ jobs'[claims'[m].key].token = claims'[m].token
      BY DEF LeaseIntegrity
    <2>1. CASE m = l
      BY <2>1 DEF Claims
    <2>2. CASE m # l
      BY <1>1, <2>2, ActiveClaim DEF Claims
    <2> QED BY <2>1, <2>2
  <1>3. RunningIsLeased'
    <2> SUFFICES ASSUME NEW k \in Keys
                 PROVE  IF jobs'[k].status = "running"
                        THEN /\ jobs'[k].lease \in Leases
                             /\ claims'[jobs'[k].lease].status = "active"
                             /\ claims'[jobs'[k].lease].key = k
                        ELSE jobs'[k].lease = NoLease
      BY DEF RunningIsLeased
    <2>1. CASE k = key
      BY <2>1 DEF Claims
    <2>2. CASE k # key
      <3>1. jobs'[k] = jobs[k]
        BY <2>2 DEF Claims
      <3>2. CASE jobs[k].status = "running"
        <4>1. jobs[k].lease \in Leases \ {l}
          BY <3>2 DEF IInv, RunningIsLeased, Claims
        <4>2. claims'[jobs[k].lease] = claims[jobs[k].lease]
          BY <4>1 DEF Claims
        <4> QED BY <3>1, <3>2, <4>1, <4>2 DEF IInv, RunningIsLeased
      <3>3. CASE jobs[k].status # "running"
        BY <3>1, <3>3 DEF IInv, RunningIsLeased
      <3> QED BY <3>2, <3>3
    <2> QED BY <2>1, <2>2
  <1>4. TokensFence'
    <2>r. /\ \A k \in Keys : jobs[k].token \in Nat /\ ops[k] \in Nat
          /\ \A m \in Leases : claims[m].key \in Keys /\ claims[m].token \in Nat
      BY RowParts
    <2>1. \A m \in Leases \ {l} :
            claims[m].status # "absent" /\ claims[m].key = key => claims[m].token < jobs[key].token + 1
      <3>1. \A m \in Leases : claims[m].status # "absent" =>
                                 claims[m].token =< jobs[claims[m].key].token
        BY DEF IInv, TokensFence
      <3> QED BY <2>r, <3>1
    <2>2. ASSUME NEW m \in Leases, claims'[m].status # "absent"
          PROVE  claims'[m].token =< jobs'[claims'[m].key].token
      <3>1. CASE m = l
        BY <2>r, <3>1 DEF Claims
      <3>2. CASE m # l /\ claims[m].key = key
        BY <2>1, <2>2, <2>r, <3>2 DEF Claims
      <3>3. CASE m # l /\ claims[m].key # key
        BY <2>2, <2>r, <3>3 DEF Claims, IInv, TokensFence
      <3> QED BY <3>1, <3>2, <3>3
    <2>3. ASSUME NEW m \in Leases, claims'[m].status # "absent",
                 NEW o \in Leases \ {m}, claims'[o].status # "absent",
                 claims'[o].key = claims'[m].key
          PROVE  claims'[o].token # claims'[m].token
      <3>1. CASE m = l
        <4>1. claims[o].token < jobs[key].token + 1 /\ claims'[o] = claims[o]
          BY <2>1, <2>3, <3>1 DEF Claims
        <4>2. claims'[m].token = jobs[key].token + 1
          BY <3>1 DEF Claims
        <4> QED BY <2>r, <4>1, <4>2
      <3>2. CASE o = l
        <4>1. claims[m].token < jobs[key].token + 1 /\ claims'[m] = claims[m]
          BY <2>1, <2>3, <3>2 DEF Claims
        <4>2. claims'[o].token = jobs[key].token + 1
          BY <3>2 DEF Claims
        <4> QED BY <2>r, <4>1, <4>2
      <3>3. CASE m # l /\ o # l
        BY <2>3, <3>3 DEF Claims, IInv, TokensFence
      <3> QED BY <3>1, <3>2, <3>3
    <2>4. ASSUME NEW k \in Keys PROVE ops'[k] =< jobs'[k].token
      <3>1. ops[k] =< jobs[k].token
        BY DEF IInv, TokensFence
      <3>2. jobs'[k].token = jobs[k].token \/ jobs'[k].token = jobs[k].token + 1
        BY DEF Claims
      <3>3. ops'[k] = ops[k]
        BY DEF Claims
      <3> QED BY <2>r, <3>1, <3>2, <3>3
    <2> QED BY <2>2, <2>3, <2>4 DEF TokensFence
  <1>5. Unborn'
    BY DEF Unborn, Claims, IInv
  <1> QED BY <1>2, <1>3, <1>4, <1>5 DEF IInv

-----------------------------------------------------------------------------
\* The invariant and the theorems.

\* Every step is quiet or a claim.
LEMMA StepShape ==
  ASSUME IInv, Next
  PROVE  Quiet \/ (TypeOK' /\ \E k \in Keys, l \in Leases : Claims(k, l))
  <1>1. CASE Tick
    BY <1>1, TickQuiet
  <1>2. ASSUME NEW lag \in Lags, LeaseStep(lag)
        PROVE  Quiet \/ (TypeOK' /\ \E k \in Keys, l \in Leases : Claims(k, l))
    BY <1>2, AcceptQuiet, ClaimClaims, HeartbeatQuiet, RecordOperationQuiet, FinishQuiet,
       ReconcileQuiet DEF LeaseStep
  <1>3. ASSUME NEW lag \in Lags, RunStep(lag)
        PROVE  Quiet
    BY <1>3, MaterializeSomeQuiet, ResumeJobQuiet, CancelRunQuiet, AcceptDocumentaryQuiet
       DEF RunStep
  <1>4. ASSUME NEW lag \in Lags, FleetStep(lag)
        PROVE  Quiet
    BY <1>4, ReserveCycleQuiet, HeartbeatReservationQuiet, ReleaseReservationQuiet,
       DrainHostQuiet, RenewOpenRunReservationsQuiet, ReconcileFleetReservationsQuiet
       DEF FleetStep
  <1> QED BY <1>1, <1>2, <1>3, <1>4 DEF Next

\* The empty store satisfies the invariant.
LEMMA InitInv == Init => IInv
  <1> SUFFICES ASSUME Init PROVE IInv
    OBVIOUS
  <1>1. TypeOK
    BY EmptyRows DEF Init, TypeOK, RunStatuses
  <1>2. LeaseIntegrity /\ RunningIsLeased /\ TokensFence /\ Unborn
    BY DEF Init, LeaseIntegrity, RunningIsLeased, TokensFence, Unborn, NoJob, NoClaim
  <1> QED BY <1>1, <1>2 DEF IInv

\* Every step preserves the invariant.
LEMMA StepInv == IInv /\ [Next]_vars => IInv'
  <1> SUFFICES ASSUME IInv, [Next]_vars PROVE IInv'
    OBVIOUS
  <1>1. CASE Next
    BY <1>1, StepShape, QuietPreserves, ClaimPreserves
  <1>2. CASE UNCHANGED vars
    BY <1>2 DEF vars, IInv, TypeOK, LeaseIntegrity, RunningIsLeased, TokensFence, Unborn
  <1> QED BY <1>1, <1>2

\* The inductive invariant of the control store.
THEOREM Invariance == Spec => []IInv
  BY InitInv, StepInv, PTL DEF Spec

\* Type correctness of the five tables, for every interleaving of the operations.
THEOREM TypeCorrect == Spec => []TypeOK
  <1>1. IInv => TypeOK
    BY DEF IInv
  <1> QED BY <1>1, Invariance, PTL

\* Mutual exclusion of stage execution (claim, heartbeat, finish, reconcile,
\* cancel_run, materialize_result and the fleet sweeps): an active claim is the
\* current lease of a running job.
THEOREM LeasesExclusive == Spec => []LeaseIntegrity
  <1>1. IInv => LeaseIntegrity
    BY DEF IInv
  <1> QED BY <1>1, Invariance, PTL

\* A running job always has the active claim through which reconcile recovers it.
THEOREM NoStrandedJob == Spec => []RunningIsLeased
  <1>1. IInv => RunningIsLeased
    BY DEF IInv
  <1> QED BY <1>1, Invariance, PTL

\* Fencing tokens are unique per job and never ahead of their job.
THEOREM TokensUnique == Spec => []TokensFence
  <1>1. IInv => TokensFence
    BY DEF IInv
  <1> QED BY <1>1, Invariance, PTL

\* No operation of the store reopens or relabels a settled job.
THEOREM SettledFinal == Spec => SettledJobsFinal
  <1>1. IInv /\ [Next]_vars =>
          [\A k \in Keys : jobs[k].status \in SettledJobStatuses
                             => jobs'[k].status = jobs[k].status]_vars
    <2> SUFFICES ASSUME IInv, Next, NEW k \in Keys, jobs[k].status \in SettledJobStatuses
                 PROVE  jobs'[k].status = jobs[k].status
      OBVIOUS
    <2>1. CASE Quiet
      BY <2>1 DEF Quiet, Loosens, Kept, Rested
    <2>2. ASSUME NEW key \in Keys, NEW l \in Leases, Claims(key, l)
          PROVE  jobs'[k].status = jobs[k].status
      BY <2>2 DEF Claims, SettledJobStatuses
    <2> QED BY <2>1, <2>2, StepShape
  <1> QED BY <1>1, Invariance, PTL DEF Spec, SettledJobsFinal

\* The token of a job never decreases, and a job starts to run only under a token
\* larger than that of every earlier claim on it.
THEOREM TokensIncrease == Spec => FencingMonotone
  <1>1. IInv /\ [Next]_vars =>
          [\A k \in Keys :
             /\ jobs'[k].token >= jobs[k].token
             /\ jobs[k].status # "running" /\ jobs'[k].status = "running" =>
                  \A l \in Leases : claims[l].status # "absent" /\ claims[l].key = k
                                      => claims[l].token < jobs'[k].token]_vars
    <2> SUFFICES ASSUME IInv, Next, NEW k \in Keys
                 PROVE  /\ jobs'[k].token >= jobs[k].token
                        /\ jobs[k].status # "running" /\ jobs'[k].status = "running" =>
                             \A l \in Leases : claims[l].status # "absent" /\ claims[l].key = k
                                                 => claims[l].token < jobs'[k].token
      OBVIOUS
    <2>r. /\ jobs[k].token \in Nat
          /\ \A l \in Leases : claims[l].token \in Nat
      BY RowParts
    <2>1. CASE Quiet
      <3>1. Kept(k) \/ Rested(k)
        BY <2>1 DEF Quiet, Loosens
      <3>2. jobs'[k].token >= jobs[k].token
        BY <3>1, <2>r DEF Kept, Rested
      <3>3. ~ (jobs[k].status # "running" /\ jobs'[k].status = "running")
        BY <3>1 DEF Kept, Rested, Resting
      <3> QED BY <3>2, <3>3
    <2>2. ASSUME NEW key \in Keys, NEW m \in Leases, Claims(key, m)
          PROVE  /\ jobs'[k].token >= jobs[k].token
                 /\ jobs[k].status # "running" /\ jobs'[k].status = "running" =>
                      \A l \in Leases : claims[l].status # "absent" /\ claims[l].key = k
                                          => claims[l].token < jobs'[k].token
      <3>1. CASE k = key
        <4>1. jobs'[k].token = jobs[k].token + 1
          BY <2>2, <3>1 DEF Claims
        <4>2. \A l \in Leases : claims[l].status # "absent" /\ claims[l].key = k
                                   => claims[l].token =< jobs[k].token
          BY DEF IInv, TokensFence
        <4> QED BY <2>r, <4>1, <4>2
      <3>2. CASE k # key
        <4>1. jobs'[k] = jobs[k]
          BY <2>2, <3>2 DEF Claims
        <4> QED BY <2>r, <4>1
      <3> QED BY <3>1, <3>2
    <2> QED BY <2>1, <2>2, StepShape
  <1> QED BY <1>1, Invariance, PTL DEF Spec, FencingMonotone

\* record_operation never lets an older claim overwrite a newer one.
THEOREM OperationsMonotone == Spec => OperationsFenced
  <1>1. IInv /\ [Next]_vars => [\A k \in Keys : ops'[k] >= ops[k]]_vars
    <2> SUFFICES ASSUME IInv, Next, NEW k \in Keys PROVE ops'[k] >= ops[k]
      OBVIOUS
    <2>r. ops[k] \in Nat
      BY RowParts
    <2>1. CASE Quiet
      <3>1. ops[k] =< ops'[k] /\ ops'[k] \in Nat
        BY <2>1 DEF Quiet, TypeOK
      <3> QED BY <2>r, <3>1
    <2>2. ASSUME NEW key \in Keys, NEW l \in Leases, Claims(key, l)
          PROVE  ops'[k] >= ops[k]
      BY <2>r, <2>2 DEF Claims
    <2> QED BY <2>1, <2>2, StepShape
  <1> QED BY <1>1, Invariance, PTL DEF Spec, OperationsFenced

-----------------------------------------------------------------------------
\* Fleet exclusion.

\* An operation that activates no reservation preserves fleet exclusion.
LEMMA ShrinkExclusive ==
  ASSUME FleetExclusive, NoNewActive
  PROVE  FleetExclusive'
  <1> SUFFICES ASSUME NEW x \in Reservations, NEW y \in Reservations, x # y,
                      reservations'[x].status = "active", reservations'[y].status = "active"
               PROVE  /\ reservations'[x].host # reservations'[y].host
                      /\ TicketOf[reservations'[x].run] # TicketOf[reservations'[y].run]
    BY DEF FleetExclusive, ActiveReservations
  <1>1. x \in ActiveReservations /\ y \in ActiveReservations
    BY DEF NoNewActive, ActiveReservations
  <1> QED BY <1>1 DEF NoNewActive, FleetExclusive

\* reserve_cycle activates a reservation only on a free host for a free ticket.
LEMMA ReserveExclusive ==
  ASSUME IInv, FleetExclusive, NEW r \in Runs, NEW h \in Hosts, NEW x \in Reservations,
         NEW lag \in Lags, ReserveCycle(r, h, x, lag)
  PROVE  FleetExclusive'
  <1> DEFINE S == SweptReservations(lag)
             row == [status |-> "active", run |-> r, host |-> h, ttl |-> LeaseDuration - lag]
  <1>1. CASE reservations' = S
    <2>1. NoNewActive
      BY <1>1, SweptRows DEF NoNewActive
    <2> QED BY <2>1, ShrinkExclusive
  <1>2. CASE Reservable(r, h, lag) /\ reservations' = [S EXCEPT ![x] = row]
    <2>1. row.host = h /\ row.run = r
      OBVIOUS
    <2> HIDE DEF row
    <2>2. reservations'[x] = row /\ \A y \in Reservations \ {x} : reservations'[y] = S[y]
      BY <1>2, SweptRows
    <2>3. \A y \in Reservations : S[y].status = "active" =>
            /\ S[y] = reservations[y]
            /\ y \in ActiveReservations
            /\ reservations[y].host # h
            /\ TicketOf[reservations[y].run] # TicketOf[r]
      BY <1>2, SweptRows DEF Reservable, ActiveAfterSweep, ActiveForTicket, ActiveReservations
    <2> HIDE DEF S
    <2> SUFFICES ASSUME NEW y \in Reservations, NEW z \in Reservations, y # z,
                        reservations'[y].status = "active", reservations'[z].status = "active"
                 PROVE  /\ reservations'[y].host # reservations'[z].host
                        /\ TicketOf[reservations'[y].run] # TicketOf[reservations'[z].run]
      BY DEF FleetExclusive, ActiveReservations
    <2>4. CASE y = x
      BY <2>1, <2>2, <2>3, <2>4
    <2>5. CASE z = x
      BY <2>1, <2>2, <2>3, <2>5
    <2>6. CASE y # x /\ z # x
      BY <2>2, <2>3, <2>6 DEF FleetExclusive
    <2> QED BY <2>4, <2>5, <2>6
  <1> QED BY <1>1, <1>2 DEF ReserveCycle

\* The same pair of lemmas for the ceiling.
LEMMA ShrinkCapacity ==
  ASSUME FleetCapacity, NoNewActive
  PROVE  FleetCapacity'
  <1>1. ActiveReservations' \subseteq ActiveReservations
    BY DEF NoNewActive, ActiveReservations
  <1>2. ActiveReservations \subseteq Reservations
    BY DEF ActiveReservations
  <1>3. IsFiniteSet(Reservations) /\ MaxFleetSlots \in Nat
    BY StoreAssumption
  <1>4. IsFiniteSet(ActiveReservations)
    BY <1>2, <1>3, FS_Subset
  <1>5. /\ IsFiniteSet(ActiveReservations')
        /\ Cardinality(ActiveReservations') =< Cardinality(ActiveReservations)
    BY <1>1, <1>4, FS_Subset
  <1>6. Cardinality(ActiveReservations') \in Nat /\ Cardinality(ActiveReservations) \in Nat
    BY <1>4, <1>5, FS_CardinalityType
  <1> QED BY <1>3, <1>5, <1>6 DEF FleetCapacity

\* reserve_cycle activates a reservation only below the ceiling.
LEMMA ReserveCapacity ==
  ASSUME IInv, FleetCapacity, NEW r \in Runs, NEW h \in Hosts, NEW x \in Reservations,
         NEW lag \in Lags, ReserveCycle(r, h, x, lag)
  PROVE  FleetCapacity'
  <1> DEFINE S == SweptReservations(lag)
             row == [status |-> "active", run |-> r, host |-> h, ttl |-> LeaseDuration - lag]
             A == ActiveAfterSweep(lag)
  <1>1. CASE reservations' = S
    <2>1. NoNewActive
      BY <1>1, SweptRows DEF NoNewActive
    <2> QED BY <2>1, ShrinkCapacity
  <1>2. CASE Reservable(r, h, lag) /\ reservations' = [S EXCEPT ![x] = row]
    <2> HIDE DEF row
    <2>1. A \subseteq Reservations /\ Cardinality(A) < MaxFleetSlots
      BY <1>2 DEF Reservable, ActiveAfterSweep
    <2>2. ActiveReservations' \subseteq A \cup {x}
      BY <1>2, SweptRows DEF ActiveReservations, ActiveAfterSweep
    <2> HIDE DEF A
    <2>3. IsFiniteSet(A) /\ MaxFleetSlots \in Nat
      BY <2>1, StoreAssumption, FS_Subset
    <2>4. /\ IsFiniteSet(A \cup {x})
          /\ Cardinality(A \cup {x}) = IF x \in A THEN Cardinality(A) ELSE Cardinality(A) + 1
      BY <2>3, FS_AddElement
    <2>5. /\ IsFiniteSet(ActiveReservations')
          /\ Cardinality(ActiveReservations') =< Cardinality(A \cup {x})
      BY <2>2, <2>4, FS_Subset
    <2>6. Cardinality(ActiveReservations') \in Nat /\ Cardinality(A) \in Nat
      BY <2>3, <2>5, FS_CardinalityType
    <2>7. Cardinality(ActiveReservations') =< MaxFleetSlots
      BY <2>1, <2>3, <2>4, <2>5, <2>6
    <2> QED BY <2>7 DEF FleetCapacity
  <1> QED BY <1>1, <1>2 DEF ReserveCycle

\* Every step activates no reservation or is a reserve_cycle.
LEMMA FleetShape ==
  ASSUME IInv, [Next]_vars
  PROVE  \/ NoNewActive
         \/ \E lag \in Lags, r \in Runs, h \in Hosts, x \in Reservations :
              ReserveCycle(r, h, x, lag)
  <1> DEFINE Goal == \/ NoNewActive
                     \/ \E lag \in Lags, r \in Runs, h \in Hosts, x \in Reservations :
                          ReserveCycle(r, h, x, lag)
  <1>1. CASE UNCHANGED reservations
    BY <1>1 DEF NoNewActive
  <1>2. CASE Tick
    BY <1>2, TickQuiet
  <1>3. ASSUME NEW lag \in Lags, LeaseStep(lag) PROVE NoNewActive
    <2>1. \/ UNCHANGED reservations
          \/ \E w \in Workers, k \in Keys, l \in Leases,
               x \in Reservations \cup {NoReservation} : Claim(w, k, l, x, lag)
      BY <1>3 DEF LeaseStep, Accept, Heartbeat, RecordOperation, Finish, Reconcile
    <2>2. UNCHANGED reservations => NoNewActive
      BY DEF NoNewActive
    <2> QED BY <2>1, <2>2, ClaimClaims
  <1>4. ASSUME NEW lag \in Lags, RunStep(lag) PROVE NoNewActive
    <2>1. UNCHANGED reservations \/ \E r \in Runs : CancelRun(r, lag)
      BY <1>4 DEF RunStep, MaterializeSome, MaterializeResult, ResumeJob, AcceptDocumentary
    <2>2. ASSUME NEW r \in Runs, CancelRun(r, lag) PROVE NoNewActive
      <3>1. ASSUME NEW x \in Reservations
            PROVE  reservations'[x].status = "active" => reservations'[x] = reservations[x]
        <4>1. \/ reservations'[x] = Closed(reservations[x], "cancelled")
              \/ reservations'[x] = reservations[x]
          BY <2>2 DEF CancelRun
        <4>2. Closed(reservations[x], "cancelled").status = "cancelled"
          BY RowParts, ReservationRowEdits DEF ReservationStatuses, ReleaseStatuses
        <4> QED BY <4>1, <4>2
      <3> QED BY <3>1 DEF NoNewActive
    <2>3. UNCHANGED reservations => NoNewActive
      BY DEF NoNewActive
    <2> QED BY <2>1, <2>2, <2>3
  <1>5. ASSUME NEW lag \in Lags, FleetStep(lag) PROVE Goal
    BY <1>5, HeartbeatReservationQuiet, ReleaseReservationQuiet, DrainHostQuiet,
       RenewOpenRunReservationsQuiet, ReconcileFleetReservationsQuiet DEF FleetStep
  <1> QED BY <1>1, <1>2, <1>3, <1>4, <1>5 DEF Next, vars

\* At most one active cycle per host and per ticket (reserve_cycle against every
\* heartbeat, release, drain, renewal, expiry and cancellation).
THEOREM FleetSafety == Spec => []FleetExclusive
  <1>1. Init => FleetExclusive
    BY DEF Init, FleetExclusive, ActiveReservations, NoReservationRow
  <1>2. IInv /\ FleetExclusive /\ [Next]_vars => FleetExclusive'
    BY FleetShape, ShrinkExclusive, ReserveExclusive
  <1> QED BY <1>1, <1>2, Invariance, PTL DEF Spec

\* reserve_cycle's ceiling: never more than max_fleet_slots active reservations.
THEOREM FleetBounded == Spec => []FleetCapacity
  <1>1. Init => FleetCapacity
    <2> SUFFICES ASSUME Init PROVE FleetCapacity
      OBVIOUS
    <2>1. ActiveReservations = {}
      BY DEF Init, ActiveReservations, NoReservationRow
    <2>2. Cardinality({}) = 0
      BY FS_EmptySet
    <2> QED BY <2>1, <2>2, StoreAssumption DEF FleetCapacity
  <1>2. IInv /\ FleetCapacity /\ [Next]_vars => FleetCapacity'
    BY FleetShape, ShrinkCapacity, ReserveCapacity
  <1> QED BY <1>1, <1>2, Invariance, PTL DEF Spec

-----------------------------------------------------------------------------
\* The store implements StageLease.  The invariant and the shape of the steps carry the
\* proof: a claim is a Grant, record_operation an Act, and every other operation a
\* Withdraw, of no job perhaps.

\* The empty store owns, fences and has settled nothing.
LEMMA EmptyIsFree == Init => Leased!LeaseInit
<1> SUFFICES ASSUME Init PROVE Leased!LeaseInit
  OBVIOUS
<1>1. \A k \in Keys : jobs[k].status = "absent" /\ jobs[k].token = 0
  BY DEF Init, NoJob
<1>2. \A l \in Leases : claims[l].status = "absent"
  BY DEF Init, NoClaim
<1>3. Settled = {}
  BY <1>1 DEF Settled, SettledJobStatuses
<1> QED  BY <1>1, <1>2, <1>3 DEF Leased!LeaseInit, Init

\* A claim grants a free job to an unused lease under the next token.
LEMMA ClaimGrants ==
  ASSUME IInv, NEW key \in Keys, NEW l \in Leases, Claims(key, l)
  PROVE  Leased!Grant(key, l)
<1>1. /\ jobs[key].status = "pending" /\ claims[l].status = "absent"
      /\ jobs'[key].status = "running" /\ jobs'[key].lease = l
      /\ jobs'[key].token = jobs[key].token + 1
      /\ claims'[l].status = "active" /\ ops' = ops
      /\ \A k \in Keys \ {key} : jobs'[k] = jobs[k]
      /\ \A m \in Leases \ {l} : claims'[m] = claims[m]
  BY DEF Claims
<1>2. Settled' = Settled /\ key \notin Settled
  BY <1>1 DEF Settled, SettledJobStatuses
<1> QED  BY <1>1, <1>2, ZenonT(60) DEF Leased!Grant

\* record_operation acts for the owner of the job.
LEMMA RecordActs ==
  ASSUME IInv, NEW key \in Keys, Records(key)
  PROVE  Leased!Act(key)
<1>1. jobs[key].lease # NoLease
  BY StoreAssumption DEF Records, IInv, RunningIsLeased
<1> QED  BY <1>1 DEF Leased!Act, Records, Settled

\* Any other operation takes some jobs from their owners, and settles some.
LEMMA QuietWithdraws ==
  ASSUME IInv, Quiet, ops' = ops
  PROVE  Leased!Withdraw
<1>1. \A k \in Keys : Kept(k) \/ Rested(k)
  BY DEF Quiet, Loosens
<1>2. \A l \in Leases : claims[l].status = "absent" <=> claims'[l].status = "absent"
  BY DEF Quiet, Loosens, ClaimStays, ClaimCloses
<1>3. \A k \in Keys : jobs'[k].status \in Resting => jobs'[k].status # "running"
  BY DEF Resting
<1>4. Settled \subseteq Settled'
  BY <1>1 DEF Settled, Kept, Rested
<1>5. ASSUME NEW k \in Keys
      PROVE  /\ jobs'[k].status = "running" => /\ jobs[k].status = "running"
                                               /\ jobs'[k].lease = jobs[k].lease
                                               /\ jobs'[k].token = jobs[k].token
             /\ jobs'[k].token \in {jobs[k].token, jobs[k].token + 1}
             /\ k \in Settled' => jobs'[k].status # "running"
  BY <1>1, <1>3 DEF Kept, Rested, Settled, SettledJobStatuses
<1> QED  BY <1>2, <1>4, <1>5 DEF Leased!Withdraw

\* Every transaction of the store is a step of the leases, or none.
LEMMA StepLeases == IInv /\ [Next]_vars => [Leased!LeaseSteps]_(Leased!leaseState)
<1> SUFFICES ASSUME IInv, [Next]_vars PROVE [Leased!LeaseSteps]_(Leased!leaseState)
  OBVIOUS
<1>1. CASE Next
  <2>1. CASE Quiet
    <3>1. CASE ops' = ops
      BY <2>1, <3>1, QuietWithdraws DEF Leased!LeaseSteps
    <3>2. ASSUME NEW k \in Keys, Records(k) PROVE Leased!LeaseSteps
      BY <3>2, RecordActs DEF Leased!LeaseSteps
    <3> QED  BY <2>1, <3>1, <3>2 DEF Quiet
  <2>2. ASSUME NEW k \in Keys, NEW l \in Leases, Claims(k, l) PROVE Leased!LeaseSteps
    BY <2>2, ClaimGrants DEF Leased!LeaseSteps
  <2> QED  BY <1>1, <2>1, <2>2, StepShape
<1>2. CASE UNCHANGED vars
  BY <1>2 DEF vars, Leased!leaseState, Settled
<1> QED  BY <1>1, <1>2

\* The control store, whatever clients call in whatever order, implements the leases of
\* the stages.
THEOREM StoreImplements == Spec => StageLeases
  BY EmptyIsFree, StepLeases, Invariance, PTL DEF Spec, StageLeases, Leased!StageLeaseSpec
=============================================================================
