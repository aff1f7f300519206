---------------------------- MODULE SuiteProofs ------------------------------
(***************************************************************************)
(* Theorems about the services beside the engine: the circuit of the       *)
(* resilient model provider, and the remote test worker with its clients.  *)
(***************************************************************************)
EXTENDS RemoteSuite, ModelCircuit, FiniteSetTheorems, TLAPS

-----------------------------------------------------------------------------
(* The model circuit.                                                      *)

Breakers ==
  [state : {"closed", "open", "half_open"}, failures : Nat, since : Nat, trials : 0..HalfOpenTrials]

\* The probes that were let through and the trials that are left are never more than the
\* trials a half-open circuit starts with.
CircuitSound ==
  /\ circuit \in [local : Breakers, cloud : Breakers]
  /\ IsFiniteSet(probes)
  /\ ProbesBounded

\* What the circuit may become while the probes of its half-open period stay as they are.
Held(c, d) == d \in Breakers /\ (d.state = "half_open" => c.state = "half_open" /\ d.trials = c.trials)

\* What a failure writes.
LEMMA FailureWritten ==
  ASSUME NEW c \in Breakers, NEW n \in Nat, NEW now \in {"closed", "open"}
  PROVE  LET d == [c EXCEPT !.failures = n, !.since = 0, !.state = now]
         IN  d \in Breakers /\ d.state # "half_open"
BY DEF Breakers

\* A verdict, a reset and the clock leave a breaker well-formed; none of them opens the
\* door of a half-open circuit any further.
LEMMA VerdictsHold ==
  ASSUME NEW c \in Breakers
  PROVE  /\ Held(c, Capped(Succeeded(c))) /\ Held(c, Capped(Failed(c)))
         /\ Held(c, Closed) /\ Held(c, Older(c))
<1> USE CircuitAssumption DEF Breakers, Held
<1>1. Held(c, Capped(Succeeded(c)))
  BY DEF Capped, Succeeded
<1>2. Held(c, Capped(Failed(c)))
  <2> DEFINE n == c.failures + 1
             now == IF c.state = "half_open" \/ (c.state = "closed" /\ n >= FailureThreshold)
                    THEN "open" ELSE c.state
  <2>1. now \in {"closed", "open"} /\ n \in Nat
    OBVIOUS
  <2>2. Failed(c) = [c EXCEPT !.failures = n, !.since = 0, !.state = now]
    BY DEF Failed
  <2>3. Failed(c) \in Breakers /\ Failed(c).state # "half_open"
    BY <2>1, <2>2, FailureWritten, ZenonT(60)
  <2>4. Capped(Failed(c)) \in Breakers /\ Capped(Failed(c)).state = Failed(c).state
    BY <2>3 DEF Capped
  <2> QED BY <2>3, <2>4
<1>3. Held(c, Closed)
  BY DEF Closed
<1>4. Held(c, Older(c))
  BY DEF Older
<1> QED BY <1>1, <1>2, <1>3, <1>4

\* Looking at an open circuit whose recovery time is over half opens it with all its
\* trials; any other look changes nothing.
LEMMA LookingHalfOpens ==
  ASSUME NEW c \in Breakers
  PROVE  /\ Evaluated(c) \in Breakers
         /\ Evaluated(c) # c => /\ Evaluated(c).state = "half_open"
                                /\ Evaluated(c).trials = HalfOpenTrials
<1>1. CASE c.state = "open" /\ c.since >= RecoveryTime
  <2>1. Evaluated(c) = [c EXCEPT !.state = "half_open", !.trials = HalfOpenTrials]
    BY <1>1 DEF Evaluated
  <2>2. HalfOpenTrials \in 0..HalfOpenTrials
    BY CircuitAssumption
  <2> QED BY <2>1, <2>2 DEF Breakers
<1>2. CASE ~ (c.state = "open" /\ c.since >= RecoveryTime)
  BY <1>2 DEF Evaluated
<1> QED BY <1>1, <1>2

\* An admission takes a trial of a half-open circuit.
LEMMA AdmissionCounts ==
  ASSUME NEW c \in Breakers, Allows(c)
  PROVE  /\ Admitted(c) \in Breakers
         /\ Admitted(c).state = c.state
         /\ c.state = "half_open" => Admitted(c).trials = c.trials - 1
BY CircuitAssumption DEF Breakers, Allows, Admitted

\* A step that holds the local circuit and keeps the probes keeps the bound.
LEMMA HeldKeeps ==
  ASSUME CircuitSound, probes' = probes, circuit' \in [local : Breakers, cloud : Breakers],
         Held(circuit.local, circuit'.local)
  PROVE  CircuitSound'
BY DEF CircuitSound, ProbesBounded, Held

\* A request for a local model: the admission, its trial and its probe go together.
LEMMA AskingKeeps ==
  ASSUME CircuitSound, NEW t \in Threads, NEW fallback \in BOOLEAN, GenerateLocal(t, fallback)
  PROVE  CircuitSound'
<1> DEFINE c == Evaluated(circuit.local)
           d == IF Allows(c) THEN Admitted(c) ELSE c
<1>1. circuit.local \in Breakers /\ circuit.cloud \in Breakers
  BY DEF CircuitSound
<1>2. circuit' = [circuit EXCEPT !.local = d]
  BY DEF GenerateLocal
<1>3. c \in Breakers /\ d \in Breakers
  BY <1>1, LookingHalfOpens, AdmissionCounts
<1>4. circuit' \in [local : Breakers, cloud : Breakers] /\ circuit'.local = d
  BY <1>1, <1>2, <1>3 DEF CircuitSound
<1>5. CASE c # circuit.local
  <2>1. c.state = "half_open" /\ c.trials = HalfOpenTrials
    BY <1>1, <1>5, LookingHalfOpens
  <2>2. Allows(c)
    BY <2>1, CircuitAssumption DEF Allows
  <2>3. d.trials = HalfOpenTrials - 1
    BY <1>3, <2>1, <2>2, AdmissionCounts
  <2>4. probes' = {t}
    BY <1>5, <2>2 DEF GenerateLocal
  <2>5. IsFiniteSet(probes') /\ Cardinality(probes') = 1
    BY <2>4, FS_Singleton
  <2> QED BY <1>4, <2>3, <2>5, CircuitAssumption DEF CircuitSound, ProbesBounded
<1>6. CASE c = circuit.local /\ Allows(c)
  <2>1. probes' = probes \cup {t}
    BY <1>6 DEF GenerateLocal
  <2>2. /\ IsFiniteSet(probes') /\ Cardinality(probes) \in Nat
        /\ Cardinality(probes') = Cardinality(probes)
             \/ Cardinality(probes') = Cardinality(probes) + 1
    BY <2>1, FS_AddElement, FS_CardinalityType DEF CircuitSound
  <2>3. d.state = circuit.local.state /\ (d.state = "half_open" => d.trials = circuit.local.trials - 1)
    BY <1>3, <1>6, AdmissionCounts
  <2> QED BY <1>1, <1>4, <2>2, <2>3, CircuitAssumption DEF CircuitSound, ProbesBounded, Breakers
<1>7. CASE c = circuit.local /\ ~ Allows(c)
  <2>1. probes' = probes /\ d = circuit.local
    BY <1>7 DEF GenerateLocal
  <2> QED BY <1>3, <1>4, <2>1, HeldKeeps DEF Held
<1> QED BY <1>5, <1>6, <1>7

\* Every other step.
LEMMA CircuitStep ==
  ASSUME CircuitSound, [CircuitNext]_circuitVars
  PROVE  CircuitSound'
<1> DEFINE Both == [local : Breakers, cloud : Breakers]
<1>1. circuit \in Both /\ circuit.local \in Breakers /\ circuit.cloud \in Breakers
  BY DEF CircuitSound
<1>2. Held(circuit.local, circuit.local)
  BY <1>1 DEF Held
<1>3. CASE circuit' = circuit /\ probes' = probes
  BY <1>1, <1>2, <1>3, HeldKeeps
<1>4. CASE CircuitTick
  <2>1. circuit' = [circuit EXCEPT !.local = Older(circuit.local), !.cloud = Older(circuit.cloud)]
    BY <1>4 DEF CircuitTick
  <2>2. Held(circuit.local, Older(circuit.local)) /\ Held(circuit.cloud, Older(circuit.cloud))
    BY <1>1, VerdictsHold
  <2>3. circuit' \in Both /\ circuit'.local = Older(circuit.local)
    BY <1>1, <2>1, <2>2 DEF Held
  <2> QED BY <1>4, <2>2, <2>3, HeldKeeps DEF CircuitTick
<1>5. ASSUME NEW t \in Threads, NEW ok \in BOOLEAN, NEW fallback \in BOOLEAN, LocalReturns(t, ok, fallback)
      PROVE  CircuitSound'
  <2> DEFINE d == Capped(IF ok THEN Succeeded(circuit.local) ELSE Failed(circuit.local))
  <2>1. circuit' = [circuit EXCEPT !.local = d] /\ probes' = probes
    BY <1>5 DEF LocalReturns
  <2>2. Held(circuit.local, d)
    BY <1>1, VerdictsHold
  <2>3. circuit' \in Both /\ circuit'.local = d
    BY <1>1, <2>1, <2>2 DEF Held
  <2> QED BY <2>1, <2>2, <2>3, HeldKeeps
<1>6. ASSUME NEW t \in Threads, NEW result \in {"ok", "transient", "fatal"}, CloudReturns(t, result)
      PROVE  CircuitSound'
  <2> DEFINE d == Capped(IF result = "ok" THEN Succeeded(circuit.cloud) ELSE Failed(circuit.cloud))
  <2>1. (circuit' = [circuit EXCEPT !.cloud = d] \/ circuit' = circuit) /\ probes' = probes
    BY <1>6 DEF CloudReturns
  <2>2. Held(circuit.cloud, d)
    BY <1>1, VerdictsHold
  <2>3. circuit' \in Both /\ circuit'.local = circuit.local
    BY <1>1, <2>1, <2>2 DEF Held
  <2> QED BY <1>2, <2>1, <2>3, HeldKeeps
<1>7. ASSUME NEW which \in {"local", "cloud"}, Reset(which)
      PROVE  CircuitSound'
  <2>1. circuit' = [circuit EXCEPT ![which] = Closed] /\ probes' = probes
    BY <1>7 DEF Reset
  <2>2. Held(circuit.local, Closed) /\ Closed \in Breakers
    BY <1>1, VerdictsHold DEF Held
  <2>3. circuit' \in Both /\ circuit'.local \in {Closed, circuit.local}
    BY <1>1, <2>1, <2>2
  <2> QED BY <1>2, <2>1, <2>2, <2>3, HeldKeeps
<1>8. ASSUME ReadState("local")
      PROVE  CircuitSound'
  <2>1. /\ circuit' = [circuit EXCEPT !["local"] = Evaluated(circuit["local"])]
        /\ circuit' # circuit /\ probes' = {}
    BY <1>8 DEF ReadState
  <2> DEFINE d == Evaluated(circuit.local)
  <2>2. d \in Breakers /\ circuit' \in Both /\ circuit'.local = d
    BY <1>1, <2>1, LookingHalfOpens
  <2>3. d.trials \in 0..HalfOpenTrials
    BY <2>2 DEF Breakers
  <2> QED BY <2>1, <2>2, <2>3, FS_EmptySet, CircuitAssumption DEF CircuitSound, ProbesBounded
<1>9. ASSUME ReadState("cloud")
      PROVE  CircuitSound'
  <2>1. circuit' = [circuit EXCEPT !["cloud"] = Evaluated(circuit["cloud"])] /\ probes' = probes
    BY <1>9 DEF ReadState
  <2>2. Evaluated(circuit.cloud) \in Breakers
    BY <1>1, LookingHalfOpens
  <2>3. circuit' \in Both /\ circuit'.local = circuit.local
    BY <1>1, <2>1, <2>2
  <2> QED BY <1>2, <2>1, <2>3, HeldKeeps
<1> QED BY <1>3, <1>4, <1>5, <1>6, <1>7, <1>8, <1>9, AskingKeeps
        DEF CircuitNext, circuitVars, GenerateCloud, Interrupted, Returns, AsksLocal, DispatchCloudFallback

\* However verdicts of older requests, resets, looks and interrupted threads interleave,
\* a half-open circuit lets no more requests through than its trials (resilience.py,
\* CircuitBreaker.allow_request).
THEOREM ProbesCounted == CircuitSpec => []ProbesBounded
<1>1. CircuitInit => CircuitSound
  BY CircuitAssumption, FS_EmptySet DEF CircuitInit, CircuitSound, ProbesBounded, Closed, Breakers
<1>2. CircuitSound /\ [CircuitNext]_circuitVars => CircuitSound'
  BY CircuitStep
<1>3. CircuitSound => ProbesBounded
  BY DEF CircuitSound
<1> QED BY <1>1, <1>2, <1>3, PTL DEF CircuitSpec

-----------------------------------------------------------------------------
(* The remote worker.                                                      *)

Keys   == {KeyOf[c] : c \in Clients} \cup {"none"}
Ends   == {"none", "live", "killed", "pass", "fail"}
Codes  == {"none", "worker_restarted", "worker_setup_failed", "worker_signal_killed",
           "job_lost_on_worker"}
Moved  == {"running", "done", "failed", "cancelled"}
Shown  == {"none", "pass", "fail"}

Records ==
  [key : Keys, holdout : BOOLEAN, status : Moved \cup {"absent", "queued"}, code : Codes,
   flags : SUBSET {"cancel_requested", "interrupted", "stalled", "raced"}, child : BOOLEAN,
   result : Shown]

Calls ==
  [at : {"none", "set", "write"}, job : 0..JobCount, status : Moved \cup {"none"}, code : Codes,
   result : Shown, payload : Records]

Places == {"taken", "begun", "setup", "popen", "record", "wait", "stalled", "cleanup"}

ClientRecords ==
  [at : {"start", "submit", "fetched", "posted", "stream", "wait", "local", "resolved", "crashed"},
   job : 0..JobCount, retries : Nat, verdict : Shown]

Under(a, j) == call[a].at # "none" /\ call[a].job = j

Types ==
  /\ wjobs \in [JobNos -> Records] /\ disk \in [JobNos -> Records]
  /\ process \in [JobNos -> Ends] /\ closing \in SUBSET JobNos /\ queue \in Seq(JobNos)
  /\ daemon \in {"up", "restarting", "exiting", "down"} /\ submitted \in 0..JobCount
  /\ thread \in [at : {"idle"} \cup Places, job : 0..JobCount]
  /\ thread.at # "idle" => thread.job \in JobNos
  /\ call \in [Actors -> Calls]
  /\ \A a \in Actors : /\ call[a].at # "none" => call[a].job \in JobNos
                       /\ call[a].at = "set" => call[a].status # "none"
  /\ client \in [Clients -> ClientRecords]
  /\ \A c \in Clients : client[c].at \in {"posted", "stream", "wait"} => client[c].job \in JobNos

\* Where a job is: answered for, in the queue, or at a place of the thread.
Posted(c, j) == client[c].at = "posted" /\ client[c].job = j
Waits(j)     == \E n \in 1..Len(queue) : queue[n] = j
Doing(j)     == IF thread.at # "idle" /\ thread.job = j THEN thread.at ELSE "none"
Placed(j)    == Waits(j) \/ Doing(j) # "none" \/ \E c \in Clients : Posted(c, j)

QueueOnce == \A m, n \in 1..Len(queue) : m # n => queue[m] # queue[n]

Placing ==
  /\ QueueOnce
  /\ \A j \in JobNos :
       /\ Waits(j) => Doing(j) = "none"
       /\ \A c \in Clients : Posted(c, j) =>
            ~ Waits(j) /\ Doing(j) = "none" /\ \A d \in Clients : Posted(d, j) => d = c
       /\ Placed(j) /\ Doing(j) \notin {"record", "wait", "stalled", "cleanup"} => process[j] = "none"
       /\ Doing(j) \in {"record", "wait"} => process[j] # "none"
       /\ j > submitted => ~ Placed(j) /\ process[j] = "none"

\* A dead daemon holds nothing; before a job is submitted there is nothing of it.
Lives ==
  /\ ~ Serving => /\ queue = << >> /\ thread.at = "idle" /\ closing = {}
                  /\ \A a \in Actors : call[a].at = "none"
                  /\ \A j \in JobNos : wjobs[j] = NoJob
                  /\ \A c \in Clients : client[c].at # "posted"
  /\ \A j \in JobNos : j > submitted =>
       /\ wjobs[j] = NoJob /\ disk[j] = NoJob
       /\ \A a \in Actors : ~ Under(a, j)

Known(rec) == rec.status # "absent"

\* The key of a job is the same wherever it is; what is under way or in its place is known.
Keyed(j) ==
  /\ Serving /\ Known(disk[j]) => Known(wjobs[j]) /\ wjobs[j].key = disk[j].key
  /\ Placed(j) \/ j \in closing => Known(wjobs[j])
  /\ ~ Known(disk[j]) => disk[j].code = "none"
  /\ \A a \in Actors : Under(a, j) =>
       /\ Known(wjobs[j])
       /\ call[a].at = "write" => Known(call[a].payload) /\ call[a].payload.key = wjobs[j].key
  /\ Waits(j) \/ Doing(j) # "none" \/ process[j] # "none" => Known(disk[j])
  /\ \A c \in Clients : Posted(c, j) =>
       Known(disk[j]) \/ (Under(c, j) /\ call[c].at = "write")

Real(j, result) == result # "none" => process[j] = result

\* A result is the process's.
Resulted(j) ==
  /\ Real(j, wjobs[j].result) /\ Real(j, disk[j].result)
  /\ \A a \in Actors : Under(a, j) => Real(j, call[a].result) /\ Real(j, call[a].payload.result)

Flagged(j) == wjobs[j].flags \cap {"cancel_requested", "interrupted"} # {}

\* Why a call sets what it sets.
Calling ==
  /\ \A c \in Clients : call[c].at = "set" =>
       /\ "cancel_requested" \in wjobs[call[c].job].flags
       /\ call[c].status = "cancelled" /\ call[c].code = "none"
  /\ call["restart"].at = "set" =>
       /\ "interrupted" \in wjobs[call["restart"].job].flags
       /\ call["restart"].status = "failed" /\ call["restart"].code = "worker_restarted"
  /\ LET c == call["thread"] IN c.at = "set" =>
       /\ c.code # "worker_restarted"
       /\ \/ c.status = "running" /\ thread.at = "begun" /\ thread.job = c.job
          \/ c.status # "running" /\ thread.at \in {"stalled", "cleanup"} /\ thread.job = c.job
          \/ c.status # "running" /\ thread.at = "idle" /\ Flagged(c.job)

\* A job to be run is live, or marked.
Marked(j) ==
  Placed(j) /\ Doing(j) \notin {"stalled", "cleanup"} => Live(j) \/ Flagged(j)

\* A job closed by a restart that no call raced.
Kept(j) ==
  Serving /\ "raced" \notin wjobs[j].flags =>
    /\ wjobs[j].code = "worker_restarted" =>
         /\ Terminal(wjobs[j])
         /\ Placed(j) => "interrupted" \in wjobs[j].flags
         /\ \A a \in Actors : Under(a, j) =>
              /\ call[a].at = "write" /\ call[a].payload.code = "worker_restarted"
              /\ call[a].payload.status = wjobs[j].status
    /\ disk[j].code = "worker_restarted" =>
         wjobs[j].code = "worker_restarted" /\ wjobs[j].status = disk[j].status
    /\ \A a \in Actors : Under(a, j) /\ call[a].payload.code = "worker_restarted" =>
         wjobs[j].code = "worker_restarted"

Ran(key, verdict) == \E j \in JobNos : disk[j].key = key /\ process[j] = verdict

\* A client follows a job of its own key; a verdict, and a cached pass, is a suite's.
ClientSound ==
  /\ \A c \in Clients : client[c].at \in {"posted", "stream", "wait"} =>
       /\ client[c].job =< submitted
       /\ Known(wjobs[client[c].job]) => wjobs[client[c].job].key = KeyOf[c]
       /\ Known(disk[client[c].job]) => disk[client[c].job].key = KeyOf[c]
  /\ \A c \in Clients : client[c].verdict # "none" => Ran(KeyOf[c], client[c].verdict)
  /\ \A v \in cache : Ran(v[1], "pass")

RemoteSound ==
  /\ Types /\ Placing /\ Lives /\ (\A j \in JobNos : Keyed(j) /\ Resulted(j))
  /\ Calling /\ (\A j \in JobNos : Marked(j) /\ Kept(j)) /\ SharedRun /\ ClientSound

-----------------------------------------------------------------------------
(* What the helpers leave.                                                 *)

LEMMA NoJobTyped == NoJob \in Records /\ NoCall \in Calls /\ Record(NoJob) = NoJob
<1>1. NoJob \in Records /\ Record(NoJob) = NoJob
  BY DEF NoJob, Records, Keys, Record, Moved, Codes, Shown
<1>2. NoCall \in Calls
  BY <1>1, RemoteAssumption DEF NoCall, Calls, Shown, Codes
<1> QED BY <1>1, <1>2

LEMMA RecordTyped ==
  ASSUME NEW rec \in Records
  PROVE  /\ Record(rec) \in Records /\ Record(rec).flags = {}
         /\ Record(rec).key = rec.key /\ Record(rec).status = rec.status
         /\ Record(rec).code = rec.code /\ Record(rec).result = rec.result
BY DEF Records, Record

\* A record with other flags.
LEMMA FlagsTyped ==
  ASSUME NEW rec \in Records,
         NEW flags \in SUBSET {"cancel_requested", "interrupted", "stalled", "raced"}
  PROVE  LET new == [rec EXCEPT !.flags = @ \cup flags] IN
         /\ new \in Records /\ new.flags = rec.flags \cup flags
         /\ new.key = rec.key /\ new.status = rec.status
         /\ new.code = rec.code /\ new.result = rec.result
BY DEF Records

LEMMA PassedTyped ==
  ASSUME NEW rec \in Records, NEW c \in Calls, c.status # "none"
  PROVE  LET new == Passed(rec, c) IN
         /\ new \in Records /\ new.key = rec.key /\ new.flags = rec.flags
         /\ new.status = c.status
         /\ new.code = IF c.code = "none" THEN rec.code ELSE c.code
         /\ new.result = IF c.result = "none" THEN rec.result ELSE c.result
<1> DEFINE status == c.status
           code == IF c.code = "none" THEN rec.code ELSE c.code
           result == IF c.result = "none" THEN rec.result ELSE c.result
           new == [rec EXCEPT !.status = status, !.code = code, !.result = result]
<1>1. status \in Moved /\ code \in Codes /\ result \in Shown
  BY DEF Records, Calls
<1>2. Passed(rec, c) = new
  BY DEF Passed, Records
<1> HIDE DEF status, code, result
<1>3. /\ new \in Records /\ new.key = rec.key /\ new.flags = rec.flags
      /\ new.status = status /\ new.code = code /\ new.result = result
  BY <1>1 DEF Records
<1> QED BY <1>2, <1>3 DEF status, code, result

\* A call of a begins, past its check; a call of a goes to write.
Sets(a, j, status, code, result) ==
  /\ call' \in [Actors -> Calls]
  /\ \A b \in Actors : b # a => call'[b] = call[b]
  /\ call'[a].at = "set" /\ call'[a].job = j /\ call'[a].status = status
  /\ call'[a].code = code /\ call'[a].result = result /\ call'[a].payload = NoJob

Wrote(a, j, rec, status) ==
  /\ wjobs' \in [JobNos -> Records] /\ wjobs'[j] = rec
  /\ \A i \in JobNos : i # j => wjobs'[i] = wjobs[i]
  /\ call' \in [Actors -> Calls]
  /\ \A b \in Actors : b # a => call'[b] = call[b]
  /\ call'[a].at = "write" /\ call'[a].job = j /\ call'[a].status = status
  /\ call'[a].code = "none" /\ call'[a].result = "none" /\ call'[a].payload = Record(rec)

LEMMA SetStatusSets ==
  ASSUME Types, NEW a \in Actors, NEW js, NEW j \in JobNos,
         NEW status \in Moved, NEW code \in Codes, NEW result \in Shown,
         SetStatus(a, js, j, status, code, result)
  PROVE  \/ call' = call
         \/ ~ ("interrupted" \in js[j].flags /\ Terminal(js[j])) /\ Sets(a, j, status, code, result)
<1> DEFINE new == [NoCall EXCEPT !.at = "set", !.job = j, !.status = status, !.code = code,
                                 !.result = result]
<1>1. new \in Calls /\ new.at = "set" /\ new.job = j /\ new.status = status /\ new.code = code
      /\ new.result = result /\ new.payload = NoJob
  <2>1. NoCall \in Calls /\ j \in 0..JobCount /\ NoCall.payload = NoJob
    BY NoJobTyped, RemoteAssumption DEF NoCall, JobNos
  <2> QED BY <2>1 DEF Calls
<1>2. call' = call \/ (~ ("interrupted" \in js[j].flags /\ Terminal(js[j]))
                       /\ call' = [call EXCEPT ![a] = new])
  BY DEF SetStatus
<1> HIDE DEF new
<1> QED BY <1>1, <1>2 DEF Types, Sets

LEMMA PersistsWrote ==
  ASSUME Types, NEW a \in Actors, NEW j \in JobNos, NEW rec \in Records,
         NEW status \in Moved \cup {"none"}, Persists(a, j, rec, status)
  PROVE  Wrote(a, j, rec, status)
<1> DEFINE new == [NoCall EXCEPT !.at = "write", !.job = j, !.status = status, !.payload = Record(rec)]
<1>1. new \in Calls /\ new.at = "write" /\ new.job = j /\ new.status = status /\ new.code = "none"
      /\ new.result = "none" /\ new.payload = Record(rec)
  <2>1. /\ NoCall \in Calls /\ j \in 0..JobCount /\ Record(rec) \in Records
        /\ NoCall.code = "none" /\ NoCall.result = "none"
    BY NoJobTyped, RecordTyped, RemoteAssumption DEF NoCall, JobNos
  <2> QED BY <2>1 DEF Calls
<1>2. wjobs' = [wjobs EXCEPT ![j] = rec] /\ call' = [call EXCEPT ![a] = new]
  BY DEF Persists
<1> HIDE DEF new
<1> QED BY <1>1, <1>2 DEF Types, Wrote

\* What a kill leaves of the processes.
LEMMA KilledLeaves ==
  ASSUME Types, NEW js
  PROVE  /\ Killed(js) \in [JobNos -> Ends]
         /\ \A j \in JobNos : Killed(js)[j] = IF j \in js /\ process[j] = "live" THEN "killed"
                                              ELSE process[j]
BY DEF Types, Killed, Ends

-----------------------------------------------------------------------------
(* The moves of a client.                                                  *)

\* A client goes on with the job it has, or with a live job of its key; what it reports
\* was run.
ClientMoved(c) ==
  /\ client' \in [Clients -> ClientRecords]
  /\ \A d \in Clients : d # c => client'[d] = client[d]
  /\ client'[c].at # "posted"
  /\ client'[c].at \in {"stream", "wait"} =>
       \/ client[c].at \in {"posted", "stream", "wait"} /\ client'[c].job = client[c].job
       \/ client'[c].job \in LiveJobs(KeyOf[c])
  /\ \/ client'[c].verdict \in {"none", client[c].verdict}
     \/ client'[c].verdict \in {"pass", "fail"} /\ Ran(KeyOf[c], client'[c].verdict)

LEMMA MovesMoved ==
  ASSUME Types, NEW c \in Clients,
         NEW at \in {"submit", "fetched", "stream", "wait"},
         at \in {"stream", "wait"} => client[c].at \in {"posted", "stream", "wait"},
         Moves(c, at)
  PROVE  ClientMoved(c)
<1>1. PICK old \in ClientRecords : old = client[c]
  BY DEF Types
<1> DEFINE new == [old EXCEPT !.at = at]
<1>2. new \in ClientRecords /\ new.at = at /\ new.job = old.job /\ new.verdict = old.verdict
  BY DEF ClientRecords
<1>3. client' = [client EXCEPT ![c] = new]
  BY <1>1 DEF Moves, Types
<1> HIDE DEF new
<1> QED BY <1>1, <1>2, <1>3 DEF ClientMoved, Types

LEMMA NewClientTyped ==
  /\ NewClient \in ClientRecords /\ NewClient.verdict = "none" /\ NewClient.at = "start"
  /\ NewClient.job = 0
BY RemoteAssumption DEF NewClient, ClientRecords, Shown

LEMMA LeavesMoved ==
  ASSUME Types, NEW c \in Clients, NEW at \in {"local", "crashed"}, Leaves(c, at)
  PROVE  ClientMoved(c)
<1> DEFINE new == [NewClient EXCEPT !.at = at]
<1>1. new \in ClientRecords /\ new.at = at /\ new.verdict = "none"
  BY NewClientTyped DEF ClientRecords
<1>2. client' = [client EXCEPT ![c] = new]
  BY DEF Leaves
<1> HIDE DEF new
<1> QED BY <1>1, <1>2 DEF ClientMoved, Types

LEMMA ResolvesMoved ==
  ASSUME Types, NEW c \in Clients, NEW verdict \in {"pass", "fail"}, Ran(KeyOf[c], verdict),
         Resolves(c, verdict)
  PROVE  ClientMoved(c)
<1> DEFINE new == [NewClient EXCEPT !.at = "resolved", !.verdict = verdict]
<1>1. new \in ClientRecords /\ new.at = "resolved" /\ new.verdict = verdict
  BY NewClientTyped DEF ClientRecords, Shown
<1>2. client' = [client EXCEPT ![c] = new]
  BY DEF Resolves
<1> HIDE DEF new
<1> QED BY <1>1, <1>2 DEF ClientMoved, Types

LEMMA LostMoved ==
  ASSUME Types, NEW c \in Clients, NEW code, client[c].at = "stream", Lost(c, code)
  PROVE  ClientMoved(c)
<1>1. CASE Leaves(c, "local")
  BY <1>1, LeavesMoved
<1>2. CASE client' = [client EXCEPT ![c].at = "wait", ![c].retries = @ + 1]
  <2>1. PICK old \in ClientRecords : old = client[c]
    BY DEF Types
  <2>a. PICK n \in Nat : n = old.retries + 1
    BY <2>1 DEF ClientRecords
  <2> DEFINE new == [old EXCEPT !.at = "wait", !.retries = n]
  <2>2. new \in ClientRecords /\ new.at = "wait" /\ new.job = old.job /\ new.verdict = old.verdict
    BY DEF ClientRecords
  <2>3. client' = [client EXCEPT ![c] = new]
    BY <1>2, <2>a, <2>1 DEF Types
  <2> HIDE DEF new
  <2> QED BY <2>1, <2>2, <2>3 DEF ClientMoved, Types
<1> QED BY <1>1, <1>2 DEF Lost

LEMMA StreamsMoved ==
  ASSUME Types, NEW c \in Clients, NEW j \in LiveJobs(KeyOf[c]), Streams(c, j)
  PROVE  ClientMoved(c)
<1>1. PICK old \in ClientRecords : old = client[c]
  BY DEF Types
<1>2. j \in 0..JobCount
  BY RemoteAssumption DEF LiveJobs, JobNos
<1> DEFINE new == [old EXCEPT !.at = "stream", !.job = j]
<1>3. new \in ClientRecords /\ new.at = "stream" /\ new.job = j /\ new.verdict = old.verdict
  BY <1>2 DEF ClientRecords
<1>4. client' = [client EXCEPT ![c] = new]
  BY <1>1 DEF Streams, Types
<1> HIDE DEF new
<1> QED BY <1>1, <1>3, <1>4 DEF ClientMoved, Types

\* What a move of a client keeps of the types.
LEMMA MovedTyped ==
  ASSUME Types, NEW c \in Clients, ClientMoved(c)
  PROVE  /\ client' \in [Clients -> ClientRecords]
         /\ \A d \in Clients : client'[d].at \in {"posted", "stream", "wait"} =>
              client'[d].job \in JobNos
         /\ \A d \in Clients, j \in JobNos : Posted(d, j)' => Posted(d, j) /\ d # c
         /\ \A d \in Clients, j \in JobNos : Posted(d, j) /\ d # c => Posted(d, j)'
BY DEF Types, ClientMoved, LiveJobs, Posted

-----------------------------------------------------------------------------
(* The steps that write no record and submit nothing.                      *)

\* A job may get a flag, a process may start or end.
JobsTurn ==
  /\ wjobs' \in [JobNos -> Records] /\ process' \in [JobNos -> Ends]
  /\ disk' = disk /\ submitted' = submitted /\ (Serving' <=> Serving)
  /\ \A j \in JobNos :
       /\ wjobs'[j] # wjobs[j] => Known(wjobs[j])
       /\ wjobs'[j].key = wjobs[j].key /\ wjobs'[j].status = wjobs[j].status
       /\ wjobs'[j].code = wjobs[j].code /\ wjobs'[j].result = wjobs[j].result
       /\ wjobs[j].flags \subseteq wjobs'[j].flags
       /\ "raced" \in wjobs'[j].flags => "raced" \in wjobs[j].flags
       /\ \/ process'[j] = process[j]
          \/ process[j] = "live" /\ process'[j] \in {"killed", "pass", "fail"}
          \/ Doing(j) = "popen" /\ process'[j] = "live"

\* A call begins past its check, for its reason.
Begun(a) ==
  LET c == call'[a] IN
  /\ c.at = "set" /\ c.status # "none" /\ c.payload = NoJob /\ Serving
  /\ c.job \in JobNos /\ Known(wjobs[c.job])
  /\ ~ ("interrupted" \in wjobs'[c.job].flags /\ Terminal(wjobs[c.job]))
  /\ c.result # "none" => process'[c.job] = c.result
  /\ a \in Clients => "cancel_requested" \in wjobs'[c.job].flags /\ c.status = "cancelled"
                      /\ c.code = "none" /\ wjobs[c.job].status = "queued"
  /\ a = "restart" => /\ "interrupted" \in wjobs'[c.job].flags
                      /\ c.status = "failed" /\ c.code = "worker_restarted"
  /\ a = "thread" =>
       /\ c.code # "worker_restarted"
       /\ \/ c.status = "running" /\ thread'.at = "begun" /\ thread'.job = c.job
          \/ c.status # "running" /\ thread'.at \in {"stalled", "cleanup"} /\ thread'.job = c.job
          \/ c.status # "running" /\ thread'.at = "idle"
             /\ wjobs'[c.job].flags \cap {"cancel_requested", "interrupted"} # {}
       /\ Placed(c.job)

CallsTurn ==
  /\ call' \in [Actors -> Calls]
  /\ \A a \in Actors : call'[a] = call[a] \/ Begun(a)

\* A job goes on to its next place, or leaves.
PlaceTurn ==
  /\ queue' \in Seq(JobNos) /\ QueueOnce'
  /\ thread' \in [at : {"idle"} \cup Places, job : 0..JobCount]
  /\ thread'.at # "idle" => thread'.job \in JobNos
  /\ thread' = thread \/ call["thread"].at = "none"
  /\ \A j \in JobNos :
       /\ Placed(j)' => Placed(j)
       /\ Placed(j)' /\ Doing(j)' \notin {"stalled", "cleanup"} => Doing(j) \notin {"stalled", "cleanup"}
       /\ Waits(j)' \/ Doing(j)' # "none" =>
            \/ Waits(j) \/ Doing(j) # "none"
            \/ \E c \in Clients : Posted(c, j) /\ call[c].at = "none"
       /\ \A c \in Clients : Posted(c, j)' => Posted(c, j) /\ call'[c] = call[c]
       /\ Waits(j)' => Doing(j)' = "none"
       /\ \A c \in Clients : Posted(c, j)' => ~ Waits(j)' /\ Doing(j)' = "none"
       /\ Placed(j)' /\ Doing(j)' \in {"none", "taken", "begun", "setup", "popen"} =>
            Doing(j) \in {"none", "taken", "begun", "setup"} \/ (Doing(j) = "popen" /\ process'[j] = process[j])
       /\ Doing(j)' \in {"record", "wait"} =>
            Doing(j) \in {"record", "wait"} \/ (Doing(j) = "popen" /\ process'[j] = "live")

ClosingTurn ==
  /\ closing' \in SUBSET JobNos /\ daemon' \in {"up", "restarting", "exiting", "down"}
  /\ \A j \in JobNos : j \in closing' => j \in closing \/ Live(j)
  /\ ~ Serving => closing' = {} /\ queue' = << >> /\ thread'.at = "idle"

Turn ==
  /\ JobsTurn /\ CallsTurn /\ PlaceTurn /\ ClosingTurn
  /\ client' = client \/ \E c \in Clients : ClientMoved(c)

\* Turns keep the types, the places and the lives of the jobs.
LEMMA TurnPlaces ==
  ASSUME Types, Placing, Lives, \A j \in JobNos : Keyed(j), Turn
  PROVE  Types' /\ Placing' /\ Lives'
<1>1. Types'
  <2>1. \A d \in Clients : client'[d].at \in {"posted", "stream", "wait"} => client'[d].job \in JobNos
    BY MovedTyped DEF Turn, Types
  <2>2. client' \in [Clients -> ClientRecords]
    BY MovedTyped DEF Turn, Types
  <2>3. \A a \in Actors : /\ call'[a].at # "none" => call'[a].job \in JobNos
                          /\ call'[a].at = "set" => call'[a].status # "none"
    BY DEF Turn, CallsTurn, Begun, Types
  <2> QED BY <2>1, <2>2, <2>3 DEF Turn, JobsTurn, CallsTurn, PlaceTurn, ClosingTurn, Types
<1>2. Placing'
  <2> SUFFICES ASSUME NEW j \in JobNos
               PROVE  /\ Waits(j)' => Doing(j)' = "none"
                      /\ \A c \in Clients : Posted(c, j)' =>
                           ~ Waits(j)' /\ Doing(j)' = "none" /\ \A d \in Clients : Posted(d, j)' => d = c
                      /\ Placed(j)' /\ Doing(j)' \notin {"record", "wait", "stalled", "cleanup"} =>
                           process'[j] = "none"
                      /\ Doing(j)' \in {"record", "wait"} => process'[j] # "none"
                      /\ j > submitted' => ~ Placed(j)' /\ process'[j] = "none"
    BY DEF Turn, PlaceTurn, Placing
  <2>1. /\ Waits(j)' => Doing(j)' = "none"
        /\ \A c \in Clients : Posted(c, j)' =>
             ~ Waits(j)' /\ Doing(j)' = "none" /\ \A d \in Clients : Posted(d, j)' => d = c
    BY DEF Turn, PlaceTurn, Placing
  <2>2. Doing(j) = "none" \/ Doing(j) \in Places
    BY DEF Doing, Types
  <2>3. Doing(j)' = "none" \/ Doing(j)' \in Places
    BY <1>1 DEF Doing, Types
  <2>4. ASSUME Placed(j)', Doing(j)' \notin {"record", "wait", "stalled", "cleanup"}
        PROVE  process'[j] = "none"
    <3>1. Placed(j) /\ (Doing(j) \in {"none", "taken", "begun", "setup"} \/ (Doing(j) = "popen" /\ process'[j] = process[j]))
      BY <2>3, <2>4 DEF Turn, PlaceTurn, Places
    <3>2. process[j] = "none"
      BY <3>1 DEF Placing
    <3> QED BY <3>1, <3>2 DEF Turn, JobsTurn
  <2>5. ASSUME Doing(j)' \in {"record", "wait"}
        PROVE  process'[j] # "none"
    <3>1. Doing(j) \in {"record", "wait"} \/ (Doing(j) = "popen" /\ process'[j] = "live")
      BY <2>5 DEF Turn, PlaceTurn
    <3>2. Doing(j) \in {"record", "wait"} => process[j] # "none"
      BY DEF Placing
    <3> QED BY <3>1, <3>2 DEF Turn, JobsTurn
  <2>6. ASSUME j > submitted'
        PROVE  ~ Placed(j)' /\ process'[j] = "none"
    <3>1. ~ Placed(j) /\ process[j] = "none" /\ Doing(j) = "none"
      BY <2>6 DEF Turn, JobsTurn, Placing, Placed
    <3> QED BY <3>1 DEF Turn, PlaceTurn, JobsTurn
  <2> QED BY <2>1, <2>4, <2>5, <2>6
<1>3. Lives'
  <2>1. ASSUME ~ Serving'
        PROVE  /\ queue' = << >> /\ thread'.at = "idle" /\ closing' = {}
               /\ \A a \in Actors : call'[a].at = "none"
               /\ \A j \in JobNos : wjobs'[j] = NoJob
               /\ \A c \in Clients : client'[c].at # "posted"
    <3>1. ~ Serving
      BY <2>1 DEF Turn, JobsTurn
    <3>2. \A a \in Actors : call'[a].at = "none"
      BY <3>1 DEF Turn, CallsTurn, Begun, Lives
    <3>3. \A j \in JobNos : wjobs'[j] = NoJob
      BY <3>1 DEF Turn, JobsTurn, Lives, Known, NoJob
    <3>4. \A c \in Clients : client'[c].at # "posted"
      BY <3>1 DEF Turn, ClientMoved, Lives
    <3> QED BY <3>1, <3>2, <3>3, <3>4 DEF Turn, ClosingTurn, Lives
  <2>2. ASSUME NEW j \in JobNos, j > submitted'
        PROVE  /\ wjobs'[j] = NoJob /\ disk'[j] = NoJob
               /\ \A a \in Actors : ~ Under(a, j)'
    <3>1. /\ wjobs[j] = NoJob /\ disk[j] = NoJob
          /\ \A a \in Actors : ~ Under(a, j)
      BY <2>2 DEF Turn, JobsTurn, Lives
    <3>2. ~ Known(wjobs[j])
      BY <3>1 DEF Known, NoJob
    <3> QED BY <3>1, <3>2 DEF Turn, JobsTurn, CallsTurn, Begun, Under
  <2> QED BY <2>1, <2>2 DEF Lives
<1> QED BY <1>1, <1>2, <1>3

\* What was run stays run, and a job keeps its key.
Remembers ==
  /\ \A key, verdict : verdict \in {"pass", "fail"} /\ Ran(key, verdict) => Ran(key, verdict)'
  /\ submitted =< submitted'

LEMMA EndsStay ==
  ASSUME Types, \A j \in JobNos : Keyed(j), submitted' \in 0..JobCount, submitted =< submitted',
         \A j \in JobNos : Known(disk[j]) => disk'[j].key = disk[j].key,
         \A j \in JobNos : process[j] \in {"pass", "fail"} => process'[j] = process[j]
  PROVE  Remembers
BY DEF Remembers, Ran, Keyed

LEMMA TurnRemembers ==
  ASSUME Types, Placing, \A j \in JobNos : Keyed(j), Turn
  PROVE  Remembers
<1>1. \A j \in JobNos : process[j] \in {"pass", "fail"} => process'[j] = process[j]
  <2> SUFFICES ASSUME NEW j \in JobNos, process[j] \in {"pass", "fail"} PROVE process'[j] = process[j]
    OBVIOUS
  <2>1. Doing(j) = "popen" => process[j] = "none"
    BY DEF Placing, Placed
  <2> QED BY <2>1 DEF Turn, JobsTurn
<1> QED BY <1>1, EndsStay DEF Turn, JobsTurn, Types

LEMMA TurnKeyed ==
  ASSUME Types, Placing, Lives, Turn, Types', \A i \in JobNos : Keyed(i), NEW j \in JobNos
  PROVE  Keyed(j)'
<1>1. Keyed(j) /\ JobsTurn /\ CallsTurn /\ PlaceTurn /\ ClosingTurn
  BY DEF Turn
<1>2. (Known(wjobs'[j]) <=> Known(wjobs[j])) /\ (Known(disk'[j]) <=> Known(disk[j]))
  BY <1>1 DEF JobsTurn, Known
<1>3. Serving' /\ Known(disk'[j]) => Known(wjobs'[j]) /\ wjobs'[j].key = disk'[j].key
  BY <1>1, <1>2 DEF Keyed, JobsTurn
<1>4. Placed(j)' \/ j \in closing' => Known(wjobs'[j])
  <2>1. Live(j) => Known(wjobs[j])
    BY DEF Live, Known
  <2> QED BY <1>1, <1>2, <2>1 DEF Keyed, PlaceTurn, ClosingTurn
<1>5. ~ Known(disk'[j]) => disk'[j].code = "none"
  BY <1>1, <1>2 DEF Keyed, JobsTurn
<1>6. ASSUME NEW a \in Actors, Under(a, j)'
      PROVE  /\ Known(wjobs'[j])
             /\ call'[a].at = "write" => Known(call'[a].payload) /\ call'[a].payload.key = wjobs'[j].key
  <2>1. CASE call'[a] = call[a]
    BY <1>1, <1>2, <1>6, <2>1 DEF Keyed, JobsTurn, Under
  <2>2. CASE Begun(a)
    BY <1>2, <1>6, <2>2 DEF Begun, Under
  <2> QED BY <1>1, <2>1, <2>2 DEF CallsTurn
<1>7. ASSUME Waits(j)' \/ Doing(j)' # "none" \/ process'[j] # "none"
      PROVE  Known(disk'[j])
  <2>1. CASE Waits(j) \/ Doing(j) # "none" \/ process[j] # "none"
    BY <1>1, <1>2, <2>1 DEF Keyed
  <2>2. ASSUME NEW c \in Clients, Posted(c, j), call[c].at = "none"
        PROVE  Known(disk'[j])
    BY <1>1, <1>2, <2>2 DEF Keyed, Under
  <2>3. process'[j] # "none" => process[j] # "none" \/ Doing(j) # "none"
    BY <1>1 DEF JobsTurn
  <2> QED BY <1>1, <1>7, <2>1, <2>2, <2>3 DEF PlaceTurn
<1>8. ASSUME NEW c \in Clients, Posted(c, j)'
      PROVE  Known(disk'[j]) \/ (Under(c, j)' /\ call'[c].at = "write")
  BY <1>1, <1>2, <1>8 DEF Keyed, PlaceTurn, Under
<1> QED BY <1>3, <1>4, <1>5, <1>6, <1>7, <1>8 DEF Keyed

LEMMA TurnResulted ==
  ASSUME Types, Placing, Turn, NEW j \in JobNos, Resulted(j)
  PROVE  Resulted(j)'
<1>1. JobsTurn /\ CallsTurn
  BY DEF Turn
<1>2. ASSUME NEW r \in Shown, Real(j, r)
      PROVE  Real(j, r)'
  <2>1. Doing(j) = "popen" => process[j] = "none"
    BY DEF Placing, Placed
  <2>2. r # "none" => process[j] \in {"pass", "fail"}
    BY <1>2 DEF Real, Shown
  <2> QED BY <1>1, <1>2, <2>1, <2>2 DEF Real, JobsTurn
<1>3. wjobs[j].result \in Shown /\ disk[j].result \in Shown
  BY DEF Types, Records
<1>4. Real(j, wjobs[j].result)' /\ Real(j, disk[j].result)'
  <2>1. wjobs'[j].result = wjobs[j].result /\ disk'[j].result = disk[j].result
    BY <1>1 DEF JobsTurn
  <2>2. Real(j, wjobs[j].result) /\ Real(j, disk[j].result)
    BY DEF Resulted
  <2> QED BY <1>1, <1>2, <1>3, <2>1, <2>2 DEF Real
<1>5. ASSUME NEW a \in Actors, Under(a, j)'
      PROVE  Real(j, call[a].result)' /\ Real(j, call[a].payload.result)'
  <2>1. CASE call'[a] = call[a]
    <3>1. call[a].result \in Shown /\ call[a].payload.result \in Shown
      BY DEF Types, Calls, Records
    <3>2. Real(j, call[a].result) /\ Real(j, call[a].payload.result)
      BY <1>5, <2>1 DEF Resulted, Under
    <3> QED BY <1>2, <2>1, <3>1, <3>2 DEF Real
  <2>2. CASE Begun(a)
    BY <1>5, <2>2 DEF Begun, Under, Real, NoJob
  <2> QED BY <1>1, <2>1, <2>2 DEF CallsTurn
<1> QED BY <1>4, <1>5 DEF Resulted

LEMMA TurnCalling ==
  ASSUME Types, Turn, Calling
  PROVE  Calling'
<1>1. JobsTurn /\ CallsTurn /\ PlaceTurn
  BY DEF Turn
<1>2. \A j \in JobNos : wjobs[j].flags \subseteq wjobs'[j].flags /\ (Flagged(j) => Flagged(j)')
  BY <1>1 DEF JobsTurn, Flagged
<1>3. \A a \in Actors : call[a].at = "set" => call[a].job \in JobNos
  BY DEF Types
<1>4. ASSUME NEW c \in Clients, call'[c].at = "set"
      PROVE  /\ "cancel_requested" \in wjobs'[call'[c].job].flags
             /\ call'[c].status = "cancelled" /\ call'[c].code = "none"
  <2>1. c \in Actors
    BY DEF Actors
  <2>2. CASE call'[c] = call[c]
    BY <1>2, <1>3, <1>4, <2>1, <2>2 DEF Calling
  <2>3. CASE Begun(c)
    BY <2>3 DEF Begun
  <2> QED BY <1>1, <2>1, <2>2, <2>3 DEF CallsTurn
<1>5. ASSUME call'["restart"].at = "set"
      PROVE  /\ "interrupted" \in wjobs'[call'["restart"].job].flags
             /\ call'["restart"].status = "failed" /\ call'["restart"].code = "worker_restarted"
  <2>1. "restart" \in Actors
    BY DEF Actors
  <2>2. CASE call'["restart"] = call["restart"]
    BY <1>2, <1>3, <1>5, <2>1, <2>2 DEF Calling
  <2>3. CASE Begun("restart")
    BY <2>3 DEF Begun
  <2> QED BY <1>1, <2>1, <2>2, <2>3 DEF CallsTurn
<1>6. ASSUME call'["thread"].at = "set"
      PROVE  LET c == call'["thread"] IN
             /\ c.code # "worker_restarted"
             /\ \/ c.status = "running" /\ thread'.at = "begun" /\ thread'.job = c.job
                \/ c.status # "running" /\ thread'.at \in {"stalled", "cleanup"} /\ thread'.job = c.job
                \/ /\ c.status # "running" /\ thread'.at = "idle"
                   /\ wjobs'[c.job].flags \cap {"cancel_requested", "interrupted"} # {}
  <2>1. "thread" \in Actors
    BY DEF Actors
  <2>2. CASE call'["thread"] = call["thread"]
    <3>1. thread' = thread
      BY <1>1, <1>6, <2>2 DEF PlaceTurn
    <3> QED BY <1>2, <1>3, <1>6, <2>1, <2>2, <3>1 DEF Calling, Flagged
  <2>3. CASE Begun("thread")
    BY <2>3 DEF Begun
  <2> QED BY <1>1, <2>1, <2>2, <2>3 DEF CallsTurn
<1> QED BY <1>4, <1>5, <1>6 DEF Calling, Flagged

LEMMA TurnMarked ==
  ASSUME Types, Turn, NEW j \in JobNos, Marked(j)
  PROVE  Marked(j)'
BY DEF Turn, JobsTurn, PlaceTurn, Marked, Live, Flagged

LEMMA TurnKept ==
  ASSUME Types, Turn, Placing, \A i \in JobNos : Keyed(i), NEW j \in JobNos, Kept(j)
  PROVE  Kept(j)'
<1>1. JobsTurn /\ CallsTurn /\ PlaceTurn
  BY DEF Turn
<1> SUFFICES ASSUME Serving', "raced" \notin wjobs'[j].flags PROVE Kept(j)'
  BY DEF Kept
<1>2. /\ Serving /\ "raced" \notin wjobs[j].flags
      /\ (Terminal(wjobs'[j]) <=> Terminal(wjobs[j]))
  BY <1>1 DEF JobsTurn, Terminal
<1>3. ASSUME wjobs'[j].code = "worker_restarted"
      PROVE  /\ Terminal(wjobs'[j])
             /\ Placed(j)' => "interrupted" \in wjobs'[j].flags
             /\ \A a \in Actors : Under(a, j)' =>
                  /\ call'[a].at = "write" /\ call'[a].payload.code = "worker_restarted"
                  /\ call'[a].payload.status = wjobs'[j].status
  <2>1. /\ Terminal(wjobs[j]) /\ wjobs[j].code = "worker_restarted"
        /\ Placed(j) => "interrupted" \in wjobs[j].flags
        /\ \A a \in Actors : Under(a, j) =>
             /\ call[a].at = "write" /\ call[a].payload.code = "worker_restarted"
             /\ call[a].payload.status = wjobs[j].status
    BY <1>1, <1>2, <1>3 DEF Kept, JobsTurn
  <2>2. ASSUME NEW a \in Actors, Under(a, j)', Begun(a)
        PROVE  FALSE
    <3>1. /\ call'[a].job = j /\ ~ ("interrupted" \in wjobs'[j].flags)
      BY <2>1, <2>2 DEF Begun, Under
    <3>2. a = "thread"
      BY <2>1, <2>2, <3>1 DEF Begun, Actors, Terminal
    <3>3. Placed(j)
      BY <2>2, <3>1, <3>2 DEF Begun
    <3> QED BY <1>1, <2>1, <3>1, <3>3 DEF JobsTurn
  <2>3. ASSUME NEW a \in Actors, Under(a, j)'
        PROVE  /\ call'[a].at = "write" /\ call'[a].payload.code = "worker_restarted"
               /\ call'[a].payload.status = wjobs'[j].status
    <3>1. call'[a] = call[a]
      BY <1>1, <2>2, <2>3 DEF CallsTurn
    <3>2. Under(a, j)
      BY <2>3, <3>1 DEF Under
    <3> QED BY <1>1, <2>1, <3>1, <3>2 DEF JobsTurn
  <2> QED BY <1>1, <1>2, <2>1, <2>3 DEF JobsTurn, PlaceTurn
<1>4. ASSUME disk'[j].code = "worker_restarted"
      PROVE  wjobs'[j].code = "worker_restarted" /\ wjobs'[j].status = disk'[j].status
  BY <1>1, <1>2, <1>4 DEF Kept, JobsTurn
<1>5. ASSUME NEW a \in Actors, Under(a, j)', call'[a].payload.code = "worker_restarted"
      PROVE  wjobs'[j].code = "worker_restarted"
  <2>1. ~ Begun(a)
    BY <1>5 DEF Begun, NoJob
  <2>2. call'[a] = call[a]
    BY <1>1, <2>1 DEF CallsTurn
  <2> QED BY <1>1, <1>2, <1>5, <2>2 DEF Kept, JobsTurn, Under
<1> QED BY <1>3, <1>4, <1>5 DEF Kept

LEMMA TurnShares ==
  ASSUME Types, Turn, SharedRun
  PROVE  SharedRun'
BY DEF Turn, JobsTurn, SharedRun, Live

\* A job known before keeps its key, in memory and on disk.
KeysStay ==
  /\ submitted' \in 0..JobCount /\ submitted =< submitted'
  /\ \A j \in JobNos : j =< submitted /\ Known(disk'[j]) =>
       \/ Known(disk[j]) /\ disk'[j].key = disk[j].key
       \/ Known(wjobs[j]) /\ disk'[j].key = wjobs[j].key
  /\ \A j \in JobNos : j =< submitted /\ Known(wjobs'[j]) =>
       \/ Known(wjobs[j]) /\ wjobs'[j].key = wjobs[j].key
       \/ Known(disk[j]) /\ wjobs'[j].key = disk[j].key

\* A client goes on with the job it has, with a live job of its key, or with a new one.
ClientsMoved ==
  \A c \in Clients :
    /\ client'[c].at \in {"posted", "stream", "wait"} =>
         \/ client[c].at \in {"posted", "stream", "wait"} /\ client'[c].job = client[c].job
         \/ client'[c].job \in LiveJobs(KeyOf[c])
         \/ /\ client'[c].job =< submitted' /\ wjobs'[client'[c].job].key = KeyOf[c]
            /\ ~ Known(disk'[client'[c].job])
    /\ \/ client'[c].verdict \in {"none", client[c].verdict}
       \/ client'[c].verdict \in {"pass", "fail"} /\ Ran(KeyOf[c], client'[c].verdict)

CacheEarned == \A v \in cache' : v \in cache \/ Ran(v[1], "pass")

LEMMA ClientMovedMoves ==
  ASSUME client' = client \/ \E c \in Clients : ClientMoved(c)
  PROVE  ClientsMoved
BY DEF ClientMoved, ClientsMoved

LEMMA ClientsTurn ==
  ASSUME Types, Lives, \A j \in JobNos : Keyed(j), ClientSound, Remembers, KeysStay, ClientsMoved,
         CacheEarned
  PROVE  ClientSound'
<1>1. ASSUME NEW c \in Clients, client'[c].at \in {"posted", "stream", "wait"}
      PROVE  /\ client'[c].job =< submitted'
             /\ Known(wjobs'[client'[c].job]) => wjobs'[client'[c].job].key = KeyOf[c]
             /\ Known(disk'[client'[c].job]) => disk'[client'[c].job].key = KeyOf[c]
  <2>0. submitted \in Int /\ submitted' \in Int /\ submitted =< submitted'
    BY RemoteAssumption DEF KeysStay, Types
  <2>a. SUFFICES ASSUME NEW j \in JobNos, j = client'[c].job, j =< submitted,
                        Known(wjobs[j]) => wjobs[j].key = KeyOf[c],
                        Known(disk[j]) => disk[j].key = KeyOf[c]
                 PROVE  /\ client'[c].job =< submitted'
                        /\ Known(wjobs'[client'[c].job]) => wjobs'[client'[c].job].key = KeyOf[c]
                        /\ Known(disk'[client'[c].job]) => disk'[client'[c].job].key = KeyOf[c]
    <3>1. CASE client[c].at \in {"posted", "stream", "wait"} /\ client'[c].job = client[c].job
      <4>1. client[c].job \in JobNos
        BY <3>1 DEF Types
      <4>2. /\ client[c].job =< submitted
            /\ Known(wjobs[client[c].job]) => wjobs[client[c].job].key = KeyOf[c]
            /\ Known(disk[client[c].job]) => disk[client[c].job].key = KeyOf[c]
        BY <3>1 DEF ClientSound
      <4> QED BY <3>1, <4>1, <4>2, <2>a
    <3>2. CASE client'[c].job \in LiveJobs(KeyOf[c])
      <4>1. PICK j \in JobNos : j = client'[c].job /\ wjobs[j].key = KeyOf[c] /\ Live(j)
        BY <3>2 DEF LiveJobs
      <4>2. Known(wjobs[j]) /\ Serving
        BY <4>1 DEF Live, Known, Lives, NoJob
      <4>3. ~ (j > submitted)
        BY <4>2 DEF Lives, Known, NoJob
      <4>4. Known(disk[j]) => disk[j].key = KeyOf[c]
        BY <4>1, <4>2 DEF Keyed
      <4>5. j =< submitted
        BY <4>3, <2>0 DEF JobNos
      <4> QED BY <4>1, <4>2, <4>4, <4>5, <2>a
    <3>3. CASE /\ client'[c].job =< submitted' /\ wjobs'[client'[c].job].key = KeyOf[c]
               /\ ~ Known(disk'[client'[c].job])
      BY <3>3
    <3> QED BY <1>1, <3>1, <3>2, <3>3 DEF ClientsMoved
  <2>1. /\ Known(wjobs'[j]) => wjobs'[j].key = KeyOf[c]
        /\ Known(disk'[j]) => disk'[j].key = KeyOf[c]
    <3>1. \/ ~ Known(disk'[j])
          \/ Known(disk[j]) /\ disk'[j].key = disk[j].key
          \/ Known(wjobs[j]) /\ disk'[j].key = wjobs[j].key
      BY <2>a DEF KeysStay
    <3>2. \/ ~ Known(wjobs'[j])
          \/ Known(wjobs[j]) /\ wjobs'[j].key = wjobs[j].key
          \/ Known(disk[j]) /\ wjobs'[j].key = disk[j].key
      BY <2>a DEF KeysStay
    <3> QED BY <2>a, <3>1, <3>2
  <2> QED BY <2>0, <2>a, <2>1 DEF JobNos
<1>2. ASSUME NEW c \in Clients, client'[c].verdict # "none"
      PROVE  Ran(KeyOf[c], client[c].verdict)'
  <2>1. client'[c].verdict \in {"pass", "fail"} /\ Ran(KeyOf[c], client'[c].verdict)
    <3>1. client[c].verdict \in {"none", "pass", "fail"}
      BY DEF Types, ClientRecords, Shown
    <3>2. client'[c].verdict = client[c].verdict
          \/ (client'[c].verdict \in {"pass", "fail"} /\ Ran(KeyOf[c], client'[c].verdict))
      BY <1>2 DEF ClientsMoved
    <3> QED BY <1>2, <3>1, <3>2 DEF ClientSound
  <2>2. PICK verdict : verdict = client'[c].verdict
    OBVIOUS
  <2>3. Ran(KeyOf[c], verdict)'
    BY <2>1, <2>2 DEF Remembers
  <2> QED BY <2>2, <2>3 DEF Ran
<1>3. ASSUME NEW v \in cache'
      PROVE  Ran(v[1], "pass")'
  BY <1>3 DEF ClientSound, Remembers, CacheEarned
<1> QED BY <1>1, <1>2, <1>3 DEF ClientSound

\* A turn keeps the invariant.
LEMMA TurnKeeps ==
  ASSUME RemoteSound, Turn, CacheEarned
  PROVE  RemoteSound'
<1>1. Types' /\ Placing' /\ Lives'
  BY TurnPlaces DEF RemoteSound
<1>2. \A j \in JobNos : Keyed(j)' /\ Resulted(j)' /\ Marked(j)' /\ Kept(j)'
  BY <1>1, TurnKeyed, TurnResulted, TurnMarked, TurnKept DEF RemoteSound
<1>3. Calling' /\ SharedRun'
  BY TurnCalling, TurnShares DEF RemoteSound
<1>4. ClientSound'
  <2>1. Remembers /\ Types /\ Lives /\ ClientSound /\ (\A j \in JobNos : Keyed(j))
    BY TurnRemembers DEF RemoteSound
  <2>2. KeysStay
    BY <2>1, RemoteAssumption DEF Turn, JobsTurn, KeysStay, Known, Types
  <2>3. ClientsMoved
    BY ClientMovedMoves DEF Turn
  <2> QED BY <2>1, <2>2, <2>3, ClientsTurn
<1> QED BY <1>1, <1>2, <1>3, <1>4 DEF RemoteSound

-----------------------------------------------------------------------------
(* Which steps are turns.                                                  *)

\* Processes only end.
EndsLater ==
  /\ process' \in [JobNos -> Ends]
  /\ \A j \in JobNos : \/ process'[j] = process[j]
                       \/ process[j] = "live" /\ process'[j] \in {"killed", "pass", "fail"}

LEMMA KilledEnds ==
  ASSUME Types, NEW js, process' = Killed(js) \/ process' = process
  PROVE  EndsLater
BY KilledLeaves DEF EndsLater, Types

\* No record, no job given out, and the daemon as alive as before.
RecordsRest == disk' = disk /\ submitted' = submitted /\ (Serving' <=> Serving)

LEMMA JobsRest ==
  ASSUME Types, EndsLater, RecordsRest, wjobs' = wjobs
  PROVE  JobsTurn
BY DEF Types, EndsLater, RecordsRest, JobsTurn

LEMMA JobsFlagged ==
  ASSUME Types, EndsLater, RecordsRest, NEW j \in JobNos, Known(wjobs[j]),
         NEW flag \in {"cancel_requested", "interrupted", "stalled"},
         wjobs' = [wjobs EXCEPT ![j].flags = @ \cup {flag}]
  PROVE  JobsTurn /\ flag \in wjobs'[j].flags /\ wjobs'[j].status = wjobs[j].status
<1>1. PICK rec \in Records : rec = wjobs[j]
  BY DEF Types
<1> DEFINE new == [rec EXCEPT !.flags = @ \cup {flag}]
<1>2. /\ new \in Records /\ new.flags = rec.flags \cup {flag}
      /\ new.key = rec.key /\ new.status = rec.status
      /\ new.code = rec.code /\ new.result = rec.result
  BY FlagsTyped
<1>3. wjobs' = [wjobs EXCEPT ![j] = new]
  BY <1>1 DEF Types
<1> HIDE DEF new
<1>4. /\ wjobs' \in [JobNos -> Records] /\ wjobs'[j] = new
      /\ \A i \in JobNos : i # j => wjobs'[i] = wjobs[i]
  <2>1. wjobs \in [JobNos -> Records] /\ new \in Records
    BY <1>2 DEF Types
  <2> QED BY <1>3, <2>1
<1>5. ASSUME NEW i \in JobNos
      PROVE  /\ wjobs'[i] # wjobs[i] => Known(wjobs[i])
             /\ wjobs'[i].key = wjobs[i].key /\ wjobs'[i].status = wjobs[i].status
             /\ wjobs'[i].code = wjobs[i].code /\ wjobs'[i].result = wjobs[i].result
             /\ wjobs[i].flags \subseteq wjobs'[i].flags
             /\ "raced" \in wjobs'[i].flags => "raced" \in wjobs[i].flags
  <2>1. CASE i = j
    <3>1. wjobs'[i] = new /\ wjobs[i] = rec
      BY <1>1, <1>4, <2>1
    <3> QED BY <1>1, <1>2, <2>1, <3>1
  <2>2. CASE i # j
    <3>1. wjobs'[i] = wjobs[i]
      BY <1>4, <2>2
    <3> QED BY <3>1
  <2> QED BY <2>1, <2>2
<1> QED BY <1>1, <1>2, <1>4, <1>5 DEF EndsLater, RecordsRest, JobsTurn

LEMMA CallsRest == ASSUME Types, call' = call PROVE CallsTurn
BY DEF Types, CallsTurn

\* One call begins.
LEMMA CallBegins ==
  ASSUME Types, NEW a \in Actors, NEW j, NEW status, NEW code, NEW result,
         Sets(a, j, status, code, result), Begun(a)
  PROVE  CallsTurn /\ \A b \in Actors : b # a => call'[b] = call[b]
BY DEF Sets, CallsTurn

\* The jobs stay where they are; an answered request is no longer posted.
LEMMA PlaceRest ==
  ASSUME Types, Placing, EndsLater, thread' = thread, queue' = queue,
         \A c \in Clients, j \in JobNos : Posted(c, j)' => Posted(c, j) /\ call'[c] = call[c]
  PROVE  PlaceTurn
<1>1. \A j \in JobNos : (Waits(j)' <=> Waits(j)) /\ Doing(j)' = Doing(j)
  BY DEF Waits, Doing
<1>2. \A j \in JobNos : Placed(j)' => Placed(j)
  BY <1>1 DEF Placed
<1>3. \A j \in JobNos : Doing(j) = "popen" => process'[j] = process[j]
  BY DEF Placing, Placed, EndsLater
<1>4. QueueOnce'
  BY DEF Placing, QueueOnce
<1>5. ASSUME NEW j \in JobNos
      PROVE  /\ Waits(j)' => Doing(j)' = "none"
             /\ \A c \in Clients : Posted(c, j)' => ~ Waits(j)' /\ Doing(j)' = "none"
  BY <1>1 DEF Placing
<1>6. thread \in [at : {"idle"} \cup Places, job : 0..JobCount] /\ queue \in Seq(JobNos)
      /\ (thread.at # "idle" => thread.job \in JobNos)
  BY DEF Types
<1> QED BY <1>1, <1>2, <1>3, <1>4, <1>5, <1>6 DEF PlaceTurn

LEMMA PostedRest ==
  ASSUME Types, client' = client \/ \E c \in Clients : ClientMoved(c)
  PROVE  \A c \in Clients, j \in JobNos : Posted(c, j)' => Posted(c, j)
BY MovedTyped DEF Posted

\* Only a client moves, or nobody.
Rests == UNCHANGED <<wjobs, disk, queue, thread, process, daemon, call, closing, submitted>>

LEMMA RestTurns ==
  ASSUME RemoteSound, Rests, client' = client \/ \E c \in Clients : ClientMoved(c)
  PROVE  Turn
<1>1. Types /\ Placing /\ Lives
  BY DEF RemoteSound
<1>2. EndsLater /\ RecordsRest
  BY <1>1 DEF Rests, EndsLater, RecordsRest, Types, Serving
<1>3. JobsTurn /\ CallsTurn
  BY <1>1, <1>2, JobsRest, CallsRest DEF Rests
<1>4. PlaceTurn
  BY <1>1, <1>2, PlaceRest, PostedRest DEF Rests
<1>5. ClosingTurn
  BY <1>1 DEF Rests, ClosingTurn, Types, Lives
<1> QED BY <1>3, <1>4, <1>5 DEF Turn

\* The steps of a client that only move it.
LEMMA ClientTurns ==
  ASSUME RemoteSound, NEW c \in Clients,
         \/ DispatchRemote(c) \/ RunLocally(c) \/ SubmitFetch(c) \/ SubmitRefused(c)
         \/ SubmitDeclined(c) \/ StreamNoVerdict(c) \/ WorkerBack(c) \/ WorkerGone(c)
  PROVE  Turn /\ CacheEarned
<1>1. Types
  BY DEF RemoteSound
<1>2. ClientMoved(c)
  <2>1. CASE DispatchRemote(c)
    <3>1. <<KeyOf[c], HoldoutOf[c]>> \in cache => Ran(KeyOf[c], "pass")
      BY DEF RemoteSound, ClientSound
    <3> QED BY <1>1, <2>1, <3>1, ResolvesMoved, MovesMoved DEF DispatchRemote
  <2>2. CASE RunLocally(c)
    BY <1>1, <2>2, LeavesMoved DEF RunLocally
  <2>3. CASE SubmitFetch(c)
    BY <1>1, <2>3, StreamsMoved, MovesMoved DEF SubmitFetch
  <2>4. CASE SubmitRefused(c) \/ SubmitDeclined(c)
    BY <1>1, <2>4, LeavesMoved DEF SubmitRefused, SubmitDeclined
  <2>5. CASE StreamNoVerdict(c)
    BY <1>1, <2>5, LeavesMoved, LostMoved DEF StreamNoVerdict
  <2>6. CASE WorkerBack(c)
    BY <1>1, <2>6, MovesMoved DEF WorkerBack
  <2>7. CASE WorkerGone(c)
    BY <1>1, <2>7, LeavesMoved DEF WorkerGone
  <2> QED BY <2>1, <2>2, <2>3, <2>4, <2>5, <2>6, <2>7
<1>3. Rests /\ cache' = cache
  BY DEF Rests, workerVars, DispatchRemote, RunLocally, SubmitFetch, SubmitRefused, SubmitDeclined,
         StreamNoVerdict, WorkerBack, WorkerGone
<1> QED BY <1>2, <1>3, RestTurns DEF CacheEarned

\* A verdict polled is the suite's, and so is the pass that is stored.
LEMMA VerdictTurns ==
  ASSUME RemoteSound, NEW c \in Clients, StreamVerdict(c)
  PROVE  Turn /\ CacheEarned
<1>1. Types /\ Lives /\ ClientSound /\ \A j \in JobNos : Keyed(j) /\ Resulted(j)
  BY DEF RemoteSound
<1>2. PICK j \in JobNos : j = client[c].job
  BY <1>1 DEF Types, StreamVerdict
<1>3. /\ wjobs[j].status \in {"done", "failed"} /\ wjobs[j].result # "none"
      /\ Resolves(c, wjobs[j].result) /\ client[c].at = "stream" /\ Rests
      /\ cache' = IF wjobs[j].result = "pass" THEN cache \cup {<<KeyOf[c], HoldoutOf[c]>>} ELSE cache
  BY <1>2 DEF StreamVerdict, Rests, workerVars
<1>4. wjobs[j].result \in {"pass", "fail"} /\ process[j] = wjobs[j].result
  BY <1>1, <1>3 DEF Types, Records, Shown, Resulted, Real
<1>5. Known(wjobs[j]) /\ wjobs[j].key = KeyOf[c] /\ Known(disk[j]) /\ disk[j].key = KeyOf[c]
  <2>1. Known(wjobs[j]) /\ Known(disk[j])
    BY <1>1, <1>3, <1>4 DEF Known, Keyed
  <2> QED BY <1>1, <1>2, <1>3, <2>1 DEF ClientSound
<1>6. Ran(KeyOf[c], wjobs[j].result)
  BY <1>4, <1>5 DEF Ran
<1>7. ClientMoved(c)
  BY <1>1, <1>3, <1>4, <1>6, ResolvesMoved
<1>8. CacheEarned
  BY <1>3, <1>6 DEF CacheEarned
<1> QED BY <1>3, <1>7, <1>8, RestTurns

\* A second look finds a live job.
LEMMA SecondLookTurns ==
  ASSUME RemoteSound, NEW c \in Clients, SubmitRegister(c), LiveJobs(KeyOf[c]) # {}
  PROVE  Turn /\ CacheEarned
<1>1. PICK j \in LiveJobs(KeyOf[c]) : Streams(c, j)
  BY DEF SubmitRegister
<1>2. ClientMoved(c) /\ Rests /\ cache' = cache
  BY <1>1, StreamsMoved DEF RemoteSound, SubmitRegister, Rests
<1> QED BY <1>2, RestTurns DEF CacheEarned

\* What a cancellation is to the jobs.
LEMMA CancelTurns ==
  ASSUME RemoteSound, NEW c \in Clients, NEW j \in JobNos, Serving, RecordsRest, Cancel(c, j)
  PROVE  JobsTurn /\ CallsTurn /\ EndsLater /\ \A b \in Actors : b # c => call'[b] = call[b]
<1>1. Types /\ c \in Actors
  BY DEF RemoteSound, Actors
<1>2. EndsLater
  BY <1>1, KilledEnds DEF Cancel
<1>3. CASE wjobs[j].status = "absent"
  BY <1>1, <1>2, <1>3, JobsRest, CallsRest DEF Cancel
<1>4. CASE wjobs[j].status # "absent"
  <2> DEFINE flagged == [wjobs EXCEPT ![j].flags = @ \cup {"cancel_requested"}]
  <2>1. /\ wjobs' = flagged
        /\ \/ wjobs[j].status = "queued" /\ SetStatus(c, flagged, j, "cancelled", "none", "none")
           \/ call' = call
    BY <1>4 DEF Cancel
  <2>2. /\ JobsTurn /\ "cancel_requested" \in wjobs'[j].flags /\ Known(wjobs[j])
        /\ wjobs'[j].status = wjobs[j].status
    <3>1. Known(wjobs[j])
      BY <1>4 DEF Known
    <3> QED BY <1>1, <1>2, <2>1, <3>1, JobsFlagged
  <2> HIDE DEF flagged
  <2>3. CASE call' = call
    BY <1>1, <1>2, <2>2, <2>3, CallsRest
  <2>4. CASE wjobs[j].status = "queued" /\ SetStatus(c, flagged, j, "cancelled", "none", "none")
    <3>1. call' = call \/ Sets(c, j, "cancelled", "none", "none")
      BY <1>1, <2>4, SetStatusSets DEF Moved, Codes, Shown
    <3>2. CASE Sets(c, j, "cancelled", "none", "none")
      <4>1. Begun(c)
        BY <1>1, <2>2, <2>4, <3>2, RemoteAssumption DEF Sets, Begun, Terminal
      <4> QED BY <1>1, <1>2, <2>2, <3>2, <4>1, CallBegins
    <3> QED BY <2>3, <3>1, <3>2
  <2> QED BY <2>1, <2>3, <2>4
<1> QED BY <1>3, <1>4

\* A client that gives a job up.
LEMMA GivesUpTurns ==
  ASSUME RemoteSound, NEW c \in Clients, StreamAbandoned(c) \/ WorkerUnreachable(c)
  PROVE  Turn /\ CacheEarned
<1>1. Types /\ Placing /\ Lives /\ c \in Actors
  BY DEF RemoteSound, Actors
<1>2. ClientMoved(c) /\ client[c].at = "stream"
  BY <1>1, LeavesMoved, LostMoved DEF StreamAbandoned, WorkerUnreachable
<1>3. PICK j \in JobNos : j = client[c].job
  BY <1>1, <1>2 DEF Types
<1>4. UNCHANGED <<disk, queue, thread, daemon, closing, submitted, cache>>
  BY DEF StreamAbandoned, WorkerUnreachable
<1>5. \/ Serving /\ Cancel(c, j)
      \/ UNCHANGED <<wjobs, call, process>>
  BY <1>3 DEF StreamAbandoned, WorkerUnreachable
<1>6. CASE UNCHANGED <<wjobs, call, process>>
  BY <1>2, <1>4, <1>6, RestTurns DEF Rests, CacheEarned
<1>7. CASE Serving /\ Cancel(c, j)
  <2>1. RecordsRest
    BY <1>4 DEF RecordsRest, Serving
  <2>2. JobsTurn /\ CallsTurn /\ EndsLater /\ \A b \in Actors : b # c => call'[b] = call[b]
    BY <1>7, <2>1, CancelTurns
  <2>3. \A d \in Clients, i \in JobNos : Posted(d, i)' => Posted(d, i) /\ call'[d] = call[d]
    <3>1. \A d \in Clients, i \in JobNos : Posted(d, i)' => Posted(d, i) /\ d # c
      BY <1>1, <1>2, MovedTyped
    <3> QED BY <2>2, <3>1 DEF Actors
  <2>4. PlaceTurn
    BY <1>1, <1>4, <2>2, <2>3, PlaceRest
  <2>5. ClosingTurn
    BY <1>1, <1>4 DEF ClosingTurn, Types, Lives
  <2> QED BY <1>2, <1>4, <2>2, <2>4, <2>5 DEF Turn, CacheEarned
<1> QED BY <1>5, <1>6, <1>7

\* The watchdog, and the suite's own end.
LEMMA EndsTurn ==
  ASSUME RemoteSound,
         WatchdogKills \/ Stall \/ \E j \in JobNos, exit \in {"pass", "fail"} : SuiteEnds(j, exit)
  PROVE  Turn /\ CacheEarned
<1>1. Types /\ Placing /\ Lives /\ \A j \in JobNos : Keyed(j)
  BY DEF RemoteSound
<1>2. UNCHANGED <<disk, queue, thread, daemon, closing, call, client, submitted, cache>>
  BY DEF WatchdogKills, Stall, SuiteEnds
<1>3. EndsLater
  <2>1. CASE WatchdogKills \/ Stall
    BY <1>1, <2>1, KilledEnds DEF WatchdogKills, Stall
  <2>2. ASSUME NEW j \in JobNos, NEW exit \in {"pass", "fail"}, SuiteEnds(j, exit)
        PROVE  EndsLater
    <3>1. process' = [process EXCEPT ![j] = exit] /\ process[j] = "live" /\ exit \in Ends
      BY <2>2 DEF SuiteEnds, Ends
    <3>2. process \in [JobNos -> Ends]
      BY <1>1 DEF Types
    <3> QED BY <3>1, <3>2 DEF EndsLater
  <2> QED BY <2>1, <2>2
<1>4. RecordsRest
  BY <1>2 DEF RecordsRest, Serving
<1>5. JobsTurn
  <2>1. CASE wjobs' = wjobs
    BY <1>1, <1>3, <1>4, <2>1, JobsRest
  <2>2. CASE Stall
    <3>1. PICK j \in JobNos : j = thread.job /\ Doing(j) = "wait"
      BY <1>1, <2>2 DEF Stall, At, Types, Doing
    <3>2. Known(wjobs[j])
      BY <1>1, <3>1 DEF Keyed, Placed
    <3> QED BY <1>1, <1>3, <1>4, <2>2, <3>1, <3>2, JobsFlagged DEF Stall
  <2> QED BY <2>1, <2>2 DEF WatchdogKills, SuiteEnds
<1>6. CallsTurn /\ PlaceTurn
  BY <1>1, <1>2, <1>3, CallsRest, PlaceRest DEF Posted
<1>7. ClosingTurn
  BY <1>1, <1>2 DEF ClosingTurn, Types, Lives
<1> QED BY <1>2, <1>5, <1>6, <1>7 DEF Turn, CacheEarned

\* What the thread's call is for.
Reason(j, status) ==
  \/ status = "running" /\ thread'.at = "begun" /\ thread'.job = j
  \/ status # "running" /\ thread'.at \in {"stalled", "cleanup"} /\ thread'.job = j
  \/ status # "running" /\ thread'.at = "idle" /\ Flagged(j)

LEMMA ThreadCalls ==
  ASSUME Types, Serving, NEW j \in JobNos, Keyed(j), Placed(j), wjobs' = wjobs, process' = process,
         NEW status \in Moved, NEW code \in Codes, NEW result \in Shown,
         code # "worker_restarted", result # "none" => process[j] = result, Reason(j, status),
         SetStatus("thread", wjobs, j, status, code, result)
  PROVE  CallsTurn /\ \A c \in Clients : call'[c] = call[c]
<1>1. "thread" \in Actors /\ \A c \in Clients : c \in Actors /\ c # "thread"
  BY RemoteAssumption DEF Actors
<1>2. call' = call \/ (~ ("interrupted" \in wjobs[j].flags /\ Terminal(wjobs[j]))
                       /\ Sets("thread", j, status, code, result))
  BY <1>1, SetStatusSets
<1>3. CASE call' = call
  BY <1>3, CallsRest
<1>4. CASE /\ ~ ("interrupted" \in wjobs[j].flags /\ Terminal(wjobs[j]))
           /\ Sets("thread", j, status, code, result)
  <2>1. status # "none" /\ Known(wjobs[j])
    BY DEF Moved, Keyed
  <2>2. Begun("thread")
    BY <1>1, <1>4, <2>1, RemoteAssumption DEF Begun, Sets, Reason, Flagged
  <2> QED BY <1>1, <1>4, <2>2, CallBegins
<1> QED BY <1>2, <1>3, <1>4

\* The thread's job goes to its next place.
Steps(j) ==
  \/ thread.at = "taken" /\ thread'.at = "begun" /\ process' = process
  \/ thread.at = "setup" /\ thread'.at \in {"popen", "cleanup"} /\ process' = process
  \/ /\ thread.at = "popen" /\ thread'.at = "record" /\ process'[j] = "live"
     /\ \A i \in JobNos : i # j => process'[i] = process[i]
  \/ thread.at = "wait" /\ thread'.at \in {"stalled", "cleanup"} /\ process' = process
  \/ thread.at = "stalled" /\ thread'.at = "cleanup" /\ process' = process
  \/ thread.at = "cleanup" /\ thread'.at = "idle" /\ process' = process

LEMMA ThreadGoes ==
  ASSUME Types, Placing, NEW j \in JobNos, thread.job = j, call["thread"].at = "none", Steps(j),
         thread' \in [at : {"idle"} \cup Places, job : 0..JobCount],
         thread'.at # "idle" => thread'.job = j,
         UNCHANGED <<queue, client>>, \A c \in Clients : call'[c] = call[c]
  PROVE  PlaceTurn
<1>1. \A i \in JobNos : (Waits(i)' <=> Waits(i)) /\ \A c \in Clients : Posted(c, i)' <=> Posted(c, i)
  BY DEF Waits, Posted
<1>2. \A i \in JobNos : i # j => Doing(i) = "none" /\ Doing(i)' = "none"
  BY DEF Doing
<1>3. thread.at # "idle" /\ Doing(j) = thread.at /\ Doing(j) # "none" /\ Placed(j)
  BY DEF Doing, Steps, Placed
<1>4. Doing(j)' = IF thread'.at = "idle" THEN "none" ELSE thread'.at
  BY DEF Doing
<1>5. ~ Waits(j) /\ \A c \in Clients : ~ Posted(c, j)
  BY <1>3 DEF Placing
<1>6. Placed(j)' => thread'.at # "idle"
  BY <1>1, <1>4, <1>5 DEF Placed
<1>7. \A i \in JobNos : i # j => (Placed(i)' <=> Placed(i))
  BY <1>1, <1>2 DEF Placed
<1>8. queue \in Seq(JobNos) /\ QueueOnce'
  BY DEF Types, Placing, QueueOnce
<1>9. ASSUME NEW i \in JobNos
      PROVE  /\ Placed(i)' => Placed(i)
             /\ Placed(i)' /\ Doing(i)' \notin {"stalled", "cleanup"} => Doing(i) \notin {"stalled", "cleanup"}
             /\ Waits(i)' \/ Doing(i)' # "none" => Waits(i) \/ Doing(i) # "none"
             /\ \A c \in Clients : Posted(c, i)' => Posted(c, i) /\ call'[c] = call[c]
             /\ Waits(i)' => Doing(i)' = "none"
             /\ \A c \in Clients : Posted(c, i)' => ~ Waits(i)' /\ Doing(i)' = "none"
             /\ Placed(i)' /\ Doing(i)' \in {"none", "taken", "begun", "setup", "popen"} =>
                  Doing(i) \in {"none", "taken", "begun", "setup"} \/ (Doing(i) = "popen" /\ process'[i] = process[i])
             /\ Doing(i)' \in {"record", "wait"} =>
                  Doing(i) \in {"record", "wait"} \/ (Doing(i) = "popen" /\ process'[i] = "live")
  <2>1. CASE i = j
    BY <1>1, <1>3, <1>4, <1>5, <1>6, <2>1 DEF Steps
  <2>2. CASE i # j
    BY <1>1, <1>2, <1>7, <2>2 DEF Placing
  <2> QED BY <2>1, <2>2
<1> QED BY <1>8, <1>9 DEF PlaceTurn

\* The steps of the thread with a job.
LEMMA ThreadTurns ==
  ASSUME RemoteSound,
         \/ StartRun \/ Popen \/ FinishRun \/ RestartStalled \/ CleanupWorktree
         \/ \E ok \in BOOLEAN : AddWorktree(ok)
  PROVE  Turn /\ CacheEarned
<1>1. Types /\ Placing /\ Lives /\ \A i \in JobNos : Keyed(i)
  BY DEF RemoteSound
<1>2. PICK j : j = thread.job
  OBVIOUS
<1>3. /\ Serving /\ Serving' /\ call["thread"].at = "none" /\ thread.at \in Places
      /\ UNCHANGED <<wjobs, disk, queue, closing, submitted, client, cache>>
      /\ daemon' \in {daemon, "exiting"}
  BY DEF StartRun, Popen, FinishRun, RestartStalled, CleanupWorktree, AddWorktree, At, NoCall, Places,
         Serving
<1>4. j \in JobNos /\ Doing(j) = thread.at /\ Placed(j) /\ Keyed(j) /\ thread.at # "idle"
  BY <1>1, <1>2, <1>3 DEF Types, Places, Doing, Placed
<1>5. RecordsRest /\ ClosingTurn
  BY <1>1, <1>3 DEF RecordsRest, ClosingTurn, Types
<1>6. thread \in [at : {"idle"} \cup Places, job : 0..JobCount]
  BY <1>1 DEF Types
<1>a. SUFFICES /\ CallsTurn /\ (\A c \in Clients : call'[c] = call[c]) /\ Steps(j)
               /\ thread' \in [at : {"idle"} \cup Places, job : 0..JobCount]
               /\ thread'.at # "idle" => thread'.job = j
  <2>1. PlaceTurn
    BY <1>1, <1>2, <1>3, <1>4, <1>a, ThreadGoes
  <2>2. process' \in [JobNos -> Ends]
    BY <1>1 DEF StartRun, Popen, FinishRun, RestartStalled, CleanupWorktree, AddWorktree, Types, Ends
  <2>3. JobsTurn
    <3>1. CASE process' = process
      BY <1>1, <1>3, <1>5, <3>1, <2>2, JobsRest DEF EndsLater
    <3>2. CASE Popen
      <4>1. Doing(j) = "popen" /\ process'[j] = "live" /\ \A i \in JobNos : i # j => process'[i] = process[i]
        BY <1>1, <1>2, <1>4, <3>2 DEF Popen, At, Types
      <4>2. wjobs \in [JobNos -> Records]
        BY <1>1 DEF Types
      <4> QED BY <1>3, <1>5, <2>2, <4>1, <4>2 DEF JobsTurn, RecordsRest
    <3> QED BY <3>1, <3>2 DEF StartRun, FinishRun, RestartStalled, CleanupWorktree, AddWorktree
  <2> QED BY <1>3, <1>5, <1>a, <2>1, <2>3 DEF Turn, CacheEarned
<1>7. ASSUME NEW place \in Places, GoesTo(place)
      PROVE  /\ thread' \in [at : {"idle"} \cup Places, job : 0..JobCount]
             /\ thread'.at = place /\ thread'.job = j
  BY <1>2, <1>6, <1>7 DEF GoesTo
<1>8. CASE StartRun
  <2>1. thread'.at = "begun" /\ thread'.job = j /\ thread' \in [at : {"idle"} \cup Places, job : 0..JobCount]
    BY <1>7, <1>8 DEF StartRun, Places
  <2>2. Steps(j) /\ process' = process
    BY <1>8, <2>1 DEF Steps, StartRun, At
  <2>3. Reason(j, "running")
    BY <2>1 DEF Reason
  <2>4. CallsTurn /\ \A c \in Clients : call'[c] = call[c]
    BY <1>1, <1>2, <1>3, <1>4, <1>8, <2>2, <2>3, ThreadCalls DEF StartRun, Moved, Codes, Shown
  <2> QED BY <2>1, <2>2, <2>4
<1>9. CASE Popen
  <2>1. thread'.at = "record" /\ thread'.job = j /\ thread' \in [at : {"idle"} \cup Places, job : 0..JobCount]
    BY <1>7, <1>9 DEF Popen, Places
  <2>2. Steps(j)
    BY <1>1, <1>2, <1>4, <1>9, <2>1 DEF Steps, Popen, At, Types
  <2> QED BY <1>1, <1>9, <2>1, <2>2, CallsRest DEF Popen
<1>10. CASE FinishRun
  <2>1. PICK place \in {"cleanup", "stalled"} : GoesTo(place)
    BY <1>10 DEF FinishRun
  <2>2. thread'.at = place /\ thread'.job = j /\ thread' \in [at : {"idle"} \cup Places, job : 0..JobCount]
    BY <1>7, <2>1 DEF Places
  <2>3. Steps(j) /\ process' = process /\ process[j] # "live"
    BY <1>2, <1>10, <2>2 DEF Steps, FinishRun, At
  <2>4. \A status \in Moved : status # "running" => Reason(j, status)
    BY <2>2 DEF Reason
  <2>5. CASE call' = call
    BY <1>1, <2>2, <2>3, <2>5, CallsRest
  <2>6. CASE Closing(j)
    <3>1. PICK status \in Moved, code \in Codes, result \in Shown :
            /\ status # "running" /\ code # "worker_restarted" /\ (result # "none" => process[j] = result)
            /\ SetStatus("thread", wjobs, j, status, code, result)
      <4>1. CASE "stalled" \in wjobs[j].flags
        BY <2>6, <4>1 DEF Closing, Moved, Codes, Shown
      <4>2. CASE "stalled" \notin wjobs[j].flags /\ "cancel_requested" \in wjobs[j].flags
        BY <2>6, <4>2 DEF Closing, Moved, Codes, Shown
      <4>3. CASE wjobs[j].flags \cap {"stalled", "cancel_requested"} = {} /\ process[j] = "killed"
        BY <2>6, <4>3 DEF Closing, Moved, Codes, Shown
      <4>4. CASE wjobs[j].flags \cap {"stalled", "cancel_requested"} = {} /\ process[j] # "killed"
        <5>1. process[j] \in Shown
          BY <1>1, <1>4, <2>3, <4>4 DEF Types, Ends, Shown
        <5>2. SetStatus("thread", wjobs, j, IF process[j] = "pass" THEN "done" ELSE "failed", "none", process[j])
          BY <2>6, <4>4 DEF Closing
        <5> QED BY <5>1, <5>2 DEF Moved, Codes
      <4> QED BY <4>1, <4>2, <4>3, <4>4
    <3>2. CallsTurn /\ \A c \in Clients : call'[c] = call[c]
      BY <1>1, <1>3, <1>4, <2>3, <2>4, <3>1, ThreadCalls
    <3> QED BY <2>2, <2>3, <3>2
  <2> QED BY <1>2, <1>10, <2>5, <2>6 DEF FinishRun
<1>11. CASE RestartStalled
  <2>1. thread'.at = "cleanup" /\ thread'.job = j /\ thread' \in [at : {"idle"} \cup Places, job : 0..JobCount]
    BY <1>7, <1>11 DEF RestartStalled, Places
  <2>2. Steps(j)
    BY <1>11, <2>1 DEF Steps, RestartStalled, At
  <2> QED BY <1>1, <1>11, <2>1, <2>2, CallsRest DEF RestartStalled
<1>12. CASE CleanupWorktree
  <2>1. thread' = Idle /\ Idle \in [at : {"idle"} \cup Places, job : 0..JobCount] /\ Idle.at = "idle"
    BY <1>12, RemoteAssumption DEF CleanupWorktree, Idle
  <2>2. Steps(j)
    BY <1>12, <2>1 DEF Steps, CleanupWorktree, At
  <2> QED BY <1>1, <1>12, <2>1, <2>2, CallsRest DEF CleanupWorktree
<1>13. CASE \E ok \in BOOLEAN : AddWorktree(ok)
  <2>1. PICK place \in {"popen", "cleanup"} :
          /\ GoesTo(place)
          /\ \/ place = "popen" /\ call' = call
             \/ place = "cleanup" /\ SetStatus("thread", wjobs, j, "failed", "worker_setup_failed", "none")
    BY <1>2, <1>13 DEF AddWorktree
  <2>2. thread'.at = place /\ thread'.job = j /\ thread' \in [at : {"idle"} \cup Places, job : 0..JobCount]
    BY <1>7, <2>1 DEF Places
  <2>3. Steps(j) /\ process' = process
    BY <1>13, <2>2 DEF Steps, AddWorktree, At
  <2>4. place = "cleanup" => Reason(j, "failed")
    BY <2>2 DEF Reason
  <2>5. CallsTurn /\ \A c \in Clients : call'[c] = call[c]
    <3>1. CASE call' = call
      BY <1>1, <3>1, CallsRest
    <3>2. CASE place = "cleanup" /\ SetStatus("thread", wjobs, j, "failed", "worker_setup_failed", "none")
      BY <1>1, <1>3, <1>4, <2>3, <2>4, <3>2, ThreadCalls DEF Moved, Codes, Shown
    <3> QED BY <2>1, <3>1, <3>2
  <2> QED BY <2>2, <2>3, <2>5
<1> QED BY <1>8, <1>9, <1>10, <1>11, <1>12, <1>13

\* Taking the head of the queue leaves the other jobs where they are.
LEMMA TailLeaves ==
  ASSUME queue \in Seq(JobNos), QueueOnce, queue # << >>, queue' = Tail(queue)
  PROVE  /\ Head(queue) \in JobNos /\ queue' \in Seq(JobNos) /\ QueueOnce'
         /\ Waits(Head(queue)) /\ \A m \in 1..Len(queue') : queue'[m] # Head(queue)
         /\ \A i \in JobNos : i # Head(queue) => (Waits(i)' <=> Waits(i))
<1>1. Len(queue) \in Nat \ {0}
  OBVIOUS
<1>2. Head(queue) = queue[1] /\ queue[1] \in JobNos
  BY <1>1
<1>3. /\ queue' \in Seq(JobNos) /\ Len(queue') = Len(queue) - 1
      /\ \A m \in 1..Len(queue') : queue'[m] = queue[m + 1]
  BY <1>1
<1>4. QueueOnce' /\ \A m \in 1..Len(queue') : queue'[m] # Head(queue)
  BY <1>1, <1>2, <1>3 DEF QueueOnce
<1>5. Waits(Head(queue))
  BY <1>1, <1>2 DEF Waits
<1>6. ASSUME NEW i \in JobNos, i # Head(queue)
      PROVE  Waits(i)' <=> Waits(i)
  <2>1. ASSUME Waits(i)' PROVE Waits(i)
    BY <1>1, <1>3, <2>1 DEF Waits
  <2>2. ASSUME Waits(i) PROVE Waits(i)'
    <3>1. PICK n \in 1..Len(queue) : queue[n] = i
      BY <2>2 DEF Waits
    <3>2. n - 1 \in 1..Len(queue')
      BY <1>1, <1>2, <1>3, <1>6, <3>1
    <3>3. queue'[n - 1] = i
      BY <1>1, <1>3, <3>1, <3>2
    <3> QED BY <3>2, <3>3 DEF Waits
  <2> QED BY <2>1, <2>2
<1> QED BY <1>2, <1>3, <1>4, <1>5, <1>6

\* The thread takes a job, or closes the cancelled one it finds.
LEMMA TakeTurns ==
  ASSUME RemoteSound, Take
  PROVE  Turn /\ CacheEarned
<1>1. Types /\ Placing /\ Lives /\ \A i \in JobNos : Keyed(i)
  BY DEF RemoteSound
<1>2. PICK j : j = Head(queue)
  OBVIOUS
<1>3. /\ Serving /\ Serving' /\ call["thread"].at = "none" /\ thread.at = "idle" /\ queue # << >>
      /\ queue' = Tail(queue)
      /\ UNCHANGED <<wjobs, disk, closing, process, daemon, submitted, client, cache>>
  BY DEF Take, At, NoCall, Serving
<1>4. /\ j \in JobNos /\ queue' \in Seq(JobNos) /\ QueueOnce' /\ Waits(j) /\ ~ Waits(j)'
      /\ \A i \in JobNos : i # j => (Waits(i)' <=> Waits(i))
  <2>1. queue \in Seq(JobNos) /\ QueueOnce
    BY <1>1 DEF Types, Placing
  <2> QED BY <1>2, <1>3, <2>1, TailLeaves DEF Waits
<1>5. Placed(j) /\ Keyed(j) /\ \A i \in JobNos : Doing(i) = "none"
  BY <1>1, <1>3, <1>4 DEF Placed, Doing
<1>6. EndsLater /\ RecordsRest /\ ClosingTurn
  BY <1>1, <1>3 DEF EndsLater, RecordsRest, ClosingTurn, Types
<1>7. JobsTurn
  BY <1>1, <1>3, <1>6, JobsRest
<1>8. /\ CallsTurn /\ \A c \in Clients : call'[c] = call[c]
      /\ thread' = thread \/ thread' = [at |-> "taken", job |-> j]
  <2>1. CASE thread' = [at |-> "taken", job |-> j] /\ call' = call
    BY <1>1, <2>1, CallsRest
  <2>2. CASE /\ thread' = thread /\ "cancel_requested" \in wjobs[j].flags
             /\ SetStatus("thread", wjobs, j, "cancelled", "none", "none")
    <3>1. Reason(j, "cancelled")
      BY <1>3, <2>2 DEF Reason, Flagged
    <3> QED BY <1>1, <1>3, <1>4, <1>5, <2>2, <3>1, ThreadCalls DEF Moved, Codes, Shown
  <2> QED BY <1>2, <2>1, <2>2 DEF Take
<1>9. /\ thread' \in [at : {"idle"} \cup Places, job : 0..JobCount]
      /\ thread'.at # "idle" => thread'.job \in JobNos
  <2>1. j \in 0..JobCount
    BY <1>4, RemoteAssumption DEF JobNos
  <2> QED BY <1>1, <1>4, <1>8, <2>1 DEF Types, Places
<1>10. \A i \in JobNos : Doing(i)' \in {"none", "taken"} /\ (i # j => Doing(i)' = "none")
  BY <1>3, <1>8 DEF Doing
<1>11. \A i \in JobNos : \A c \in Clients : Posted(c, i)' <=> Posted(c, i)
  BY <1>3 DEF Posted
<1>12. \A i \in JobNos : Placed(i)' => Placed(i)
  BY <1>4, <1>5, <1>10, <1>11 DEF Placed
<1>13. ASSUME NEW i \in JobNos
       PROVE  /\ Waits(i)' \/ Doing(i)' # "none" => Waits(i)
              /\ Waits(i)' => Doing(i)' = "none"
              /\ \A c \in Clients : Posted(c, i)' => ~ Waits(i)' /\ Doing(i)' = "none"
  BY <1>1, <1>4, <1>10, <1>11 DEF Placing
<1>14. PlaceTurn
  BY <1>3, <1>4, <1>5, <1>8, <1>9, <1>10, <1>11, <1>12, <1>13 DEF PlaceTurn
<1> QED BY <1>3, <1>6, <1>7, <1>8, <1>14 DEF Turn, CacheEarned

\* A posted job is queued.
LEMMA QueueTurns ==
  ASSUME RemoteSound, NEW c \in Clients, SubmitQueue(c)
  PROVE  Turn /\ CacheEarned
<1>1. Types /\ Placing /\ Lives /\ \A i \in JobNos : Keyed(i)
  BY DEF RemoteSound
<1>2. PICK j : j = client[c].job
  OBVIOUS
<1>3. /\ client[c].at = "posted" /\ call[c].at = "none" /\ queue' = Append(queue, j) /\ Moves(c, "stream")
      /\ UNCHANGED <<wjobs, disk, thread, process, daemon, call, closing, submitted, cache>>
      /\ j \in JobNos /\ Posted(c, j) /\ Placed(j)
  BY <1>1, <1>2 DEF SubmitQueue, NoCall, Types, Posted, Placed
<1>4. ~ Waits(j) /\ Doing(j) = "none" /\ \A d \in Clients : Posted(d, j) => d = c
  BY <1>1, <1>3 DEF Placing
<1>5. ClientMoved(c)
  BY <1>1, <1>3, MovesMoved
<1>6. /\ queue' \in Seq(JobNos) /\ Len(queue') = Len(queue) + 1 /\ Len(queue) \in Nat
      /\ queue'[Len(queue')] = j /\ \A m \in 1..Len(queue) : queue'[m] = queue[m]
  BY <1>1, <1>3 DEF Types
<1>7. QueueOnce'
  <2>1. QueueOnce /\ \A m \in 1..Len(queue) : queue[m] # j
    BY <1>1, <1>4 DEF Placing, Waits
  <2> QED BY <1>6, <2>1 DEF QueueOnce
<1>8. Waits(j)' /\ \A i \in JobNos : i # j => (Waits(i)' <=> Waits(i))
  BY <1>3, <1>6 DEF Waits
<1>9. \A i \in JobNos : Doing(i)' = Doing(i)
  BY <1>3 DEF Doing
<1>10. \A d \in Clients, i \in JobNos : Posted(d, i)' => Posted(d, i) /\ d # c /\ i # j
  <2>1. \A d \in Clients, i \in JobNos : Posted(d, i)' => Posted(d, i) /\ d # c
    BY <1>1, <1>5, MovedTyped
  <2> QED BY <1>4, <2>1
<1>11. \A i \in JobNos : Placed(i)' => Placed(i)
  BY <1>3, <1>8, <1>9, <1>10 DEF Placed
<1>12. ASSUME NEW i \in JobNos
       PROVE  /\ Waits(i)' => Doing(i)' = "none"
              /\ \A d \in Clients : Posted(d, i)' => ~ Waits(i)' /\ Doing(i)' = "none"
              /\ Waits(i)' \/ Doing(i)' # "none" =>
                   \/ Waits(i) \/ Doing(i) # "none"
                   \/ \E d \in Clients : Posted(d, i) /\ call[d].at = "none"
  BY <1>1, <1>3, <1>4, <1>8, <1>9, <1>10 DEF Placing
<1>13. EndsLater /\ RecordsRest
  BY <1>1, <1>3 DEF EndsLater, RecordsRest, Types, Serving
<1>14. JobsTurn /\ CallsTurn
  BY <1>1, <1>3, <1>13, JobsRest, CallsRest
<1>15. PlaceTurn
  <2>1. thread' = thread /\ process' = process /\ call' = call
    BY <1>3
  <2>2. thread \in [at : {"idle"} \cup Places, job : 0..JobCount] /\ (thread.at # "idle" => thread.job \in JobNos)
    BY <1>1 DEF Types
  <2>3. \A i \in JobNos : Doing(i) = "none" \/ Doing(i) \in Places
    BY <2>2 DEF Doing
  <2> QED BY <1>6, <1>7, <1>9, <1>10, <1>11, <1>12, <2>1, <2>2, <2>3 DEF PlaceTurn
<1>16. ClosingTurn
  <2>1. Serving
    BY <1>1, <1>3 DEF Lives
  <2> QED BY <1>1, <1>3, <2>1 DEF ClosingTurn, Types
<1> QED BY <1>3, <1>5, <1>14, <1>15, <1>16 DEF Turn, CacheEarned

\* The restart request.
LEMMA RestartTurns ==
  ASSUME RemoteSound, RestartDaemon \/ RestartSteps
  PROVE  Turn /\ CacheEarned
<1>1. Types /\ Placing /\ Lives /\ (\A i \in JobNos : Keyed(i)) /\ "restart" \in Actors
  BY DEF RemoteSound, Actors
<1>2. CASE RestartDaemon \/ ExitSoon
  <2>1. /\ UNCHANGED <<wjobs, disk, queue, thread, process, call, submitted, client, cache>>
        /\ daemon' \in {"restarting", "exiting"} /\ Serving /\ Serving'
        /\ closing' = closing \/ closing' = {j \in JobNos : Live(j)}
    BY <1>2 DEF RestartDaemon, ExitSoon, Serving
  <2>2. EndsLater /\ RecordsRest
    BY <1>1, <2>1 DEF EndsLater, RecordsRest, Types
  <2>3. JobsTurn /\ CallsTurn /\ PlaceTurn
    BY <1>1, <2>1, <2>2, JobsRest, CallsRest, PlaceRest DEF Posted
  <2>4. ClosingTurn
    BY <1>1, <2>1 DEF ClosingTurn, Types
  <2> QED BY <2>1, <2>3, <2>4 DEF Turn, CacheEarned
<1>3. ASSUME NEW j \in JobNos, MarkInterrupted(j)
      PROVE  Turn /\ CacheEarned
  <2> DEFINE marked == [wjobs EXCEPT ![j].flags = @ \cup {"interrupted"}]
  <2>1. /\ UNCHANGED <<disk, queue, thread, daemon, submitted, client, cache>>
        /\ Serving /\ Serving' /\ j \in closing /\ closing' = closing \ {j}
        /\ wjobs' = marked /\ SetStatus("restart", marked, j, "failed", "worker_restarted", "none")
    BY <1>3 DEF MarkInterrupted, Serving
  <2>2. EndsLater
    BY <1>1, <1>3, KilledEnds DEF MarkInterrupted
  <2>3. RecordsRest
    BY <2>1 DEF RecordsRest
  <2>4. Known(wjobs[j])
    BY <1>1, <2>1 DEF Keyed
  <2>5. JobsTurn /\ "interrupted" \in wjobs'[j].flags /\ wjobs'[j].status = wjobs[j].status
    BY <1>1, <2>1, <2>2, <2>3, <2>4, JobsFlagged
  <2> HIDE DEF marked
  <2>6. call' = call \/ (~ ("interrupted" \in marked[j].flags /\ Terminal(marked[j]))
                         /\ Sets("restart", j, "failed", "worker_restarted", "none"))
    BY <1>1, <2>1, SetStatusSets DEF Moved, Codes, Shown
  <2>7. CallsTurn /\ \A c \in Clients : call'[c] = call[c]
    <3>1. CASE call' = call
      BY <1>1, <3>1, CallsRest
    <3>2. CASE /\ ~ ("interrupted" \in marked[j].flags /\ Terminal(marked[j]))
               /\ Sets("restart", j, "failed", "worker_restarted", "none")
      <4>1. Begun("restart")
        BY <2>1, <2>4, <2>5, <3>2, RemoteAssumption DEF Begun, Sets, Terminal
      <4> QED BY <1>1, <3>2, <4>1, CallBegins, RemoteAssumption DEF Actors
    <3> QED BY <2>6, <3>1, <3>2
  <2>8. PlaceTurn
    BY <1>1, <2>1, <2>2, <2>7, PlaceRest DEF Posted
  <2>9. ClosingTurn
    BY <1>1, <2>1 DEF ClosingTurn, Types
  <2> QED BY <2>1, <2>5, <2>7, <2>8, <2>9 DEF Turn, CacheEarned
<1> QED BY <1>2, <1>3 DEF RestartSteps

-----------------------------------------------------------------------------
(* The steps that write.                                                   *)

\* Where the thread persists its job.
Persisted == {<<"begun", "setup">>, <<"record", "wait">>}

\* A job is changed in memory and serialized.
LEMMA RewriteKeeps ==
  ASSUME RemoteSound, Serving, NEW a \in Actors, NEW j \in JobNos, NEW rec \in Records, NEW status,
         Wrote(a, j, rec, status), call[a].at # "write", j =< submitted,
         Known(wjobs[j]), Known(rec), rec.key = wjobs[j].key, wjobs[j].flags \subseteq rec.flags,
         Real(j, rec.result),
         UNCHANGED <<disk, queue, process, daemon, closing, submitted, client, cache>>,
         thread' \in [at : {"idle"} \cup Places, job : 0..JobCount],
         thread'.at # "idle" => thread'.job \in JobNos,
         thread' = thread \/ a = "thread",
         \A i \in JobNos : Doing(i)' = Doing(i) \/ <<Doing(i), Doing(i)'>> \in Persisted,
         Marked(j)', Kept(j)', SharedRun'
  PROVE  RemoteSound'
<1>1. /\ Types /\ Placing /\ Lives /\ Calling /\ ClientSound /\ SharedRun
      /\ \A i \in JobNos : Keyed(i) /\ Resulted(i) /\ Marked(i) /\ Kept(i)
  BY DEF RemoteSound
<1>2. /\ wjobs' \in [JobNos -> Records] /\ wjobs'[j] = rec
      /\ \A i \in JobNos : i # j => wjobs'[i] = wjobs[i]
      /\ call' \in [Actors -> Calls]
      /\ \A b \in Actors : b # a => call'[b] = call[b]
      /\ call'[a].at = "write" /\ call'[a].job = j /\ call'[a].payload = Record(rec)
      /\ call'[a].result = "none"
  BY DEF Wrote
<1>3. /\ Record(rec).key = rec.key /\ Record(rec).status = rec.status /\ Record(rec).result = rec.result
      /\ Record(rec).code = rec.code
  BY RecordTyped
<1>a. \A i \in JobNos : \/ Doing(i)' = Doing(i)
                        \/ Doing(i) = "begun" /\ Doing(i)' = "setup"
                        \/ Doing(i) = "record" /\ Doing(i)' = "wait"
  BY DEF Persisted
<1>4. Types'
  <2>1. \A b \in Actors : /\ call'[b].at # "none" => call'[b].job \in JobNos
                          /\ call'[b].at = "set" => call'[b].status # "none"
    BY <1>1, <1>2 DEF Types
  <2> QED BY <1>1, <1>2, <2>1 DEF Types
<1>5. \A i \in JobNos : /\ Waits(i)' <=> Waits(i)
                        /\ \A c \in Clients : Posted(c, i)' <=> Posted(c, i)
                        /\ Placed(i)' <=> Placed(i)
  <2>1. \A i \in JobNos : Waits(i)' <=> Waits(i)
    BY DEF Waits
  <2>2. \A i \in JobNos : \A c \in Clients : Posted(c, i)' <=> Posted(c, i)
    BY DEF Posted
  <2> QED BY <1>a, <2>1, <2>2 DEF Placed
<1>6. Placing'
  <2>1. QueueOnce'
    BY <1>1 DEF Placing, QueueOnce
  <2>2. ASSUME NEW i \in JobNos
        PROVE  /\ Waits(i)' => Doing(i)' = "none"
               /\ \A c \in Clients : Posted(c, i)' =>
                    ~ Waits(i)' /\ Doing(i)' = "none" /\ \A d \in Clients : Posted(d, i)' => d = c
               /\ Placed(i)' /\ Doing(i)' \notin {"record", "wait", "stalled", "cleanup"} =>
                    process'[i] = "none"
               /\ Doing(i)' \in {"record", "wait"} => process'[i] # "none"
               /\ i > submitted' => ~ Placed(i)' /\ process'[i] = "none"
    BY <1>1, <1>a, <1>5 DEF Placing
  <2> QED BY <2>1, <2>2 DEF Placing
<1>7. Lives'
  <2>1. Serving'
    BY DEF Serving
  <2>2. ASSUME NEW i \in JobNos, i > submitted'
        PROVE  wjobs'[i] = NoJob /\ disk'[i] = NoJob /\ \A b \in Actors : ~ Under(b, i)'
    <3>1. i # j
      BY <1>1, <2>2 DEF Types, JobNos
    <3> QED BY <1>1, <1>2, <2>2, <3>1 DEF Lives, Under
  <2> QED BY <2>1, <2>2 DEF Lives
<1>8. \A i \in JobNos : (Known(wjobs'[i]) <=> Known(wjobs[i])) /\ wjobs'[i].key = wjobs[i].key
  BY <1>2
<1>9. ASSUME NEW i \in JobNos
      PROVE  Keyed(i)'
  <2>1. /\ Serving' /\ Known(disk'[i]) => Known(wjobs'[i]) /\ wjobs'[i].key = disk'[i].key
        /\ Placed(i)' \/ i \in closing' => Known(wjobs'[i])
        /\ ~ Known(disk'[i]) => disk'[i].code = "none"
    BY <1>1, <1>5, <1>8 DEF Keyed
  <2>2. ASSUME NEW b \in Actors, Under(b, i)'
        PROVE  /\ Known(wjobs'[i])
               /\ call'[b].at = "write" => Known(call'[b].payload) /\ call'[b].payload.key = wjobs'[i].key
    <3>1. CASE b = a
      <4>1. i = j
        BY <1>2, <2>2, <3>1 DEF Under
      <4> QED BY <1>2, <1>3, <3>1, <4>1 DEF Known
    <3>2. CASE b # a
      BY <1>1, <1>2, <1>8, <2>2, <3>2 DEF Keyed, Under
    <3> QED BY <3>1, <3>2
  <2>3. Waits(i)' \/ Doing(i)' # "none" \/ process'[i] # "none" => Known(disk'[i])
    BY <1>1, <1>a, <1>5 DEF Keyed
  <2>4. ASSUME NEW c \in Clients, Posted(c, i)'
        PROVE  Known(disk'[i]) \/ (Under(c, i)' /\ call'[c].at = "write")
    <3>1. c \in Actors
      BY DEF Actors
    <3>2. Known(disk[i]) \/ (Under(c, i) /\ call[c].at = "write" /\ c # a)
      BY <1>1, <1>5, <2>4 DEF Keyed
    <3> QED BY <1>2, <3>1, <3>2 DEF Under
  <2> QED BY <2>1, <2>2, <2>3, <2>4 DEF Keyed
<1>10. ASSUME NEW i \in JobNos
       PROVE  Resulted(i)'
  <2>1. ASSUME NEW b \in Actors, Under(b, i)'
        PROVE  Real(i, call[b].result)' /\ Real(i, call[b].payload.result)'
    <3>1. CASE b = a
      <4>1. i = j
        BY <1>2, <2>1, <3>1 DEF Under
      <4> QED BY <1>2, <1>3, <3>1, <4>1 DEF Real
    <3>2. CASE b # a
      BY <1>1, <1>2, <2>1, <3>2 DEF Resulted, Under, Real
    <3> QED BY <3>1, <3>2
  <2>2. Real(i, wjobs[i].result)' /\ Real(i, disk[i].result)'
    BY <1>1, <1>2 DEF Resulted, Real
  <2> QED BY <2>1, <2>2 DEF Resulted
<1>11. Calling'
  <2>1. \A i \in JobNos : wjobs[i].flags \subseteq wjobs'[i].flags
    BY <1>2
  <2>2. \A b \in Actors : call'[b].at = "set" => b # a /\ call'[b] = call[b] /\ call[b].job \in JobNos
    BY <1>1, <1>2 DEF Types
  <2>3. ASSUME NEW c \in Clients, call'[c].at = "set"
        PROVE  /\ "cancel_requested" \in wjobs'[call'[c].job].flags
               /\ call'[c].status = "cancelled" /\ call'[c].code = "none"
    <3>1. c \in Actors
      BY DEF Actors
    <3> QED BY <1>1, <2>1, <2>2, <2>3, <3>1 DEF Calling
  <2>4. ASSUME call'["restart"].at = "set"
        PROVE  /\ "interrupted" \in wjobs'[call'["restart"].job].flags
               /\ call'["restart"].status = "failed" /\ call'["restart"].code = "worker_restarted"
    <3>1. "restart" \in Actors
      BY DEF Actors
    <3> QED BY <1>1, <2>1, <2>2, <2>4, <3>1 DEF Calling
  <2>5. ASSUME call'["thread"].at = "set"
        PROVE  LET c == call'["thread"] IN
               /\ c.code # "worker_restarted"
               /\ \/ c.status = "running" /\ thread'.at = "begun" /\ thread'.job = c.job
                  \/ c.status # "running" /\ thread'.at \in {"stalled", "cleanup"} /\ thread'.job = c.job
                  \/ /\ c.status # "running" /\ thread'.at = "idle"
                     /\ wjobs'[c.job].flags \cap {"cancel_requested", "interrupted"} # {}
    <3>1. "thread" \in Actors
      BY DEF Actors
    <3>2. thread' = thread /\ call'["thread"] = call["thread"] /\ call["thread"].job \in JobNos
      BY <2>2, <2>5, <3>1
    <3> QED BY <1>1, <2>1, <2>5, <3>2 DEF Calling, Flagged
  <2> QED BY <2>3, <2>4, <2>5 DEF Calling, Flagged
<1>12. ASSUME NEW i \in JobNos
       PROVE  Marked(i)' /\ Kept(i)'
  <2>1. CASE i = j
    BY <2>1
  <2>2. CASE i # j
    <3>1. wjobs'[i] = wjobs[i] /\ disk' = disk /\ Serving
      BY <1>2, <2>2
    <3>2. Marked(i)'
      BY <1>1, <1>a, <1>5, <3>1 DEF Marked, Live, Flagged
    <3>3. \A b \in Actors : Under(b, i)' => Under(b, i) /\ call'[b] = call[b]
      BY <1>2, <2>2 DEF Under
    <3>4. Kept(i)'
      BY <1>1, <1>5, <3>1, <3>3 DEF Kept, Terminal
    <3> QED BY <3>2, <3>4
  <2> QED BY <2>1, <2>2
<1>13. ClientSound'
  <2>1. Remembers
    BY <1>1, EndsStay, RemoteAssumption DEF Types
  <2>2. KeysStay
    BY <1>1, <1>8, RemoteAssumption DEF KeysStay, Types
  <2>3. ClientsMoved /\ CacheEarned
    BY ClientMovedMoves DEF CacheEarned
  <2> QED BY <1>1, <2>1, <2>2, <2>3, ClientsTurn
<1> QED BY <1>4, <1>6, <1>7, <1>9, <1>10, <1>11, <1>12, <1>13 DEF RemoteSound

\* The fields and the status that a call sets.
LEMMA AssignKeeps ==
  ASSUME RemoteSound, NEW a \in Actors, Assign(a)
  PROVE  RemoteSound'
<1>1. /\ Types /\ Placing /\ Lives /\ Calling /\ SharedRun
      /\ \A i \in JobNos : Keyed(i) /\ Resulted(i) /\ Marked(i) /\ Kept(i)
  BY DEF RemoteSound
<1>2. PICK c \in Calls : c = call[a]
  BY <1>1 DEF Types
<1>3. PICK j \in JobNos : j = c.job
  BY <1>1, <1>2 DEF Types, Assign
<1>4. c.at = "set" /\ c.status # "none" /\ Under(a, j) /\ wjobs[j] \in Records
  BY <1>1, <1>2, <1>3 DEF Types, Assign, Under
<1> DEFINE raced == IF a = "restart" /\ \E b \in Actors \ {a} : call[b].job = j THEN {"raced"} ELSE {}
           rec == [Passed(wjobs[j], c) EXCEPT !.flags = @ \cup raced]
<1>5. /\ rec \in Records /\ rec.key = wjobs[j].key /\ rec.flags = wjobs[j].flags \cup raced
      /\ rec.status = c.status
      /\ rec.code = IF c.code = "none" THEN wjobs[j].code ELSE c.code
      /\ rec.result = IF c.result = "none" THEN wjobs[j].result ELSE c.result
  <2>1. raced \in SUBSET {"cancel_requested", "interrupted", "stalled", "raced"}
    OBVIOUS
  <2> HIDE DEF raced
  <2> QED BY <1>4, <2>1, PassedTyped, FlagsTyped
<1>6. /\ Persists(a, j, rec, c.status)
      /\ UNCHANGED <<disk, queue, thread, process, daemon, closing, submitted, client, cache>>
  BY <1>2, <1>3 DEF Assign
<1>7. a = "restart" /\ "raced" \notin rec.flags => \A b \in Actors : b # a => call[b].job # j
  BY <1>5
<1> HIDE DEF raced, rec
<1>8. c.status \in Moved
  BY <1>4 DEF Calls
<1>9. Wrote(a, j, rec, c.status)
  BY <1>1, <1>5, <1>6, <1>8, PersistsWrote
<1>10. /\ Serving /\ j =< submitted /\ Known(wjobs[j]) /\ Known(rec)
  <2>1. Serving /\ ~ (j > submitted)
    BY <1>1, <1>4 DEF Lives, Under
  <2>2. Known(wjobs[j])
    BY <1>1, <1>4 DEF Keyed
  <2>3. Known(rec)
    BY <1>5, <1>8 DEF Known, Moved
  <2> QED BY <1>1, <2>1, <2>2, <2>3 DEF Types, JobNos
<1>11. wjobs[j].flags \subseteq rec.flags /\ Real(j, rec.result)
  BY <1>1, <1>2, <1>4, <1>5 DEF Resulted, Real
<1>12. /\ \A i \in JobNos : Doing(i)' = Doing(i)
       /\ \A i \in JobNos : Placed(i)' <=> Placed(i)
       /\ thread' \in [at : {"idle"} \cup Places, job : 0..JobCount]
       /\ thread'.at # "idle" => thread'.job \in JobNos
  BY <1>1, <1>6 DEF Doing, Placed, Waits, Posted, Types
<1>13. /\ wjobs'[j] = rec /\ \A i \in JobNos : i # j => wjobs'[i] = wjobs[i]
       /\ \A b \in Actors : b # a => call'[b] = call[b]
       /\ call'[a].at = "write" /\ call'[a].job = j /\ call'[a].payload = Record(rec)
       /\ Record(rec).code = rec.code /\ Record(rec).status = rec.status
  BY <1>5, <1>9, RecordTyped DEF Wrote
\* Why: a client cancels, a restart closes; the thread runs, or closes what it ran.
<1>14. \/ a \in Clients /\ "cancel_requested" \in wjobs[j].flags /\ c.status = "cancelled" /\ c.code = "none"
       \/ a = "restart" /\ "interrupted" \in wjobs[j].flags /\ c.status = "failed" /\ c.code = "worker_restarted"
       \/ /\ a = "thread" /\ c.code # "worker_restarted"
          /\ \/ c.status = "running" /\ Doing(j) = "begun" /\ Placed(j)
             \/ c.status # "running" /\ Doing(j) \in {"stalled", "cleanup"}
             \/ c.status # "running" /\ Flagged(j)
  <2>1. CASE a \in Clients
    BY <1>1, <1>2, <1>3, <1>4, <2>1 DEF Calling
  <2>2. CASE a = "restart"
    BY <1>1, <1>2, <1>3, <1>4, <2>2 DEF Calling
  <2>3. CASE a = "thread"
    BY <1>1, <1>2, <1>3, <1>4, <2>3 DEF Calling, Doing, Placed
  <2> QED BY <2>1, <2>2, <2>3 DEF Actors
<1>15. Marked(j)'
  <2>1. Flagged(j) => Flagged(j)'
    BY <1>5, <1>13 DEF Flagged
  <2>2. c.status = "running" => Live(j)'
    BY <1>5, <1>13 DEF Live
  <2> QED BY <1>12, <1>14, <2>1, <2>2 DEF Marked, Flagged
<1>16. Kept(j)'
  <2> SUFFICES ASSUME "raced" \notin rec.flags PROVE Kept(j)'
    BY <1>13 DEF Kept
  <2>1. "raced" \notin wjobs[j].flags /\ Serving
    BY <1>5, <1>10
  <2>2. wjobs[j].code # "worker_restarted"
    BY <1>1, <1>2, <1>4, <2>1 DEF Kept
  <2>3. disk[j].code # "worker_restarted"
    BY <1>1, <2>1, <2>2 DEF Kept
  <2>4. \A b \in Actors : Under(b, j) => call[b].payload.code # "worker_restarted"
    BY <1>1, <2>1, <2>2 DEF Kept
  <2>5. CASE a = "restart"
    <3>1. /\ rec.code = "worker_restarted" /\ rec.status = "failed" /\ "interrupted" \in rec.flags
      BY <1>5, <1>11, <1>14, <2>5, RemoteAssumption DEF Actors
    <3>2. \A b \in Actors : Under(b, j)' => b = a
      BY <1>7, <1>13, <2>5 DEF Under
    <3> QED BY <1>6, <1>13, <2>3, <3>1, <3>2 DEF Kept, Terminal
  <2>6. CASE a # "restart"
    <3>1. rec.code # "worker_restarted"
      BY <1>5, <1>14, <2>2, <2>6
    <3>2. \A b \in Actors : Under(b, j)' => call'[b].payload.code # "worker_restarted"
      BY <1>13, <2>4, <3>1 DEF Under
    <3> QED BY <1>6, <1>13, <2>3, <3>1, <3>2 DEF Kept
  <2> QED BY <2>5, <2>6
<1>17. SharedRun'
  <2>1. \A i \in JobNos : wjobs'[i].key = wjobs[i].key /\ wjobs[i].flags \subseteq wjobs'[i].flags
    BY <1>5, <1>11, <1>13
  <2>2. Live(j)' => Live(j) \/ Flagged(j)
    <3>1. Live(j)' => c.status = "running"
      BY <1>5, <1>8, <1>13 DEF Live, Moved
    <3>2. Placed(j) /\ Doing(j) = "begun" => Live(j) \/ Flagged(j)
      BY <1>1 DEF Marked
    <3> QED BY <1>14, <3>1, <3>2
  <2>3. \A i \in JobNos : Live(i)' => Live(i) \/ Flagged(i)
    BY <1>13, <2>2 DEF Live
  <2> QED BY <1>1, <2>1, <2>3 DEF SharedRun, Flagged
<1> QED BY <1>4, <1>5, <1>2, <1>6, <1>9, <1>10, <1>11, <1>12, <1>15, <1>16, <1>17, RewriteKeeps

\* The thread persists its job, as it is or with the process recorded.
LEMMA PersistKeeps ==
  ASSUME RemoteSound, RecordWorktree \/ RecordChild
  PROVE  RemoteSound'
<1>1. /\ Types /\ Placing /\ Lives /\ SharedRun
      /\ \A i \in JobNos : Keyed(i) /\ Resulted(i) /\ Marked(i) /\ Kept(i)
  BY DEF RemoteSound
<1>2. PICK j \in JobNos : j = thread.job
  BY <1>1 DEF Types, RecordWorktree, RecordChild, At
<1>3. /\ Serving /\ call["thread"].at = "none" /\ "thread" \in Actors
      /\ UNCHANGED <<disk, queue, process, daemon, closing, submitted, client, cache>>
  BY DEF RecordWorktree, RecordChild, At, NoCall, Actors
<1>4. PICK rec \in Records :
        /\ Persists("thread", j, rec, "none") /\ rec.key = wjobs[j].key /\ rec.flags = wjobs[j].flags
        /\ rec.status = wjobs[j].status /\ rec.code = wjobs[j].code /\ rec.result = wjobs[j].result
  <2>1. wjobs[j] \in Records
    BY <1>1 DEF Types
  <2>2. CASE RecordWorktree
    BY <1>2, <2>1, <2>2 DEF RecordWorktree
  <2>3. CASE RecordChild
    <3> DEFINE new == [wjobs[j] EXCEPT !.child = TRUE]
    <3>1. /\ new \in Records /\ new.key = wjobs[j].key /\ new.flags = wjobs[j].flags
          /\ new.status = wjobs[j].status /\ new.code = wjobs[j].code /\ new.result = wjobs[j].result
      BY <2>1 DEF Records
    <3>2. Persists("thread", j, new, "none")
      BY <1>2, <2>3 DEF RecordChild
    <3> HIDE DEF new
    <3> QED BY <3>1, <3>2
  <2> QED BY <2>2, <2>3
<1>5. PICK p \in Persisted : thread.at = p[1] /\ GoesTo(p[2])
  BY DEF RecordWorktree, RecordChild, At, Persisted
<1>6. Wrote("thread", j, rec, "none")
  BY <1>1, <1>3, <1>4, PersistsWrote
<1>7. Doing(j) = p[1] /\ p[1] \in {"begun", "record"} /\ p[2] \in {"setup", "wait"} /\ Placed(j)
  BY <1>2, <1>5 DEF Doing, Placed, Persisted
<1>8. Known(wjobs[j]) /\ Known(rec) /\ Real(j, rec.result) /\ j =< submitted
  <2>1. Known(wjobs[j])
    BY <1>1, <1>7 DEF Keyed
  <2>2. ~ (j > submitted)
    BY <1>1, <1>7 DEF Placing
  <2> QED BY <1>1, <1>4, <2>1, <2>2 DEF Known, Resulted, Types, JobNos
<1>9. thread' \in [at : {"idle"} \cup Places, job : 0..JobCount] /\ thread'.at = p[2] /\ thread'.job = j
  BY <1>1, <1>2, <1>5, <1>7 DEF GoesTo, Types, Places
<1>10. \A i \in JobNos : Doing(i)' = Doing(i) \/ <<Doing(i), Doing(i)'>> \in Persisted
  <2>1. Doing(j)' = p[2] /\ <<p[1], p[2]>> \in Persisted
    BY <1>7, <1>9 DEF Doing, Persisted
  <2>2. \A i \in JobNos : i # j => Doing(i)' = Doing(i)
    BY <1>2, <1>9 DEF Doing
  <2> QED BY <1>7, <2>1, <2>2
<1>11. \A i \in JobNos : Placed(i)' <=> Placed(i)
  BY <1>2, <1>3, <1>5, <1>7, <1>9 DEF Doing, Placed, Waits, Posted
<1>12. /\ wjobs'[j] = rec /\ \A i \in JobNos : i # j => wjobs'[i] = wjobs[i]
       /\ \A b \in Actors : b # "thread" => call'[b] = call[b]
       /\ call'["thread"].at = "write" /\ call'["thread"].payload = Record(rec)
       /\ Record(rec).code = rec.code /\ Record(rec).status = rec.status
  BY <1>4, <1>6, RecordTyped DEF Wrote
<1>13. Marked(j)'
  BY <1>1, <1>4, <1>7, <1>12 DEF Marked, Live, Flagged
<1>14. Kept(j)'
  <2> SUFFICES ASSUME "raced" \notin wjobs[j].flags PROVE Kept(j)'
    BY <1>4, <1>12 DEF Kept
  <2>1. ASSUME rec.code = "worker_restarted", NEW b \in Actors, Under(b, j)'
        PROVE  /\ call'[b].at = "write" /\ call'[b].payload.code = "worker_restarted"
               /\ call'[b].payload.status = rec.status
    <3>1. CASE b = "thread"
      BY <1>12, <2>1, <3>1
    <3>2. CASE b # "thread"
      <4>1. call'[b] = call[b] /\ Under(b, j) /\ wjobs[j].code = "worker_restarted"
        BY <1>4, <1>12, <2>1, <3>2 DEF Under
      <4>2. call[b].at = "write" /\ call[b].payload.code = "worker_restarted"
            /\ call[b].payload.status = wjobs[j].status
        BY <1>1, <1>3, <4>1 DEF Kept
      <4> QED BY <1>4, <4>1, <4>2
    <3> QED BY <3>1, <3>2
  <2>2. rec.code = "worker_restarted" => Terminal(rec) /\ "interrupted" \in rec.flags
    BY <1>1, <1>3, <1>4, <1>7 DEF Kept, Terminal
  <2>3. disk'[j].code = "worker_restarted" => rec.code = "worker_restarted" /\ rec.status = disk'[j].status
    BY <1>1, <1>3, <1>4 DEF Kept
  <2>4. ASSUME NEW b \in Actors, Under(b, j)', call'[b].payload.code = "worker_restarted"
        PROVE  rec.code = "worker_restarted"
    <3>1. CASE b = "thread"
      BY <1>12, <2>4, <3>1
    <3>2. CASE b # "thread"
      BY <1>1, <1>3, <1>4, <1>12, <2>4, <3>2 DEF Kept, Under
    <3> QED BY <3>1, <3>2
  <2> QED BY <1>12, <2>1, <2>2, <2>3, <2>4 DEF Kept
<1>15. SharedRun'
  <2>1. \A i \in JobNos : /\ wjobs'[i].key = wjobs[i].key /\ wjobs'[i].flags = wjobs[i].flags
                          /\ wjobs'[i].status = wjobs[i].status
    BY <1>4, <1>12
  <2> QED BY <1>1, <2>1 DEF SharedRun, Live
<1> QED BY <1>3, <1>4, <1>6, <1>8, <1>9, <1>10, <1>13, <1>14, <1>15, RewriteKeeps

\* The record is written.
LEMMA WriteRecordKeeps ==
  ASSUME RemoteSound, NEW a \in Actors, WriteRecord(a)
  PROVE  RemoteSound'
<1>1. /\ Types /\ Placing /\ Lives /\ Calling /\ SharedRun /\ ClientSound
      /\ \A i \in JobNos : Keyed(i) /\ Resulted(i) /\ Marked(i) /\ Kept(i)
  BY DEF RemoteSound
<1>2. PICK j \in JobNos : j = call[a].job
  BY <1>1 DEF Types, WriteRecord
<1>3. PICK payload \in Records : payload = call[a].payload
  BY <1>1 DEF Types, Calls
<1>4. /\ Under(a, j) /\ call[a].at = "write" /\ disk' = [disk EXCEPT ![j] = payload]
      /\ call' = [call EXCEPT ![a] = NoCall]
      /\ UNCHANGED <<wjobs, queue, thread, daemon, closing, submitted, client, cache>>
  BY <1>2, <1>3 DEF WriteRecord, Under
<1>5. EndsLater
  BY <1>1, KilledEnds DEF WriteRecord
<1>6. /\ disk' \in [JobNos -> Records] /\ disk'[j] = payload
      /\ \A i \in JobNos : i # j => disk'[i] = disk[i]
  BY <1>1, <1>4 DEF Types
<1>7. /\ call' \in [Actors -> Calls] /\ call'[a].at = "none"
      /\ \A b \in Actors : b # a => call'[b] = call[b]
  BY <1>1, <1>4, NoJobTyped DEF Types, NoCall
<1>8. Serving /\ Serving' /\ ~ (j > submitted)
  BY <1>1, <1>4 DEF Lives, Under, Serving
<1>9. Known(wjobs[j]) /\ Known(payload) /\ payload.key = wjobs[j].key
  BY <1>1, <1>3, <1>4 DEF Keyed
<1>10. \A i \in JobNos : /\ (Placed(i)' <=> Placed(i)) /\ (Waits(i)' <=> Waits(i)) /\ Doing(i)' = Doing(i)
                         /\ \A c \in Clients : Posted(c, i)' <=> Posted(c, i)
  BY <1>4 DEF Placed, Waits, Doing, Posted
<1>11. \A b \in Actors, i \in JobNos : Under(b, i)' => Under(b, i) /\ call'[b] = call[b]
  BY <1>7 DEF Under
<1>12. Types'
  <2>1. \A b \in Actors : /\ call'[b].at # "none" => call'[b].job \in JobNos
                          /\ call'[b].at = "set" => call'[b].status # "none"
    BY <1>1, <1>7 DEF Types
  <2> QED BY <1>1, <1>4, <1>5, <1>6, <1>7, <2>1 DEF Types, EndsLater
<1>13. Placing'
  <2>1. QueueOnce'
    BY <1>1, <1>4 DEF Placing, QueueOnce
  <2>2. ASSUME NEW i \in JobNos
        PROVE  /\ Waits(i)' => Doing(i)' = "none"
               /\ \A c \in Clients : Posted(c, i)' =>
                    ~ Waits(i)' /\ Doing(i)' = "none" /\ \A d \in Clients : Posted(d, i)' => d = c
               /\ Placed(i)' /\ Doing(i)' \notin {"record", "wait", "stalled", "cleanup"} =>
                    process'[i] = "none"
               /\ Doing(i)' \in {"record", "wait"} => process'[i] # "none"
               /\ i > submitted' => ~ Placed(i)' /\ process'[i] = "none"
    BY <1>1, <1>4, <1>5, <1>10 DEF Placing, EndsLater
  <2> QED BY <2>1, <2>2 DEF Placing
<1>14. Lives'
  <2>1. ASSUME NEW i \in JobNos, i > submitted'
        PROVE  wjobs'[i] = NoJob /\ disk'[i] = NoJob /\ \A b \in Actors : ~ Under(b, i)'
    BY <1>1, <1>4, <1>6, <1>8, <1>11, <2>1 DEF Lives
  <2> QED BY <1>8, <2>1 DEF Lives
<1>15. ASSUME NEW i \in JobNos
       PROVE  Keyed(i)'
  <2>1. Serving' /\ Known(disk'[i]) => Known(wjobs'[i]) /\ wjobs'[i].key = disk'[i].key
    BY <1>1, <1>4, <1>6, <1>8, <1>9 DEF Keyed
  <2>2. Placed(i)' \/ i \in closing' => Known(wjobs'[i])
    BY <1>1, <1>4, <1>10 DEF Keyed
  <2>3. ~ Known(disk'[i]) => disk'[i].code = "none"
    BY <1>1, <1>6, <1>9 DEF Keyed
  <2>4. ASSUME NEW b \in Actors, Under(b, i)'
        PROVE  /\ Known(wjobs'[i])
               /\ call'[b].at = "write" => Known(call'[b].payload) /\ call'[b].payload.key = wjobs'[i].key
    BY <1>1, <1>4, <1>11, <2>4 DEF Keyed
  <2>5. Known(disk[i]) => Known(disk'[i])
    BY <1>6, <1>9
  <2>6. Waits(i)' \/ Doing(i)' # "none" \/ process'[i] # "none" => Known(disk'[i])
    BY <1>1, <1>5, <1>10, <2>5 DEF Keyed, EndsLater
  <2>7. ASSUME NEW c \in Clients, Posted(c, i)'
        PROVE  Known(disk'[i]) \/ (Under(c, i)' /\ call'[c].at = "write")
    <3>1. c \in Actors /\ Posted(c, i)
      BY <1>10, <2>7 DEF Actors
    <3>2. Known(disk[i]) \/ (Under(c, i) /\ call[c].at = "write")
      BY <1>1, <3>1 DEF Keyed
    <3>3. CASE Under(c, i) /\ c = a
      <4>1. i = j
        BY <1>2, <3>3 DEF Under
      <4> QED BY <1>6, <1>9, <4>1
    <3>4. CASE Under(c, i) /\ call[c].at = "write" /\ c # a
      BY <1>7, <3>1, <3>4 DEF Under
    <3> QED BY <2>5, <3>2, <3>3, <3>4
  <2> QED BY <2>1, <2>2, <2>3, <2>4, <2>6, <2>7 DEF Keyed
<1>16. ASSUME NEW i \in JobNos
       PROVE  Resulted(i)'
  <2>1. ASSUME NEW r \in Shown, Real(i, r)
        PROVE  Real(i, r)'
    BY <1>5, <2>1 DEF Real, EndsLater, Shown
  <2>2. Real(i, wjobs[i].result)'
    <3>1. wjobs[i].result \in Shown /\ Real(i, wjobs[i].result)
      BY <1>1 DEF Types, Records, Resulted
    <3> QED BY <1>4, <2>1, <3>1 DEF Real
  <2>3. Real(i, disk[i].result)'
    <3>1. disk[i].result \in Shown /\ Real(i, disk[i].result)
      BY <1>1 DEF Types, Records, Resulted
    <3>2. i = j => payload.result \in Shown /\ Real(i, payload.result)
      BY <1>1, <1>3, <1>4 DEF Records, Resulted
    <3> QED BY <1>6, <2>1, <3>1, <3>2 DEF Real
  <2>4. ASSUME NEW b \in Actors, Under(b, i)'
        PROVE  Real(i, call[b].result)' /\ Real(i, call[b].payload.result)'
    <3>1. Under(b, i) /\ call'[b] = call[b]
      BY <1>11, <2>4
    <3>2. call[b].result \in Shown /\ call[b].payload.result \in Shown
      BY <1>1 DEF Types, Calls, Records
    <3>3. Real(i, call[b].result) /\ Real(i, call[b].payload.result)
      BY <1>1, <3>1 DEF Resulted
    <3> QED BY <2>1, <3>1, <3>2, <3>3 DEF Real
  <2> QED BY <2>2, <2>3, <2>4 DEF Resulted
<1>17. Calling'
  <2>1. \A b \in Actors : call'[b].at = "set" => call'[b] = call[b]
    BY <1>7
  <2>2. "thread" \in Actors /\ "restart" \in Actors /\ \A c \in Clients : c \in Actors
    BY DEF Actors
  <2> QED BY <1>1, <1>4, <2>1, <2>2 DEF Calling, Flagged
<1>18. ASSUME NEW i \in JobNos
       PROVE  Marked(i)' /\ Kept(i)'
  <2>1. Marked(i)'
    BY <1>1, <1>4, <1>10 DEF Marked, Live, Flagged
  <2>2. ASSUME "raced" \notin wjobs[i].flags, disk'[i].code = "worker_restarted"
        PROVE  wjobs[i].code = "worker_restarted" /\ wjobs[i].status = disk'[i].status
    BY <1>1, <1>3, <1>4, <1>6, <1>8, <2>2 DEF Kept
  <2>3. ASSUME "raced" \notin wjobs[i].flags
        PROVE  /\ wjobs[i].code = "worker_restarted" =>
                    /\ Terminal(wjobs[i])
                    /\ Placed(i)' => "interrupted" \in wjobs[i].flags
                    /\ \A b \in Actors : Under(b, i)' =>
                         /\ call'[b].at = "write" /\ call'[b].payload.code = "worker_restarted"
                         /\ call'[b].payload.status = wjobs[i].status
               /\ \A b \in Actors : Under(b, i)' /\ call'[b].payload.code = "worker_restarted" =>
                    wjobs[i].code = "worker_restarted"
    BY <1>1, <1>8, <1>10, <1>11, <2>3 DEF Kept
  <2>4. Kept(i)'
    BY <1>4, <2>2, <2>3 DEF Kept, Terminal
  <2> QED BY <2>1, <2>4
<1>19. SharedRun'
  BY <1>1, <1>4 DEF SharedRun, Live
<1>20. ClientSound'
  <2>1. \A i \in JobNos : Known(disk[i]) => disk'[i].key = disk[i].key
    BY <1>1, <1>6, <1>8, <1>9 DEF Keyed
  <2>2. submitted' \in 0..JobCount /\ submitted =< submitted'
    BY <1>1, <1>4, RemoteAssumption DEF Types
  <2>3. Remembers
    BY <1>1, <1>5, <2>1, <2>2, EndsStay DEF EndsLater
  <2>4. KeysStay
    BY <1>4, <1>6, <1>9, <2>1, <2>2 DEF KeysStay
  <2>5. ClientsMoved /\ CacheEarned
    BY <1>4, ClientMovedMoves DEF CacheEarned
  <2> QED BY <1>1, <2>3, <2>4, <2>5, ClientsTurn
<1> QED BY <1>12, <1>13, <1>14, <1>15, <1>16, <1>17, <1>18, <1>19, <1>20 DEF RemoteSound

\* A new job, known before it is on disk.
LEMMA PostsKeeps ==
  ASSUME RemoteSound, NEW c \in Clients, SubmitRegister(c), LiveJobs(KeyOf[c]) = {}
  PROVE  RemoteSound'
<1>1. /\ Types /\ Placing /\ Lives /\ Calling /\ SharedRun /\ ClientSound
      /\ \A i \in JobNos : Keyed(i) /\ Resulted(i) /\ Marked(i) /\ Kept(i)
  BY DEF RemoteSound
<1>2. PICK j \in JobNos : j = submitted + 1 /\ submitted' = j
  BY <1>1, RemoteAssumption DEF Types, JobNos, SubmitRegister, Posts
<1> DEFINE rec == [NoJob EXCEPT !.key = KeyOf[c], !.holdout = HoldoutOf[c], !.status = "queued"]
<1>3. /\ rec \in Records /\ rec.key = KeyOf[c] /\ rec.status = "queued" /\ rec.code = "none"
      /\ rec.result = "none"
  <2>1. KeyOf[c] \in Keys /\ HoldoutOf[c] \in BOOLEAN
    BY RemoteAssumption DEF Keys
  <2> QED BY <2>1 DEF Records, NoJob, Codes, Shown
<1>4. /\ Persists(c, j, rec, "none") /\ client' = [client EXCEPT ![c].at = "posted", ![c].job = j]
      /\ UNCHANGED <<disk, queue, thread, process, daemon, closing, cache>>
      /\ Serving /\ Serving' /\ client[c].at = "fetched" /\ c \in Actors
  BY <1>2 DEF SubmitRegister, Posts, Serving, Actors
<1> HIDE DEF rec
<1>5. Wrote(c, j, rec, "none")
  BY <1>1, <1>3, <1>4, PersistsWrote
<1>6. /\ wjobs' \in [JobNos -> Records] /\ wjobs'[j] = rec
      /\ \A i \in JobNos : i # j => wjobs'[i] = wjobs[i]
      /\ call' \in [Actors -> Calls]
      /\ \A b \in Actors : b # c => call'[b] = call[b]
      /\ call'[c].at = "write" /\ call'[c].job = j /\ call'[c].payload = Record(rec)
      /\ call'[c].result = "none"
  BY <1>5 DEF Wrote
<1>7. /\ Record(rec).key = rec.key /\ Record(rec).status = rec.status /\ Record(rec).result = rec.result
      /\ Record(rec).code = rec.code
  BY <1>3, RecordTyped
<1>8. j > submitted /\ submitted \in 0..JobCount /\ submitted =< submitted' /\ submitted' \in 0..JobCount
      /\ \A i \in JobNos : i > submitted' => i > submitted /\ i # j
  BY <1>1, <1>2, RemoteAssumption DEF Types, JobNos
<1>9. /\ wjobs[j] = NoJob /\ disk[j] = NoJob /\ (\A a \in Actors : ~ Under(a, j))
      /\ ~ Placed(j) /\ process[j] = "none" /\ ~ Waits(j) /\ Doing(j) = "none"
      /\ (\A d \in Clients : ~ Posted(d, j))
  BY <1>1, <1>8 DEF Lives, Placing, Placed
<1>10. /\ client' \in [Clients -> ClientRecords] /\ client'[c].at = "posted" /\ client'[c].job = j
       /\ client'[c].verdict = client[c].verdict
       /\ \A d \in Clients : d # c => client'[d] = client[d]
  <2>1. PICK old \in ClientRecords : old = client[c]
    BY <1>1 DEF Types
  <2>2. j \in 0..JobCount
    BY <1>2, <1>8
  <2> DEFINE new == [old EXCEPT !.at = "posted", !.job = j]
  <2>3. new \in ClientRecords /\ new.at = "posted" /\ new.job = j /\ new.verdict = old.verdict
    BY <2>2 DEF ClientRecords
  <2>4. client' = [client EXCEPT ![c] = new] /\ client \in [Clients -> ClientRecords]
    BY <1>1, <1>4, <2>1 DEF Types
  <2> HIDE DEF new
  <2> QED BY <2>1, <2>3, <2>4
<1>11. \A i \in JobNos : /\ Waits(i)' <=> Waits(i)
                         /\ Doing(i)' = Doing(i)
                         /\ \A d \in Clients : Posted(d, i)' <=> Posted(d, i) \/ (d = c /\ i = j)
  BY <1>4, <1>10 DEF Waits, Doing, Posted
<1>12. \A i \in JobNos : Placed(i)' <=> Placed(i) \/ i = j
  BY <1>11 DEF Placed
<1>13. Types'
  <2>1. \A b \in Actors : /\ call'[b].at # "none" => call'[b].job \in JobNos
                          /\ call'[b].at = "set" => call'[b].status # "none"
    BY <1>1, <1>6 DEF Types
  <2>2. \A d \in Clients : client'[d].at \in {"posted", "stream", "wait"} => client'[d].job \in JobNos
    BY <1>1, <1>10 DEF Types
  <2> QED BY <1>1, <1>4, <1>6, <1>8, <1>10, <2>1, <2>2 DEF Types
<1>14. Placing'
  <2>1. QueueOnce'
    BY <1>1, <1>4 DEF Placing, QueueOnce
  <2>2. ASSUME NEW i \in JobNos
        PROVE  /\ Waits(i)' => Doing(i)' = "none"
               /\ \A d \in Clients : Posted(d, i)' =>
                    ~ Waits(i)' /\ Doing(i)' = "none" /\ \A e \in Clients : Posted(e, i)' => e = d
               /\ Placed(i)' /\ Doing(i)' \notin {"record", "wait", "stalled", "cleanup"} =>
                    process'[i] = "none"
               /\ Doing(i)' \in {"record", "wait"} => process'[i] # "none"
               /\ i > submitted' => ~ Placed(i)' /\ process'[i] = "none"
    <3>1. CASE i = j
      BY <1>2, <1>4, <1>9, <1>11, <3>1, <1>8
    <3>2. CASE i # j
      BY <1>1, <1>4, <1>8, <1>11, <1>12, <3>2 DEF Placing
    <3> QED BY <3>1, <3>2
  <2> QED BY <2>1, <2>2 DEF Placing
<1>15. Lives'
  <2>1. ASSUME NEW i \in JobNos, i > submitted'
        PROVE  wjobs'[i] = NoJob /\ disk'[i] = NoJob /\ \A b \in Actors : ~ Under(b, i)'
    <3>1. wjobs[i] = NoJob /\ disk[i] = NoJob /\ (\A b \in Actors : ~ Under(b, i)) /\ i # j
      BY <1>1, <1>8, <2>1 DEF Lives
    <3> QED BY <1>4, <1>6, <3>1 DEF Under
  <2> QED BY <1>4, <2>1 DEF Lives
<1>16. ASSUME NEW i \in JobNos
       PROVE  Keyed(i)'
  <2>1. CASE i = j
    <3>1. Known(wjobs'[j]) /\ ~ Known(disk'[j]) /\ disk'[j].code = "none"
      BY <1>3, <1>4, <1>6, <1>9 DEF Known, NoJob
    <3>2. \A b \in Actors : Under(b, j)' => b = c
      BY <1>6, <1>9 DEF Under
    <3>3. ~ Waits(j)' /\ Doing(j)' = "none" /\ process'[j] = "none"
      BY <1>4, <1>9, <1>11
    <3>4. Under(c, j)' /\ Known(call'[c].payload) /\ call'[c].payload.key = wjobs'[j].key
      BY <1>3, <1>6, <1>7 DEF Under, Known
    <3>5. \A d \in Clients : Posted(d, j)' => d = c
      BY <1>9, <1>11
    <3> QED BY <1>6, <2>1, <3>1, <3>2, <3>3, <3>4, <3>5 DEF Keyed
  <2>2. CASE i # j
    <3>1. wjobs'[i] = wjobs[i] /\ disk'[i] = disk[i] /\ process'[i] = process[i] /\ closing' = closing
          /\ (Placed(i)' <=> Placed(i)) /\ (Waits(i)' <=> Waits(i)) /\ Doing(i)' = Doing(i)
          /\ \A d \in Clients : Posted(d, i)' => Posted(d, i) /\ d # c
      <4>1. ~ Posted(c, i)
        BY <1>4 DEF Posted
      <4> QED BY <1>4, <1>6, <1>11, <1>12, <2>2, <4>1
    <3>2. \A b \in Actors : Under(b, i)' => Under(b, i) /\ call'[b] = call[b]
      BY <1>6, <2>2 DEF Under
    <3>3. ASSUME NEW d \in Clients, Posted(d, i)'
          PROVE  Known(disk'[i]) \/ (Under(d, i)' /\ call'[d].at = "write")
      <4>1. Posted(d, i) /\ d # c /\ d \in Actors
        BY <3>1, <3>3 DEF Actors
      <4> QED BY <1>1, <1>6, <3>1, <4>1 DEF Keyed, Under
    <3> QED BY <1>1, <1>4, <3>1, <3>2, <3>3 DEF Keyed
  <2> QED BY <2>1, <2>2
<1>17. ASSUME NEW i \in JobNos
       PROVE  Resulted(i)'
  <2>1. Real(i, wjobs[i].result)' /\ Real(i, disk[i].result)'
    BY <1>1, <1>3, <1>4, <1>6 DEF Resulted, Real
  <2>2. ASSUME NEW b \in Actors, Under(b, i)'
        PROVE  Real(i, call[b].result)' /\ Real(i, call[b].payload.result)'
    <3>1. CASE b = c
      BY <1>3, <1>6, <1>7, <3>1 DEF Real
    <3>2. CASE b # c
      BY <1>1, <1>4, <1>6, <2>2, <3>2 DEF Resulted, Under, Real
    <3> QED BY <3>1, <3>2
  <2> QED BY <2>1, <2>2 DEF Resulted
<1>18. Calling'
  <2>1. \A b \in Actors : call'[b].at = "set" =>
          call'[b] = call[b] /\ call[b].job \in JobNos /\ wjobs'[call[b].job] = wjobs[call[b].job]
    <3> SUFFICES ASSUME NEW b \in Actors, call'[b].at = "set"
                 PROVE  call'[b] = call[b] /\ call[b].job \in JobNos /\ wjobs'[call[b].job] = wjobs[call[b].job]
      OBVIOUS
    <3>1. call'[b] = call[b] /\ call[b].job \in JobNos
      BY <1>1, <1>6 DEF Types
    <3>2. call[b].job # j
      BY <1>9, <3>1 DEF Under
    <3> QED BY <1>6, <3>1, <3>2
  <2>2. "thread" \in Actors /\ "restart" \in Actors /\ \A d \in Clients : d \in Actors
    BY DEF Actors
  <2> QED BY <1>1, <1>4, <2>1, <2>2 DEF Calling, Flagged
<1>19. ASSUME NEW i \in JobNos
       PROVE  Marked(i)' /\ Kept(i)'
  <2>1. CASE i = j
    <3>1. Live(j)'
      BY <1>3, <1>6 DEF Live
    <3>2. wjobs'[j].code = "none" /\ disk'[j].code = "none"
      BY <1>3, <1>4, <1>6, <1>9 DEF NoJob
    <3>3. \A b \in Actors : Under(b, j)' => call'[b].payload.code = "none"
      BY <1>3, <1>6, <1>7, <1>9 DEF Under
    <3> QED BY <2>1, <3>1, <3>2, <3>3 DEF Marked, Kept
  <2>2. CASE i # j
    <3>1. wjobs'[i] = wjobs[i] /\ disk'[i] = disk[i] /\ (Placed(i)' <=> Placed(i)) /\ Doing(i)' = Doing(i)
      BY <1>4, <1>6, <1>11, <1>12, <2>2
    <3>2. \A b \in Actors : Under(b, i)' => Under(b, i) /\ call'[b] = call[b]
      BY <1>6, <2>2 DEF Under
    <3>3. Marked(i)'
      BY <1>1, <3>1 DEF Marked, Live, Flagged
    <3>4. Kept(i)'
      BY <1>1, <1>4, <3>1, <3>2 DEF Kept, Terminal
    <3> QED BY <3>3, <3>4
  <2> QED BY <2>1, <2>2
<1>20. SharedRun'
  <2>1. ASSUME NEW i \in JobNos, i # j, Live(i)'
        PROVE  wjobs'[i].key # wjobs'[j].key /\ Live(i) /\ wjobs'[i] = wjobs[i]
    <3>1. wjobs'[i] = wjobs[i] /\ Live(i)
      BY <1>6, <2>1 DEF Live
    <3>2. wjobs[i].key # KeyOf[c]
      BY <3>1 DEF LiveJobs
    <3> QED BY <1>3, <1>6, <3>1, <3>2
  <2> QED BY <1>1, <2>1 DEF SharedRun
<1>21. ClientSound'
  <2>1. Remembers
    <3>1. /\ \A i \in JobNos : Keyed(i)
          /\ \A i \in JobNos : Known(disk[i]) => disk'[i].key = disk[i].key
          /\ \A i \in JobNos : process[i] \in {"pass", "fail"} => process'[i] = process[i]
      BY <1>1, <1>4
    <3> QED BY <1>1, <1>8, <3>1, EndsStay
  <2>2. KeysStay
    <3>1. \A i \in JobNos : i =< submitted => wjobs'[i] = wjobs[i] /\ disk'[i] = disk[i]
      BY <1>4, <1>6, <1>8 DEF JobNos
    <3> QED BY <1>8, <3>1 DEF KeysStay
  <2>3. ClientsMoved
    <3>1. ~ Known(disk'[j])
      BY <1>4, <1>9 DEF Known, NoJob
    <3>2. j =< submitted'
      BY <1>2, <1>8
    <3> QED BY <1>3, <1>6, <1>10, <3>1, <3>2 DEF ClientsMoved
  <2> QED BY <1>1, <1>4, <2>1, <2>2, <2>3, ClientsTurn DEF CacheEarned
<1> QED BY <1>13, <1>14, <1>15, <1>16, <1>17, <1>18, <1>19, <1>20, <1>21 DEF RemoteSound

\* The daemon's end: nothing of its memory is left.
LEMMA ExitKeeps ==
  ASSUME RemoteSound, Exit
  PROVE  RemoteSound'
<1>1. /\ Types /\ Placing /\ Lives /\ ClientSound /\ \A i \in JobNos : Keyed(i) /\ Resulted(i)
  BY DEF RemoteSound
<1>2. /\ daemon' = "down" /\ ~ Serving' /\ queue' = << >> /\ thread' = Idle /\ closing' = {}
      /\ wjobs' = [i \in JobNos |-> NoJob] /\ call' = [a \in Actors |-> NoCall]
      /\ UNCHANGED <<disk, process, submitted, cache>>
      /\ client' = [c \in Clients |-> IF client[c].at \in {"fetched", "posted"}
                                      THEN [NewClient EXCEPT !.at = "crashed"] ELSE client[c]]
  BY DEF Exit, Serving
<1>3. /\ \A a \in Actors : call'[a].at = "none" /\ call'[a] \in Calls
      /\ \A i \in JobNos : wjobs'[i] = NoJob /\ wjobs'[i] \in Records
  BY <1>2, NoJobTyped DEF NoCall
<1>4. /\ client' \in [Clients -> ClientRecords]
      /\ \A c \in Clients : \/ client'[c] = client[c] /\ client[c].at \notin {"fetched", "posted"}
                            \/ client'[c].at = "crashed" /\ client'[c].verdict = "none"
  <2> DEFINE new == [NewClient EXCEPT !.at = "crashed"]
  <2>1. new \in ClientRecords /\ new.at = "crashed" /\ new.verdict = "none"
    BY NewClientTyped DEF ClientRecords
  <2>2. client' = [c \in Clients |-> IF client[c].at \in {"fetched", "posted"} THEN new ELSE client[c]]
    BY <1>2
  <2>3. client \in [Clients -> ClientRecords]
    BY <1>1 DEF Types
  <2> HIDE DEF new
  <2> QED BY <2>1, <2>2, <2>3
<1>5. thread'.at = "idle" /\ thread' \in [at : {"idle"} \cup Places, job : 0..JobCount]
  BY <1>2, RemoteAssumption DEF Idle
<1>6. Types'
  <2>1. \A c \in Clients : client'[c].at \in {"posted", "stream", "wait"} => client'[c].job \in JobNos
    BY <1>1, <1>4 DEF Types
  <2>2. queue' \in Seq(JobNos)
    BY <1>2
  <2>3. wjobs' \in [JobNos -> Records] /\ call' \in [Actors -> Calls]
    BY <1>2, NoJobTyped
  <2> QED BY <1>1, <1>2, <1>3, <1>4, <1>5, <2>1, <2>2, <2>3 DEF Types
<1>7. \A i \in JobNos : ~ Waits(i)' /\ Doing(i)' = "none" /\ ~ Placed(i)' /\ \A c \in Clients : ~ Posted(c, i)'
  BY <1>2, <1>4, <1>5 DEF Waits, Doing, Placed, Posted
<1>8. \A a \in Actors, i \in JobNos : ~ Under(a, i)'
  BY <1>3 DEF Under
<1>9. Placing'
  <2>1. QueueOnce'
    BY <1>2 DEF QueueOnce
  <2> QED BY <1>1, <1>2, <1>7, <2>1 DEF Placing
<1>10. Lives'
  <2>1. \A c \in Clients : client'[c].at # "posted"
    BY <1>4
  <2>2. \A i \in JobNos : i > submitted' => disk'[i] = NoJob
    BY <1>1, <1>2 DEF Lives
  <2> QED BY <1>2, <1>3, <1>5, <1>8, <2>1, <2>2 DEF Lives
<1>11. ASSUME NEW i \in JobNos
       PROVE  Keyed(i)' /\ Resulted(i)' /\ Marked(i)' /\ Kept(i)'
  <2>1. Keyed(i)'
    BY <1>1, <1>2, <1>7, <1>8 DEF Keyed
  <2>2. Resulted(i)'
    BY <1>1, <1>2, <1>3, <1>8 DEF Resulted, Real, NoJob
  <2> QED BY <1>2, <1>7, <2>1, <2>2 DEF Marked, Kept
<1>12. Calling' /\ SharedRun'
  <2>1. Calling'
    BY <1>3 DEF Calling, Actors
  <2>2. SharedRun'
    BY <1>3 DEF SharedRun, Live, NoJob
  <2> QED BY <2>1, <2>2
<1>13. ClientSound'
  <2>1. submitted' \in 0..JobCount /\ submitted =< submitted'
    BY <1>1, <1>2, RemoteAssumption DEF Types
  <2>2. Remembers
    <3>1. /\ \A i \in JobNos : Keyed(i)
          /\ \A i \in JobNos : Known(disk[i]) => disk'[i].key = disk[i].key
          /\ \A i \in JobNos : process[i] \in {"pass", "fail"} => process'[i] = process[i]
      BY <1>1, <1>2
    <3> QED BY <1>1, <2>1, <3>1, EndsStay
  <2>3. KeysStay
    BY <1>2, <1>3, <2>1 DEF KeysStay, Known, NoJob
  <2>4. ClientsMoved
    BY <1>4 DEF ClientsMoved
  <2> QED BY <1>1, <1>2, <2>2, <2>3, <2>4, ClientsTurn DEF CacheEarned
<1> QED BY <1>6, <1>9, <1>10, <1>11, <1>12, <1>13 DEF RemoteSound

\* A new daemon: the open records are closed.
LEMMA StartKeeps ==
  ASSUME RemoteSound, Start
  PROVE  RemoteSound'
<1>1. /\ Types /\ Placing /\ Lives /\ ClientSound /\ \A i \in JobNos : Keyed(i) /\ Resulted(i)
  BY DEF RemoteSound
<1> DEFINE orphans == {i \in JobNos : disk[i].status \in {"queued", "running"}}
           closed(i) == [disk[i] EXCEPT !.status = "failed", !.code = "worker_restarted",
                                        !.flags = {"interrupted"}]
           found == [i \in JobNos |-> IF i \in orphans THEN closed(i) ELSE disk[i]]
<1>2. /\ ~ Serving /\ Serving' /\ daemon' = "up" /\ wjobs' = found
      /\ disk' = [i \in JobNos |-> Record(found[i])]
      /\ process' = Killed({i \in orphans : disk[i].child})
      /\ UNCHANGED <<queue, thread, call, closing, submitted, client, cache>>
  BY DEF Start, Serving
<1>3. ASSUME NEW i \in JobNos
      PROVE  /\ wjobs'[i] \in Records /\ wjobs'[i].key = disk[i].key /\ wjobs'[i].result = disk[i].result
             /\ \/ disk[i].status \in {"queued", "running"} /\ wjobs'[i].status = "failed"
                   /\ wjobs'[i].code = "worker_restarted"
                \/ disk[i].status \notin {"queued", "running"} /\ wjobs'[i] = disk[i]
             /\ disk'[i] = Record(wjobs'[i])
  <2>1. disk[i] \in Records
    BY <1>1 DEF Types
  <2>2. /\ closed(i) \in Records /\ closed(i).key = disk[i].key /\ closed(i).result = disk[i].result
        /\ closed(i).status = "failed" /\ closed(i).code = "worker_restarted"
    BY <2>1 DEF Records, Moved, Codes
  <2>3. wjobs'[i] = IF disk[i].status \in {"queued", "running"} THEN closed(i) ELSE disk[i]
    BY <1>2
  <2>4. disk'[i] = Record(wjobs'[i])
    BY <1>2
  <2> HIDE DEF closed
  <2> QED BY <2>1, <2>2, <2>3, <2>4
<1>4. DOMAIN wjobs' = JobNos /\ wjobs' = [i \in JobNos |-> wjobs'[i]] /\ disk' = [i \in JobNos |-> disk'[i]]
  BY <1>2
<1>5. ASSUME NEW i \in JobNos
      PROVE  /\ disk'[i] \in Records /\ disk'[i].key = wjobs'[i].key /\ disk'[i].status = wjobs'[i].status
             /\ disk'[i].code = wjobs'[i].code /\ disk'[i].result = wjobs'[i].result
  BY <1>3, RecordTyped
<1>6. EndsLater
  BY <1>1, <1>2, KilledEnds
<1> HIDE DEF found, orphans, closed
<1>7. Types'
  <2>1. wjobs' \in [JobNos -> Records] /\ disk' \in [JobNos -> Records]
    BY <1>3, <1>4, <1>5
  <2> QED BY <1>1, <1>2, <1>6, <2>1 DEF Types, EndsLater
<1>8. /\ queue' = << >> /\ thread'.at = "idle" /\ closing' = {}
      /\ \A a \in Actors : call'[a].at = "none"
      /\ \A c \in Clients : client'[c].at # "posted"
  BY <1>1, <1>2 DEF Lives
<1>9. \A i \in JobNos : ~ Waits(i)' /\ Doing(i)' = "none" /\ ~ Placed(i)' /\ \A c \in Clients : ~ Posted(c, i)'
  BY <1>8 DEF Waits, Doing, Placed, Posted
<1>10. \A a \in Actors, i \in JobNos : ~ Under(a, i)'
  BY <1>8 DEF Under
<1>11. Placing'
  <2>1. QueueOnce'
    BY <1>8 DEF QueueOnce
  <2>2. \A i \in JobNos : i > submitted' => process'[i] = "none"
    BY <1>1, <1>2, <1>6 DEF Placing, EndsLater
  <2> QED BY <1>9, <2>1, <2>2 DEF Placing
<1>12. Lives'
  <2>1. ASSUME NEW i \in JobNos, i > submitted'
        PROVE  wjobs'[i] = NoJob /\ disk'[i] = NoJob
    <3>1. disk[i] = NoJob
      BY <1>1, <1>2, <2>1 DEF Lives
    <3>2. wjobs'[i] = NoJob
      BY <1>3, <3>1 DEF NoJob
    <3> QED BY <1>3, <3>2, NoJobTyped
  <2> QED BY <1>2, <1>10, <2>1 DEF Lives
<1>13. ASSUME NEW i \in JobNos
       PROVE  /\ Known(disk'[i]) <=> Known(disk[i])
              /\ Known(wjobs'[i]) <=> Known(disk[i])
  BY <1>3, <1>5 DEF Known
<1>14. ASSUME NEW i \in JobNos
       PROVE  Keyed(i)' /\ Resulted(i)' /\ Marked(i)'
  <2>1. ~ Known(disk'[i]) => disk'[i].code = "none"
    BY <1>1, <1>3, <1>5, <1>13 DEF Keyed, Known
  <2>2. process'[i] # "none" => Known(disk'[i])
    BY <1>1, <1>6, <1>13 DEF Keyed, EndsLater
  <2>3. Keyed(i)'
    BY <1>5, <1>8, <1>9, <1>10, <1>13, <2>1, <2>2 DEF Keyed
  <2>4. Resulted(i)'
    <3>1. wjobs'[i].result = disk[i].result /\ disk'[i].result = disk[i].result
      BY <1>3, <1>5
    <3>2. Real(i, disk[i].result) /\ disk[i].result \in Shown
      BY <1>1 DEF Resulted, Types, Records
    <3>3. disk[i].result # "none" => process'[i] = disk[i].result
      BY <1>6, <3>2 DEF Real, Shown, EndsLater
    <3> QED BY <1>10, <3>1, <3>3 DEF Resulted, Real
  <2>5. Marked(i)'
    BY <1>9 DEF Marked
  <2> QED BY <2>3, <2>4, <2>5
<1>15. ASSUME NEW i \in JobNos
       PROVE  Kept(i)'
  <2>1. ASSUME wjobs'[i].code = "worker_restarted"
        PROVE  Terminal(wjobs'[i])
    <3>1. CASE disk[i].status \in {"queued", "running"}
      BY <1>3, <3>1 DEF Terminal
    <3>2. CASE disk[i].status \notin {"queued", "running"}
      <4>1. Known(disk[i]) /\ wjobs'[i] = disk[i]
        BY <1>1, <1>3, <2>1, <3>2 DEF Keyed
      <4>2. disk[i].status \in Moved \cup {"absent", "queued"}
        BY <1>1 DEF Types, Records
      <4> QED BY <3>2, <4>1, <4>2 DEF Known, Moved, Terminal
    <3> QED BY <3>1, <3>2
  <2> QED BY <1>5, <1>9, <1>10, <2>1 DEF Kept, Terminal
<1>16. Calling' /\ SharedRun'
  <2>1. Calling'
    BY <1>8 DEF Calling, Actors
  <2>2. \A i \in JobNos : ~ Live(i)'
    BY <1>3 DEF Live
  <2> QED BY <2>1, <2>2 DEF SharedRun
<1>17. ClientSound'
  <2>1. submitted' \in 0..JobCount /\ submitted =< submitted'
    BY <1>1, <1>2, RemoteAssumption DEF Types
  <2>2. Remembers
    <3>1. /\ \A i \in JobNos : Keyed(i)
          /\ \A i \in JobNos : Known(disk[i]) => disk'[i].key = disk[i].key
          /\ \A i \in JobNos : process[i] \in {"pass", "fail"} => process'[i] = process[i]
      BY <1>1, <1>3, <1>5, <1>6 DEF EndsLater
    <3> QED BY <1>1, <2>1, <3>1, EndsStay
  <2>3. KeysStay
    BY <1>3, <1>5, <1>13, <2>1 DEF KeysStay
  <2>4. ClientsMoved
    BY <1>2, ClientMovedMoves
  <2> QED BY <1>1, <1>2, <2>2, <2>3, <2>4, ClientsTurn DEF CacheEarned
<1> QED BY <1>7, <1>11, <1>12, <1>14, <1>15, <1>16, <1>17 DEF RemoteSound

-----------------------------------------------------------------------------
(* The theorems of the worker.                                             *)

LEMMA RemoteStart == RemoteInit => RemoteSound
<1> SUFFICES ASSUME RemoteInit PROVE RemoteSound
  OBVIOUS
<1>1. /\ wjobs \in [JobNos -> Records] /\ disk \in [JobNos -> Records] /\ call \in [Actors -> Calls]
      /\ \A i \in JobNos : wjobs[i] = NoJob /\ disk[i] = NoJob /\ process[i] = "none"
      /\ \A a \in Actors : call[a].at = "none"
  <2>1. NoCall.at = "none"
    BY DEF NoCall
  <2> QED BY <2>1, NoJobTyped DEF RemoteInit
<1>2. /\ client \in [Clients -> ClientRecords]
      /\ \A c \in Clients : client[c].at = "start" /\ client[c].verdict = "none"
  BY NewClientTyped DEF RemoteInit
<1>3. /\ queue = << >> /\ thread.at = "idle" /\ closing = {} /\ Serving /\ submitted = 0 /\ cache = {}
      /\ thread \in [at : {"idle"} \cup Places, job : 0..JobCount]
  BY RemoteAssumption DEF RemoteInit, Idle, Serving
<1>4. Types
  <2>1. queue \in Seq(JobNos) /\ process \in [JobNos -> Ends] /\ submitted \in 0..JobCount
    BY <1>3, RemoteAssumption DEF RemoteInit, Ends
  <2> QED BY <1>1, <1>2, <1>3, <2>1 DEF Types, RemoteInit
<1>5. \A i \in JobNos : /\ ~ Waits(i) /\ Doing(i) = "none" /\ ~ Placed(i)
                        /\ \A c \in Clients : ~ Posted(c, i)
                        /\ \A a \in Actors : ~ Under(a, i)
  BY <1>1, <1>2, <1>3 DEF Waits, Doing, Placed, Posted, Under
<1>6. Placing
  <2>1. QueueOnce
    BY <1>3 DEF QueueOnce
  <2> QED BY <1>1, <1>5, <2>1 DEF Placing
<1>7. Lives
  BY <1>1, <1>3, <1>5 DEF Lives
<1>8. \A i \in JobNos : Keyed(i) /\ Resulted(i) /\ Marked(i) /\ Kept(i)
  BY <1>1, <1>3, <1>5 DEF Keyed, Resulted, Marked, Kept, Known, Real, NoJob
<1>9. Calling /\ SharedRun
  BY <1>1 DEF Calling, SharedRun, Live, NoJob, Actors
<1>10. ClientSound
  BY <1>2, <1>3 DEF ClientSound
<1> QED BY <1>4, <1>6, <1>7, <1>8, <1>9, <1>10 DEF RemoteSound

LEMMA RemoteStep == RemoteSound /\ [RemoteNext]_remoteVars => RemoteSound'
<1> SUFFICES ASSUME RemoteSound, [RemoteNext]_remoteVars PROVE RemoteSound'
  OBVIOUS
<1>1. CASE UNCHANGED remoteVars
  <2>1. Rests /\ client' = client /\ cache' = cache
    BY <1>1 DEF remoteVars, workerVars, Rests
  <2> QED BY <2>1, RestTurns, TurnKeeps DEF CacheEarned
<1>2. ASSUME NEW c \in Clients, ClientSteps(c) \/ SubmitQueue(c)
      PROVE  RemoteSound'
  <2>1. CASE SubmitRegister(c) /\ LiveJobs(KeyOf[c]) = {}
    BY <2>1, PostsKeeps
  <2>2. CASE ~ (SubmitRegister(c) /\ LiveJobs(KeyOf[c]) = {})
    <3>1. Turn /\ CacheEarned
      BY <1>2, <2>2, ClientTurns, VerdictTurns, SecondLookTurns, GivesUpTurns, QueueTurns
      DEF ClientSteps
    <3> QED BY <3>1, TurnKeeps
  <2> QED BY <2>1, <2>2
<1>3. ASSUME NEW a \in Actors, CallSteps(a)
      PROVE  RemoteSound'
  BY <1>3, AssignKeeps, WriteRecordKeeps DEF CallSteps
<1>4. CASE ThreadSteps
  <2>1. CASE RecordWorktree \/ RecordChild
    BY <2>1, PersistKeeps
  <2>2. CASE Take
    BY <2>2, TakeTurns, TurnKeeps
  <2>3. CASE \/ StartRun \/ Popen \/ FinishRun \/ RestartStalled \/ CleanupWorktree
             \/ \E ok \in BOOLEAN : AddWorktree(ok)
    BY <2>3, ThreadTurns, TurnKeeps
  <2> QED BY <1>4, <2>1, <2>2, <2>3 DEF ThreadSteps
<1>5. CASE WatchdogKills \/ Stall \/ \E j \in JobNos, exit \in {"pass", "fail"} : SuiteEnds(j, exit)
  BY <1>5, EndsTurn, TurnKeeps
<1>6. CASE RestartDaemon \/ RestartSteps
  BY <1>6, RestartTurns, TurnKeeps
<1>7. CASE Exit \/ Start
  BY <1>7, ExitKeeps, StartKeeps
<1> QED BY <1>1, <1>2, <1>3, <1>4, <1>5, <1>6, <1>7 DEF RemoteNext

\* What the manager knows, what it is about to set or write, and what is on disk fit
\* together: each job is answered for, queued or with the thread at most once; a call
\* under way is of a known job and of its key, and its result is its process's; a job
\* that was closed while it is to be run is marked cancelled or interrupted; and a job
\* closed by a restart that no call raced is closed in every call on it.
THEOREM RemoteInvariance == RemoteSpec => []RemoteSound
<1> QED BY RemoteStart, RemoteStep, PTL DEF RemoteSpec

\* Whatever was killed, cancelled, shared, resumed or recovered: a verdict a client
\* reports is of a suite of its own commit that ran to its end with that result.
THEOREM VerdictsEarned == RemoteSpec => []VerdictEarned
<1>1. RemoteSound => VerdictEarned
  BY DEF RemoteSound, ClientSound, Ran, VerdictEarned
<1> QED BY <1>1, RemoteInvariance, PTL

\* Two live jobs of one key: one of them was cancelled or interrupted.
THEOREM RunsShared == RemoteSpec => []SharedRun
<1>1. RemoteSound => SharedRun
  BY DEF RemoteSound
<1> QED BY <1>1, RemoteInvariance, PTL

LEMMA RestartedStep ==
  RemoteSound /\ [RemoteNext]_remoteVars =>
    [\A j \in JobNos : ClosedByRestart(disk[j]) /\ "raced" \notin wjobs[j].flags =>
       ClosedByRestart(disk'[j])]_remoteVars
<1> SUFFICES ASSUME RemoteSound, RemoteNext, NEW j \in JobNos,
                    ClosedByRestart(disk[j]), "raced" \notin wjobs[j].flags
             PROVE  ClosedByRestart(disk'[j])
  OBVIOUS
<1>1. /\ Types /\ Lives /\ Kept(j)
  BY DEF RemoteSound
<1>2. CASE disk' = disk
  BY <1>2
<1>3. ASSUME NEW a \in Actors, WriteRecord(a)
      PROVE  ClosedByRestart(disk'[j])
  <2>1. disk' = [disk EXCEPT ![call[a].job] = call[a].payload] /\ call[a].at = "write"
    BY <1>3 DEF WriteRecord
  <2>2. CASE call[a].job = j
    <3>1. Serving /\ Under(a, j)
      BY <1>1, <2>1, <2>2 DEF Lives, Under
    <3>2. /\ wjobs[j].code = "worker_restarted" /\ wjobs[j].status = "failed"
          /\ call[a].payload.code = "worker_restarted" /\ call[a].payload.status = wjobs[j].status
      BY <1>1, <3>1 DEF Kept, ClosedByRestart
    <3> QED BY <1>1, <2>1, <2>2, <3>2 DEF Types, ClosedByRestart
  <2>3. CASE call[a].job # j
    BY <1>1, <2>1, <2>3 DEF Types
  <2> QED BY <2>2, <2>3
<1>4. CASE Start
  <2>1. disk[j].status \notin {"queued", "running"} /\ disk[j] \in Records
    BY <1>1 DEF ClosedByRestart, Types
  <2>2. disk'[j] = Record(disk[j])
    BY <1>4, <2>1 DEF Start
  <2> QED BY <2>1, <2>2, RecordTyped DEF ClosedByRestart
<1>5. disk' = disk \/ Start \/ \E a \in Actors : WriteRecord(a)
  BY DEF RemoteNext, ClientSteps, SubmitQueue, CallSteps, ThreadSteps, RestartSteps, DispatchRemote,
         RunLocally, SubmitFetch, SubmitRegister, SubmitRefused, SubmitDeclined, StreamVerdict,
         StreamNoVerdict, StreamAbandoned, WorkerUnreachable, WorkerBack, WorkerGone, Assign, Take,
         StartRun, RecordWorktree, Popen, RecordChild, FinishRun, RestartStalled, CleanupWorktree, AddWorktree,
         WatchdogKills, Stall, SuiteEnds, RestartDaemon, ExitSoon, MarkInterrupted, Exit, workerVars
<1> QED BY <1>2, <1>3, <1>4, <1>5

\* A job a restart closed stays closed for good on disk, whatever its thread still does,
\* unless a call past its check was under way on it when the restart closed it.
THEOREM RestartedStays == RemoteSpec => InterruptedKept
<1> QED BY RemoteInvariance, RestartedStep, PTL DEF RemoteSpec, InterruptedKept
=============================================================================
