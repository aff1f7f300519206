---------------------------- MODULE RemoteSuite ------------------------------
(***************************************************************************)
(* The validation suite run on a remote test worker: the job manager of    *)
(* core/harness/remote_worker.py, and the clients of                       *)
(* core/harness/remote_dispatch.py that ship a commit to it.               *)
(*                                                                         *)
(* The manager's memory (wjobs, queue, thread, call, closing) dies with    *)
(* the daemon; the records (disk), the git refs and the suites' processes  *)
(* do not.  HTTP requests interleave with the one job thread, whose run of *)
(* a job is cut where another thread can act: before the status is set,    *)
(* before the worktree is added, before the process starts, before it is   *)
(* recorded, before the worktree is removed.                               *)
(*                                                                         *)
(* _set_status takes no lock, so a call of it is three steps: its look at  *)
(* `interrupted` (with what its caller reads just before), the fields and  *)
(* the status with the serialized record (_persist serializes before it    *)
(* locks), and the write of the file.  The fields, the status and the      *)
(* serialization are one step: what another thread writes between them it  *)
(* serializes and writes itself.  By actor, `call` is where its call is.   *)
(*                                                                         *)
(* Abstractions: one worker (the next one is asked the same way); the      *)
(* logs, bundles and deadlines only as what they decide; a poll that fails *)
(* for long enough is a lost connection.  The record of a worker that is   *)
(* still alive is not met: one daemon at a time holds the port.  A client  *)
(* asks again only when its own DELETE was answered.                       *)
(***************************************************************************)
EXTENDS Integers, Sequences, FiniteSets

CONSTANTS
  Clients,
  KeyOf,           \* [Clients -> key]: client_dispatch_key, the commit and configuration
  HoldoutOf,       \* [Clients -> BOOLEAN]: include_holdout
  JobCount,        \* bound: jobs ever submitted
  RestartRetries,  \* worker_restart_retries()
  OutageBound      \* bound: restarts and crashes of the daemon

ASSUME RemoteAssumption ==
  /\ KeyOf \in [Clients -> STRING] /\ HoldoutOf \in [Clients -> BOOLEAN]
  /\ JobCount \in Nat /\ RestartRetries \in Nat /\ OutageBound \in Nat
  /\ "thread" \notin Clients /\ "restart" \notin Clients

VARIABLES
  wjobs,      \* JobManager.jobs
  disk,       \* the persisted records
  queue,      \* JobManager._queue
  refs,       \* refs/darkfac/validate/*
  thread,     \* the job thread: where it is in _run_job, and its job
  process,    \* the runner's processes, by job
  daemon,     \* "up", "restarting" (in mark_interrupted), "exiting" (in a second), "down"
  call,       \* by actor: its _set_status or _persist under way
  closing,    \* mark_interrupted: the jobs still to close
  outages,
  submitted,  \* job ids given out
  client,     \* by client: where maybe_dispatch_remote is
  cache       \* verdicts.json: the pass verdicts, by key and holdout

workerVars == <<wjobs, disk, queue, refs, thread, process, daemon, call, closing, outages>>
remoteVars == <<workerVars, submitted, client, cache>>

JobNos == 1..JobCount

NoJob == [key |-> "none", holdout |-> FALSE, status |-> "absent", code |-> "none",
          flags |-> {}, child |-> FALSE, result |-> "none"]

Live(j)       == wjobs[j].status \in {"queued", "running"}
Terminal(rec) == rec.status \in {"done", "failed", "cancelled"}
Serving       == daemon # "down"
Busy          == \E j \in JobNos : wjobs[j].status = "running"

InfrastructureCodes == {"worker_restarted", "worker_internal_error", "worker_setup_failed",
                        "worker_signal_killed", "job_lost_on_worker"}
RestartRetryCodes   == {"worker_restarted", "worker_unreachable", "job_lost_on_worker",
                        "worker_signal_killed"}

-----------------------------------------------------------------------------
\* Helpers of the manager.

\* Who calls _set_status and _persist: the job thread, the restart request, and the
\* requests of each client.
Actors == Clients \cup {"thread", "restart"}

NoCall == [at |-> "none", job |-> 0, status |-> "none", code |-> "none", result |-> "none",
           payload |-> NoJob]

\* to_record: the flags are not persisted.
Record(rec) == [rec EXCEPT !.flags = {}]

\* Fault: a job the worker closed is moved on by the thread that still runs it.
SetStatusOver(a, js, j, status, code, result) ==
  call' = [call EXCEPT ![a] = [NoCall EXCEPT !.at = "set", !.job = j, !.status = status,
                                             !.code = code, !.result = result]]

\* _set_status, to its check: a job closed by the worker itself keeps that verdict.
SetStatus(a, js, j, status, code, result) ==
  call' = IF "interrupted" \in js[j].flags /\ Terminal(js[j]) THEN call
          ELSE [call EXCEPT ![a] = [NoCall EXCEPT !.at = "set", !.job = j, !.status = status,
                                                  !.code = code, !.result = result]]

\* A change of job j in memory, and _persist up to its lock.
Persists(a, j, rec, status) ==
  /\ wjobs' = [wjobs EXCEPT ![j] = rec]
  /\ call' = [call EXCEPT ![a] = [NoCall EXCEPT !.at = "write", !.job = j, !.status = status,
                                                !.payload = Record(rec)]]

\* What a call passes is set; error_code and result_json stay when it does not pass them.
Passed(rec, c) ==
  [rec EXCEPT !.status = c.status,
              !.code   = IF c.code = "none" THEN @ ELSE c.code,
              !.result = IF c.result = "none" THEN @ ELSE c.result]

LiveJobs(key) == {j \in JobNos : wjobs[j].key = key /\ Live(j)}

Killed(js) == [j \in JobNos |-> IF j \in js /\ process[j] = "live" THEN "killed" ELSE process[j]]

\* _set_status, after its check, and _persist up to its lock.  (Ghost: a job is raced
\* when a restart closes it while another call on it is past its check.)
Assign(a) ==
  LET c     == call[a]
      raced == IF a = "restart" /\ \E b \in Actors \ {a} : call[b].job = c.job THEN {"raced"} ELSE {}
  IN
  /\ c.at = "set"
  /\ Persists(a, c.job, [Passed(wjobs[c.job], c) EXCEPT !.flags = @ \cup raced], c.status)
  /\ UNCHANGED <<disk, queue, refs, thread, process, daemon, closing, outages, submitted, client, cache>>

\* _persist, under its lock.  A cancellation and a restart then terminate the process
\* recorded by now.
WriteRecord(a) ==
  LET c == call[a] IN
  /\ c.at = "write"
  /\ disk' = [disk EXCEPT ![c.job] = c.payload]
  /\ process' = IF a # "thread" /\ c.status # "none" /\ wjobs[c.job].child THEN Killed({c.job})
                ELSE process
  /\ call' = [call EXCEPT ![a] = NoCall]
  /\ UNCHANGED <<wjobs, queue, refs, thread, daemon, closing, outages, submitted, client, cache>>

-----------------------------------------------------------------------------
\* The client.

NewClient == [at |-> "start", job |-> 0, retries |-> 0, verdict |-> "none"]

Moves(c, at) == client' = [client EXCEPT ![c].at = at]

\* maybe_dispatch_remote returns, or is left as a traceback, without a verdict.
Leaves(c, at) == client' = [client EXCEPT ![c] = [NewClient EXCEPT !.at = at]]

\* It returns a verdict.
Resolves(c, verdict) ==
  client' = [client EXCEPT ![c] = [NewClient EXCEPT !.at = "resolved", !.verdict = verdict]]

\* maybe_dispatch_remote: the worker is up, idle and stable.  A cached verdict of the
\* client's own key and flags is taken at once.
DispatchRemote(c) ==
  /\ client[c].at = "start" /\ Serving /\ ~ Busy
  /\ IF <<KeyOf[c], HoldoutOf[c]>> \in cache THEN Resolves(c, "pass") ELSE Moves(c, "submit")
  /\ UNCHANGED <<workerVars, submitted, cache>>

\* No answer, busy for too long, or not stable: the suite runs locally.
RunLocally(c) ==
  /\ client[c].at = "start"
  /\ Leaves(c, "local")
  /\ UNCHANGED <<workerVars, submitted, cache>>

Streams(c, j) == client' = [client EXCEPT ![c].at = "stream", ![c].job = j]

\* submit, to the fetch of the bundle: a live job of the key answers.
SubmitFetch(c) ==
  /\ client[c].at = "submit" /\ Serving
  /\ \/ \E j \in LiveJobs(KeyOf[c]) : Streams(c, j) /\ UNCHANGED refs
     \/ /\ LiveJobs(KeyOf[c]) = {}
        /\ refs' = refs \cup {KeyOf[c]}
        /\ Moves(c, "fetched")
  /\ UNCHANGED <<wjobs, disk, queue, thread, process, daemon, call, closing, outages, submitted, cache>>

Posts(c) ==
  LET j == submitted + 1 IN
  /\ submitted < JobCount /\ submitted' = j
  /\ Persists(c, j, [NoJob EXCEPT !.key = KeyOf[c], !.holdout = HoldoutOf[c], !.status = "queued"],
              "none")
  /\ client' = [client EXCEPT ![c].at = "posted", ![c].job = j]

\* Fault: the second look, under the lock, is left out.
RegisterBlind(c) ==
  /\ client[c].at = "fetched" /\ Serving
  /\ Posts(c)
  /\ UNCHANGED <<disk, queue, refs, thread, process, daemon, closing, outages, cache>>

\* submit, under the lock: a second look, then the new job, which is known before it is
\* on disk.
SubmitRegister(c) ==
  /\ client[c].at = "fetched" /\ Serving
  /\ \/ \E j \in LiveJobs(KeyOf[c]) : Streams(c, j) /\ UNCHANGED <<wjobs, call, submitted>>
     \/ LiveJobs(KeyOf[c]) = {} /\ Posts(c)
  /\ UNCHANGED <<disk, queue, refs, thread, process, daemon, closing, outages, cache>>

\* submit: persisted, the job is queued and answered.
SubmitQueue(c) ==
  /\ client[c].at = "posted" /\ call[c] = NoCall
  /\ queue' = Append(queue, client[c].job)
  /\ Moves(c, "stream")
  /\ UNCHANGED <<wjobs, disk, refs, thread, process, daemon, call, closing, outages, submitted, cache>>

\* The connection is refused or times out: URLError is not _WorkerUnavailable, and
\* leaves maybe_dispatch_remote and main as a traceback.
SubmitRefused(c) ==
  /\ client[c].at = "submit" /\ daemon = "down"
  /\ Leaves(c, "crashed")
  /\ UNCHANGED <<workerVars, submitted, cache>>

\* Any other answer than 200 (or no bundle): the next option.
SubmitDeclined(c) ==
  /\ client[c].at = "submit" /\ Serving
  /\ Leaves(c, "local")
  /\ UNCHANGED <<workerVars, submitted, cache>>

\* A loss: retried on the same worker if its code says so, else the next option.
Lost(c, code) ==
  IF code \in RestartRetryCodes /\ client[c].retries < RestartRetries
  THEN client' = [client EXCEPT ![c].at = "wait", ![c].retries = @ + 1]
  ELSE Leaves(c, "local")

\* The worker closed the job without a verdict.
Infrastructure(rec) == rec.status = "failed" /\ rec.code \in InfrastructureCodes

\* A poll finds a verdict: _finalize_remote_result, and the pass that is stored.
StreamVerdict(c) ==
  LET rec == wjobs[client[c].job] IN
  /\ client[c].at = "stream" /\ Serving
  /\ rec.status \in {"done", "failed"} /\ ~ Infrastructure(rec) /\ rec.result # "none"
  /\ Resolves(c, rec.result)
  /\ cache' = IF rec.result = "pass" THEN cache \cup {<<KeyOf[c], HoldoutOf[c]>>} ELSE cache
  /\ UNCHANGED <<workerVars, submitted>>

\* Fault: a failed job is a failed suite.
StreamFailFails(c) ==
  LET rec == wjobs[client[c].job] IN
  /\ client[c].at = "stream" /\ Serving
  /\ \/ rec.status = "failed" /\ Resolves(c, "fail")
     \/ rec.status = "cancelled" /\ Leaves(c, "local")
     \/ rec.status = "absent" /\ Lost(c, "job_lost_on_worker")
  /\ UNCHANGED <<workerVars, submitted, cache>>

\* A poll finds a closed job without a verdict: cancelled (by whoever shares it),
\* closed by the worker, without a result, or unknown to this worker.
StreamNoVerdict(c) ==
  LET rec == wjobs[client[c].job] IN
  /\ client[c].at = "stream" /\ Serving
  /\ \/ rec.status = "cancelled" /\ Leaves(c, "local")
     \/ Infrastructure(rec) /\ Lost(c, rec.code)
     \/ /\ rec.status \in {"done", "failed"} /\ ~ Infrastructure(rec)
        /\ rec.result = "none" /\ Lost(c, "worker_internal_error")
     \/ rec.status = "absent" /\ Lost(c, "job_lost_on_worker")
  /\ UNCHANGED <<workerVars, submitted, cache>>

\* DELETE /harness/jobs/<id>: cancel.  A job read as queued is moved to cancelled; a
\* recorded process is terminated; an unknown id is ignored.
Cancel(c, j) ==
  LET flagged == [wjobs EXCEPT ![j].flags = @ \cup {"cancel_requested"}] IN
  IF wjobs[j].status = "absent" THEN UNCHANGED <<wjobs, call, process>>
  ELSE /\ wjobs' = flagged
       /\ IF wjobs[j].status = "queued"
          THEN SetStatus(c, flagged, j, "cancelled", "none", "none") /\ UNCHANGED process
          ELSE process' = (IF wjobs[j].child THEN Killed({j}) ELSE process) /\ UNCHANGED call

\* The client's deadline, or silence beyond the ceiling: the job is cancelled if the
\* worker answers, and the client goes on without it (an interrupted client ends).
StreamAbandoned(c) ==
  /\ client[c].at = "stream"
  /\ IF Serving THEN Cancel(c, client[c].job) ELSE UNCHANGED <<wjobs, call, process>>
  /\ Leaves(c, "local")
  /\ UNCHANGED <<disk, queue, refs, thread, daemon, closing, outages, submitted, cache>>

\* Polls and then consecutive /health probes fail: worker_unreachable, to be retried.
\* The worker is down, or the network is, and the cancellation may get through.
WorkerUnreachable(c) ==
  /\ client[c].at = "stream"
  /\ Lost(c, "worker_unreachable")
  /\ \/ UNCHANGED <<wjobs, call, process>>
     \/ Serving /\ Cancel(c, client[c].job)
  /\ UNCHANGED <<disk, queue, refs, thread, daemon, closing, outages, submitted, cache>>

\* _wait_for_worker_back: the lost job is resumed if it lives, else submitted anew to
\* an idle worker.
WorkerBack(c) ==
  /\ client[c].at = "wait" /\ Serving /\ call[c] = NoCall
  /\ \/ Live(client[c].job) /\ Moves(c, "stream")
     \/ ~ Live(client[c].job) /\ ~ Busy /\ Moves(c, "submit")
  /\ UNCHANGED <<workerVars, submitted, cache>>

\* The grace elapsed, or the worker did not stay stable.
WorkerGone(c) ==
  /\ client[c].at = "wait"
  /\ Leaves(c, "local")
  /\ UNCHANGED <<workerVars, submitted, cache>>

-----------------------------------------------------------------------------
\* The job thread.

Idle == [at |-> "idle", job |-> 0]

\* The thread is at a place of _run_job, and not in a call.
At(place) == Serving /\ thread.at = place /\ call["thread"] = NoCall

GoesTo(place) == thread' = [thread EXCEPT !.at = place]

\* _worker_loop: a cancelled job is only closed.
Take ==
  /\ At("idle") /\ queue # << >>
  /\ queue' = Tail(queue)
  /\ LET j == Head(queue) IN
     IF "cancel_requested" \in wjobs[j].flags
     THEN SetStatus("thread", wjobs, j, "cancelled", "none", "none") /\ UNCHANGED thread
     ELSE thread' = [at |-> "taken", job |-> j] /\ UNCHANGED call
  /\ UNCHANGED <<wjobs, disk, refs, process, daemon, closing, outages, submitted, client, cache>>

\* _run_job: running, unless the worker closed the job (and it is run all the same).
StartRun ==
  /\ At("taken") /\ GoesTo("begun")
  /\ SetStatus("thread", wjobs, thread.job, "running", "none", "none")
  /\ UNCHANGED <<wjobs, disk, queue, refs, process, daemon, closing, outages, submitted, client, cache>>

\* The path of its worktree is noted, and the job persisted once more.
RecordWorktree ==
  /\ At("begun") /\ GoesTo("setup")
  /\ Persists("thread", thread.job, wjobs[thread.job], "none")
  /\ UNCHANGED <<disk, queue, refs, process, daemon, closing, outages, submitted, client, cache>>

\* git worktree add: fails without the ref, or for want of disk.
AddWorktree(ok) ==
  /\ At("setup")
  /\ IF ok /\ wjobs[thread.job].key \in refs THEN GoesTo("popen") /\ UNCHANGED call
     ELSE /\ GoesTo("cleanup")
          /\ SetStatus("thread", wjobs, thread.job, "failed", "worker_setup_failed", "none")
  /\ UNCHANGED <<wjobs, disk, queue, refs, process, daemon, closing, outages, submitted, client, cache>>

\* Popen: no flag is looked at first.
Popen ==
  /\ At("popen") /\ GoesTo("record")
  /\ process' = [process EXCEPT ![thread.job] = "live"]
  /\ UNCHANGED <<wjobs, disk, queue, refs, daemon, call, closing, outages, submitted, client, cache>>

\* The process and its tree are recorded, and persisted for a successor.
RecordChild ==
  /\ At("record") /\ GoesTo("wait")
  /\ Persists("thread", thread.job, [wjobs[thread.job] EXCEPT !.child = TRUE], "none")
  /\ UNCHANGED <<disk, queue, refs, process, daemon, closing, outages, submitted, client, cache>>

\* The watchdog kills the tree: a cancellation, or the deadline.
WatchdogKills ==
  /\ At("wait") /\ process[thread.job] = "live"
  /\ process' = Killed({thread.job})
  /\ UNCHANGED <<wjobs, disk, queue, refs, thread, daemon, call, closing, outages, submitted, client,
                 cache>>

\* The watchdog sees no output and no CPU: the job's run is lost.
Stall ==
  /\ At("wait") /\ process[thread.job] = "live" /\ outages < OutageBound
  /\ outages' = outages + 1
  /\ process' = Killed({thread.job})
  /\ wjobs' = [wjobs EXCEPT ![thread.job].flags = @ \cup {"stalled"}]
  /\ UNCHANGED <<disk, queue, refs, thread, daemon, call, closing, submitted, client, cache>>

\* The suite ends by itself.
SuiteEnds(j, exit) ==
  /\ process[j] = "live"
  /\ process' = [process EXCEPT ![j] = exit]
  /\ UNCHANGED <<wjobs, disk, queue, refs, thread, daemon, call, closing, outages, submitted, client,
                 cache>>

\* What the thread passes when the process is over: a stall before a cancellation, that
\* before a kill, a kill before a result.
Closing(j) ==
  LET flags == wjobs[j].flags IN
  CASE "stalled" \in flags -> SetStatus("thread", wjobs, j, "failed", "job_lost_on_worker", "none")
    [] "stalled" \notin flags /\ "cancel_requested" \in flags ->
         SetStatus("thread", wjobs, j, "cancelled", "none", "none")
    [] flags \cap {"stalled", "cancel_requested"} = {} /\ process[j] = "killed" ->
         SetStatus("thread", wjobs, j, "failed", "worker_signal_killed", "none")
    [] OTHER -> SetStatus("thread", wjobs, j, IF process[j] = "pass" THEN "done" ELSE "failed",
                          "none", process[j])

\* A job closed by mark_interrupted keeps its verdict; of a stalled one the worker is
\* restarted next.
FinishRun ==
  LET j == thread.job IN
  /\ At("wait") /\ process[j] # "live"
  /\ IF "interrupted" \in wjobs[j].flags THEN GoesTo("cleanup") /\ UNCHANGED call
     ELSE GoesTo(IF "stalled" \in wjobs[j].flags THEN "stalled" ELSE "cleanup") /\ Closing(j)
  /\ UNCHANGED <<wjobs, disk, queue, refs, process, daemon, closing, outages, submitted, client, cache>>

\* _report_stall: on_stall_restart, which closes no job.
RestartStalled ==
  /\ At("stalled") /\ GoesTo("cleanup")
  /\ daemon' = "exiting"
  /\ UNCHANGED <<wjobs, disk, queue, refs, process, call, closing, outages, submitted, client, cache>>

\* _cleanup_worktree: the ref is the commit's, shared by its jobs.
CleanupWorktree ==
  /\ At("cleanup") /\ thread' = Idle
  /\ refs' = refs \ {wjobs[thread.job].key}
  /\ UNCHANGED <<wjobs, disk, queue, process, daemon, call, closing, outages, submitted, client, cache>>

-----------------------------------------------------------------------------
\* The daemon's end and start.

\* POST /system/restart: mark_interrupted, of the jobs live by now.
RestartDaemon ==
  /\ daemon = "up" /\ outages < OutageBound
  /\ closing' = {j \in JobNos : Live(j)}
  /\ daemon' = "restarting" /\ outages' = outages + 1
  /\ UNCHANGED <<wjobs, disk, queue, refs, thread, process, call, submitted, client, cache>>

\* One of them, oldest first, is closed.  If it came to its end meanwhile it keeps it.
MarkInterrupted(j) ==
  LET marked == [wjobs EXCEPT ![j].flags = @ \cup {"interrupted"}] IN
  /\ Serving /\ call["restart"] = NoCall
  /\ j \in closing /\ \A i \in closing : j =< i
  /\ closing' = closing \ {j}
  /\ wjobs' = marked
  /\ SetStatus("restart", marked, j, "failed", "worker_restarted", "none")
  /\ process' = IF Terminal(wjobs[j]) /\ wjobs[j].child THEN Killed({j}) ELSE process
  /\ UNCHANGED <<disk, queue, refs, thread, daemon, outages, submitted, client, cache>>

\* trigger_daemon_restart, once they are closed: the exit follows a second later.
ExitSoon ==
  /\ daemon = "restarting" /\ closing = {} /\ call["restart"] = NoCall
  /\ daemon' = "exiting"
  /\ UNCHANGED <<wjobs, disk, queue, refs, thread, process, call, closing, outages, submitted, client,
                 cache>>

\* os._exit, or a crash: the memory is gone, the processes go on, and the requests
\* under way are cut.
Exit ==
  /\ \/ daemon = "exiting" /\ UNCHANGED outages
     \/ daemon \in {"up", "restarting"} /\ outages < OutageBound /\ outages' = outages + 1
  /\ daemon' = "down"
  /\ wjobs' = [j \in JobNos |-> NoJob] /\ queue' = << >> /\ thread' = Idle
  /\ call' = [a \in Actors |-> NoCall] /\ closing' = {}
  /\ client' = [c \in Clients |-> IF client[c].at \in {"fetched", "posted"}
                                  THEN [NewClient EXCEPT !.at = "crashed"] ELSE client[c]]
  /\ UNCHANGED <<disk, refs, process, submitted, cache>>

\* Fault: open records come back as they are.
StartForgets ==
  /\ daemon = "down" /\ daemon' = "up"
  /\ wjobs' = disk
  /\ UNCHANGED <<disk, process, queue, refs, thread, call, closing, outages, submitted, client, cache>>

\* __init__, _recover_persisted_jobs: closed records come back as they are; an open
\* one is closed, and its recorded process killed.
Start ==
  LET orphans == {j \in JobNos : disk[j].status \in {"queued", "running"}}
      found == [j \in JobNos |-> IF j \in orphans
                  THEN [disk[j] EXCEPT !.status = "failed", !.code = "worker_restarted",
                                       !.flags = {"interrupted"}]
                  ELSE disk[j]] IN
  /\ daemon = "down"
  /\ daemon' = "up"
  /\ wjobs' = found
  /\ disk' = [j \in JobNos |-> Record(found[j])]
  /\ process' = Killed({j \in orphans : disk[j].child})
  /\ UNCHANGED <<queue, refs, thread, call, closing, outages, submitted, client, cache>>

-----------------------------------------------------------------------------
RemoteInit ==
  /\ wjobs = [j \in JobNos |-> NoJob] /\ disk = [j \in JobNos |-> NoJob]
  /\ queue = << >> /\ refs = {} /\ thread = Idle
  /\ process = [j \in JobNos |-> "none"]
  /\ daemon = "up" /\ outages = 0 /\ submitted = 0
  /\ call = [a \in Actors |-> NoCall] /\ closing = {}
  /\ client = [c \in Clients |-> NewClient]
  /\ cache = {}

ClientSteps(c) ==
  \/ DispatchRemote(c) \/ RunLocally(c)
  \/ SubmitFetch(c) \/ SubmitRegister(c) \/ SubmitRefused(c) \/ SubmitDeclined(c)
  \/ StreamVerdict(c) \/ StreamNoVerdict(c) \/ StreamAbandoned(c) \/ WorkerUnreachable(c)
  \/ WorkerBack(c) \/ WorkerGone(c)

CallSteps(a) == Assign(a) \/ WriteRecord(a)

ThreadSteps ==
  \/ Take \/ StartRun \/ RecordWorktree \/ Popen \/ RecordChild \/ FinishRun \/ RestartStalled
  \/ CleanupWorktree
  \/ \E ok \in BOOLEAN : AddWorktree(ok)

RestartSteps == ExitSoon \/ \E j \in JobNos : MarkInterrupted(j)

RemoteNext ==
  \/ \E c \in Clients : ClientSteps(c) \/ SubmitQueue(c)
  \/ \E a \in Actors : CallSteps(a)
  \/ ThreadSteps \/ WatchdogKills \/ Stall
  \/ \E j \in JobNos, exit \in {"pass", "fail"} : SuiteEnds(j, exit)
  \/ RestartDaemon \/ RestartSteps \/ Exit \/ Start

\* The daemon's threads run, its handlers of requests among them; the watchdog's
\* deadline ends every run; a daemon that is to exit does, and the restart helper (or
\* the service manager) starts the next one.
RemoteFairness ==
  /\ \A a \in Actors : WF_remoteVars(CallSteps(a))
  /\ \A c \in Clients : WF_remoteVars(SubmitQueue(c))
  /\ WF_remoteVars(ThreadSteps) /\ WF_remoteVars(WatchdogKills)
  /\ WF_remoteVars(RestartSteps)
  /\ WF_remoteVars(daemon = "exiting" /\ Exit) /\ WF_remoteVars(Start)

RemoteSpec == RemoteInit /\ [][RemoteNext]_remoteVars /\ RemoteFairness
-----------------------------------------------------------------------------
\* Properties.

\* A verdict is earned: a client reports pass or fail only if a suite of its own commit
\* and configuration ran to its end with that result, whatever was killed, cancelled,
\* shared, resumed or recovered in between.  (Evidence that does not parse or names
\* another commit, which fails without a suite, is left out.)
VerdictEarned ==
  \A c \in Clients : client[c].verdict # "none" =>
    \E j \in JobNos : disk[j].key = KeyOf[c] /\ process[j] = client[c].verdict

\* Submissions of one key share a job: two are live at once only if one of them was
\* cancelled or interrupted, and reopened by a call that had passed its check.
SharedRun ==
  \A i, j \in JobNos : i # j /\ Live(i) /\ Live(j) /\ wjobs[i].key = wjobs[j].key =>
    (wjobs[i].flags \cup wjobs[j].flags) \cap {"cancel_requested", "interrupted"} # {}

ClosedByRestart(rec) == rec.status = "failed" /\ rec.code = "worker_restarted"

\* A job closed because its worker restarted stays so on disk, whatever the thread that
\* was running it and the successor's recovery go on to do; unless a call that had
\* passed its check before was under way when the restart closed it.
InterruptedKept ==
  [][\A j \in JobNos : ClosedByRestart(disk[j]) /\ "raced" \notin wjobs[j].flags =>
       ClosedByRestart(disk'[j])]_remoteVars

\* Not so: "the run thread must not overwrite that verdict", of a job the worker itself
\* ended.  The thread that passed its check before writes "running" or a verdict over it.
InterruptedStays ==
  [][\A j \in JobNos :
       /\ thread.job = j /\ "cancel_requested" \notin wjobs[j].flags
       /\ ClosedByRestart(disk[j])
       => ClosedByRestart(disk'[j])]_remoteVars

\* Every job accepted is closed on disk, through restarts and crashes: time and again
\* no record is open.
JobsClose == []<>(\A j \in JobNos : disk[j].status \notin {"queued", "running"})

\* Not so: "The job child is terminated (not left orphaned holding the suite lock)",
\* of a restart.  A process started after mark_interrupted outlives the daemon, and
\* its closed record keeps the successor from killing it.
InterruptedReaped ==
  \A j \in JobNos : daemon = "down" /\ disk[j].code = "worker_restarted" => process[j] # "live"

\* Not so: the cache keys a verdict by the selected steps and flags, but a holdout
\* client may share the job of one without holdout, and stores its pass.
HoldoutEarned ==
  \A k \in {KeyOf[c] : c \in Clients} : <<k, TRUE>> \in cache =>
    \E j \in JobNos : disk[j].key = k /\ disk[j].holdout /\ process[j] = "pass"
=============================================================================
