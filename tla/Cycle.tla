-------------------------------- MODULE Cycle --------------------------------
(***************************************************************************)
(* The implementation cycle (core/workflow/cycle.py): the service that     *)
(* drives a run of the workflow runtime through development, validation    *)
(* and independent review, and counts failures in a correction-loop        *)
(* tracker so that a ticket is not corrected for ever.                     *)
(*                                                                         *)
(* Each method makes several calls of the runtime, each a transaction of   *)
(* its own: `todo' is what remains of the method that is running, a state  *)
(* stands for transition_run to it, a stage for enqueue_job in its pool.   *)
(* A call that raises ends the method where it is, and so does a restart   *)
(* of the service, which also loses the trackers: they live in a dict.     *)
(* The calls pass no idempotency key.                                      *)
(*                                                                         *)
(* The readiness gate, the manifests and the evidence decide `eligible'    *)
(* and `approve' and nothing else, and are free inputs here.               *)
(***************************************************************************)
EXTENDS WorkflowRuntime, Sequences

CONSTANTS
  CycleRuns,        \* the runs (tickets) that the service drives
  MaxCorrections,   \* max_attempts of CorrectionLoopTracker
  RestartBound      \* bound: restarts of the service

ASSUME CycleAssumption == CycleRuns \subseteq Runs /\ MaxCorrections \in Nat \ {0} /\ RestartBound \in Nat

VARIABLES
  trackers,  \* _loop_trackers by run: attempts_made and consecutive_failures
  method,    \* the method that runs on a run, or "none"
  todo,      \* the runtime calls it has still to make
  reworks,   \* ghost: corrections allowed since the trackers were last lost
  restarts

cycleVars == <<trackers, method, todo, reworks, restarts>>

FreshTracker == [attempts |-> 0, failures |-> 0]

-----------------------------------------------------------------------------
\* CorrectionLoopTracker.

Success(t) == [t EXCEPT !.failures = 0]
Failure(t) == [attempts |-> t.attempts + 1, failures |-> t.failures + 1]

\* Fault: the two limits are swapped for one that the successes in between reset.
CanRetryConsecutive(t) == t.failures < 2

\* The verdict of record_failure on the updated tracker.
CanRetry(t) == t.attempts < MaxCorrections /\ t.failures < 2

-----------------------------------------------------------------------------
\* The methods.  Each is called when no other runs on the ticket.

Begin(r, name, calls) ==
  /\ runs[r].state # "absent" /\ method[r] = "none"
  /\ method' = [method EXCEPT ![r] = name]
  /\ todo' = [todo EXCEPT ![r] = calls]
  /\ UNCHANGED <<runtimeVars, restarts>>

StartDevelopment(r) ==
  /\ Begin(r, "start_development",
           (IF runs[r].state = "implementing_economy" THEN <<>> ELSE <<"implementing_economy">>)
             \o <<"development">>)
  /\ UNCHANGED <<trackers, reworks>>

SubmitCandidate(r) ==
  /\ Begin(r, "submit_candidate", <<"validating", "test">>)
  /\ UNCHANGED <<trackers, reworks>>

Counted(r, tracker) ==
  /\ trackers' = [trackers EXCEPT ![r] = tracker]
  /\ reworks' = [reworks EXCEPT ![r] = @ + (IF CanRetry(tracker) THEN 1 ELSE 0)]

RunValidation(r, eligible) ==
  LET failed == Failure(trackers[r]) IN
  IF eligible
  THEN /\ Begin(r, "run_validation", <<"independent_review", "review">>)
       /\ trackers' = [trackers EXCEPT ![r] = Success(@)]
       /\ UNCHANGED reworks
  ELSE /\ Begin(r, "run_validation",
                <<"failed_validation", IF CanRetry(failed) THEN "implementing_economy" ELSE "planning_high">>)
       /\ Counted(r, failed)

ConductIndependentReview(r, approve) ==
  LET failed == Failure(trackers[r]) IN
  IF approve
  THEN /\ Begin(r, "none", <<>>)
       /\ trackers' = [trackers EXCEPT ![r] = Success(@)]
       /\ UNCHANGED reworks
  ELSE /\ Begin(r, "conduct_independent_review",
                IF CanRetry(failed) THEN <<"failed_validation", "implementing_economy">>
                                    ELSE <<"needs_replan">>)
       /\ Counted(r, failed)

-----------------------------------------------------------------------------
\* One runtime call of the method on r.

Rest(r) ==
  /\ todo' = [todo EXCEPT ![r] = Tail(@)]
  /\ method' = [method EXCEPT ![r] = IF Len(todo[r]) = 1 THEN "none" ELSE @]

Raise(r) ==
  /\ todo' = [todo EXCEPT ![r] = <<>>]
  /\ method' = [method EXCEPT ![r] = "none"]
  /\ UNCHANGED runtimeVars

CallTransition(r) ==
  LET target == Head(todo[r])
      key == DefaultKey(r, target)
  IN
  /\ todo[r] # <<>> /\ target \in WorkflowStates
  /\ \/ TransitionRun(r, target, key) /\ Rest(r)
     \/ (Replays(r, target, key) \/ target = runs[r].state) /\ Rest(r) /\ UNCHANGED runtimeVars
     \/ /\ ~ Transitions(r, target, key) /\ ~ Replays(r, target, key) /\ target # runs[r].state
        /\ Raise(r)
  /\ UNCHANGED <<trackers, reworks, restarts>>

\* Job ids are fresh: any job of the stage that was not used yet.  The cycle never
\* looks at its jobs, so those beyond the pool (a bound) are not recorded.
Unused(r, stage) == {j \in JobsOf(r) : StageOf[j] = stage /\ jobs[j].status = "absent"}

CallEnqueue(r) ==
  /\ todo[r] # <<>> /\ Head(todo[r]) \notin WorkflowStates
  /\ \/ \E j \in Unused(r, Head(todo[r])) : EnqueueJob(j)
     \/ Unused(r, Head(todo[r])) = {} /\ UNCHANGED runtimeVars
  /\ Rest(r)
  /\ UNCHANGED <<trackers, reworks, restarts>>

Restart ==
  /\ restarts < RestartBound
  /\ trackers' = [r \in CycleRuns |-> FreshTracker]
  /\ method' = [r \in CycleRuns |-> "none"]
  /\ todo' = [r \in CycleRuns |-> <<>>]
  /\ reworks' = [r \in CycleRuns |-> 0]
  /\ restarts' = restarts + 1
  /\ UNCHANGED runtimeVars

-----------------------------------------------------------------------------
CycleInit ==
  /\ trackers = [r \in CycleRuns |-> FreshTracker]
  /\ method = [r \in CycleRuns |-> "none"]
  /\ todo = [r \in CycleRuns |-> <<>>]
  /\ reworks = [r \in CycleRuns |-> 0]
  /\ restarts = 0

\* Bound: no method starts once the tracker has passed its limit by more than one.
Callable(r) == trackers[r].attempts =< MaxCorrections

CycleNext ==
  \/ \E r \in CycleRuns : RegisterRun(r) /\ UNCHANGED cycleVars
  \/ \E r \in CycleRuns : /\ Callable(r)
                     /\ \/ StartDevelopment(r)
                        \/ SubmitCandidate(r)
                        \/ \E verdict \in BOOLEAN : RunValidation(r, verdict) \/ ConductIndependentReview(r, verdict)
  \/ \E r \in CycleRuns : CallTransition(r) \/ CallEnqueue(r)
  \/ Restart
-----------------------------------------------------------------------------
\* Properties.

\* While the service lives, a ticket is sent back for correction fewer times than
\* the tracker's limit, whatever order validations and reviews fail and pass in.
ReworkBounded == \A r \in CycleRuns : reworks[r] < MaxCorrections

\* cycle.py:253, "Advance run to VALIDATING": when submit_candidate's transition
\* returns, the run is in VALIDATING.
SubmittedIsValidating ==
  [][\A r \in CycleRuns :
       (/\ method[r] = "submit_candidate" /\ Len(todo[r]) = 2 /\ Len(todo'[r]) = 1)
         => runs'[r].state = "validating"]_<<runtimeVars, cycleVars>>
=============================================================================
