----------------------------- MODULE Successors -----------------------------
(***************************************************************************)
(* The successor rule of the production line: which jobs a finished job    *)
(* gives rise to, and which status it is recorded with.  It is the part of *)
(* core/workflow/successors.py:materialize_result that touches no storage; *)
(* the transaction that applies it is ControlStore!MaterializeResult.      *)
(*                                                                         *)
(* A job is named by its key.  ticket_id and plan_version are fixed by the *)
(* run, so a key is a run, a stage and an iteration.  The text of a        *)
(* cause_code is reduced to what the rule reads out of it: the stage of a  *)
(* "retry:<stage>" cause, and whether it carries a not_before or a         *)
(* base_red mark.                                                          *)
(***************************************************************************)
EXTENDS Integers

CONSTANTS
  Runs,                     \* run ids
  Stages,                   \* stage names in use
  PRODUCTIVE_DAG,           \* the next stage of a stage, a function
  MAX_STAGE_ITERATIONS,     \* cap of a "retry:<stage>" bounce
  MAX_SAME_STAGE_RETRIES,   \* cap of a same-stage retry
  MaxIteration,             \* bound: no key has a larger iteration
  NoStage                   \* no stage: the cause_code has no "retry:" prefix

ASSUME SuccessorsAssumption ==
  /\ {"grill", "planning", "retrospective"} \subseteq Stages
  /\ NoStage \notin Stages
  /\ DOMAIN PRODUCTIVE_DAG \subseteq Stages
  /\ \A st \in DOMAIN PRODUCTIVE_DAG : PRODUCTIVE_DAG[st] \in Stages
  /\ MAX_STAGE_ITERATIONS \in Nat
  /\ MAX_SAME_STAGE_RETRIES \in Nat
  /\ MaxIteration \in Nat

Keys == [run : Runs, stage : Stages, iteration : 0 .. MaxIteration]

Outcomes == {"success", "retry", "replan", "waiting_dependency",
             "waiting_human", "cancelled", "failed"}

\* What the cause_code of a retry says about when to try again.
Delays == {"none", "not_before", "base_red"}

Results ==
  [outcome : Outcomes \ {"retry"}, target : {NoStage}, delay : {"none"}]
    \cup
  [outcome : {"retry"}, target : Stages \cup {NoStage}, delay : Delays]

-----------------------------------------------------------------------------
\* The job a retry asks for.  top is the highest iteration recorded so far for
\* the target stage of a bounce; a plain retry ignores it.
RetryKey(key, result, top) ==
  IF result.target # NoStage
  THEN [key EXCEPT !.stage = result.target, !.iteration = top + 1]
  ELSE [key EXCEPT !.iteration = @ + 1]

\* The loop guard.  overBudget says that the run is past its wall-clock budget,
\* which bounds only a same-stage retry that waits for a not_before time.
CapExceeded(key, result, top, overBudget) ==
  IF result.target # NoStage
  THEN top + 1 > MAX_STAGE_ITERATIONS
  ELSE IF result.delay = "not_before"
       THEN overBudget
       ELSE key.iteration + 1 > MAX_SAME_STAGE_RETRIES

LoopCap(key, result, top, overBudget) ==
  result.outcome = "retry" /\ CapExceeded(key, result, top, overBudget)

\* Fault: every success ends in a retrospective, whatever the stage.
EmitRetrospectiveAlways(key, result, top, overBudget) ==
  result.outcome \in {"success", "failed"} \/ LoopCap(key, result, top, overBudget)

EmitRetrospective(key, result, top, overBudget) ==
  \/ result.outcome = "success" /\ key.stage = "build_deploy"
  \/ result.outcome = "failed"
  \/ LoopCap(key, result, top, overBudget)

When(cond, key) == IF cond THEN {key} ELSE {}

SuccessorKeys(key, result, top, overBudget) ==
  UNION {
    When(result.outcome = "success" /\ key.stage \in DOMAIN PRODUCTIVE_DAG,
         [key EXCEPT !.stage = PRODUCTIVE_DAG[key.stage]]),
    When(result.outcome = "retry" /\ ~ CapExceeded(key, result, top, overBudget),
         RetryKey(key, result, top)),
    When(result.outcome = "replan",
         [key EXCEPT !.stage = "planning", !.iteration = 0]),
    When(EmitRetrospective(key, result, top, overBudget),
         [key EXCEPT !.stage = "retrospective", !.iteration = 0]) }

\* The status the finished job is recorded with.
DbStatus(key, result, top, overBudget) ==
  CASE result.outcome = "success"             -> "succeeded"
    [] LoopCap(key, result, top, overBudget)  -> "failed"
    [] OTHER                                  -> result.outcome

\* Whether a successor must wait for the not_before time of its retry.
Gated(succ, key, result, top, overBudget) ==
  /\ result.outcome = "retry"
  /\ result.delay # "none"
  /\ ~ CapExceeded(key, result, top, overBudget)
  /\ succ.stage # "retrospective"
=============================================================================
