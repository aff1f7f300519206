---------------------------- MODULE ModelCircuit -----------------------------
(***************************************************************************)
(* The resilient model provider (core/execution/resilience.py): threads    *)
(* ask for a generation; a local model is tried first, behind a circuit    *)
(* breaker, and the cloud is the fallback.  Every circuit method holds the *)
(* breaker's lock, so it is one step; the provider's call is not under it, *)
(* and other threads run between the admission of a request and its        *)
(* verdict.                                                                *)
(*                                                                         *)
(* An error is "transient" (rate limit, HTTP, timeout: retried on the      *)
(* cloud) or "fatal".  BaseExceptions (an interrupted thread) pass the     *)
(* `except Exception' and record no verdict.  Models, prompts, costs and   *)
(* the history of fallbacks decide nothing here.                           *)
(***************************************************************************)
EXTENDS Integers, FiniteSets

CONSTANTS
  Threads,
  FailureThreshold, HalfOpenTrials, MaxModelRetries,
  RecoveryTime,      \* recovery_timeout_seconds, in ticks
  InterruptBound     \* bound: threads interrupted in a provider's call

ASSUME CircuitAssumption ==
  /\ FailureThreshold \in Nat \ {0} /\ HalfOpenTrials \in Nat \ {0}
  /\ MaxModelRetries \in Nat /\ RecoveryTime \in Nat \ {0} /\ InterruptBound \in Nat

VARIABLES
  circuit,     \* local_circuit and cloud_circuit
  asking,      \* by thread: where its generate is, and the retries it has made
  probes,      \* ghost: local requests admitted since the local circuit half opened
  interrupts

circuitVars == <<circuit, asking, probes, interrupts>>

Closed == [state |-> "closed", failures |-> 0, since |-> 0, trials |-> 0]
AtRest == [at |-> "idle", tries |-> 0]

-----------------------------------------------------------------------------
\* CircuitBreaker.  `since' is the time since the last failure.

Evaluated(c) ==
  IF c.state = "open" /\ c.since >= RecoveryTime
  THEN [c EXCEPT !.state = "half_open", !.trials = HalfOpenTrials] ELSE c

Allows(c) == \/ c.state = "closed"
             \/ c.state = "half_open" /\ c.trials > 0

\* Fault: a trial is not taken from the count.
AdmittedFree(c) == c

Admitted(c) == IF c.state = "half_open" THEN [c EXCEPT !.trials = @ - 1] ELSE c

Succeeded(c) == IF c.state = "open" THEN c ELSE [c EXCEPT !.state = "closed", !.failures = 0]

\* Fault: a failed probe leaves the circuit half open.
FailedProbeStays(c) ==
  LET n == c.failures + 1 IN
  [c EXCEPT !.failures = n, !.since = 0,
            !.state = IF c.state = "closed" /\ n >= FailureThreshold THEN "open" ELSE @]

Failed(c) ==
  LET n == c.failures + 1 IN
  [c EXCEPT !.failures = n, !.since = 0,
            !.state = IF c.state = "half_open" \/ (c.state = "closed" /\ n >= FailureThreshold)
                      THEN "open" ELSE @]

\* Bound: failures beyond the threshold count alike.
Capped(c) == [c EXCEPT !.failures = IF @ > FailureThreshold THEN FailureThreshold ELSE @]

-----------------------------------------------------------------------------
\* generate.

Goes(t, where) == asking' = [asking EXCEPT ![t] = [at |-> where, tries |-> 0]]

\* Path A: the cloud circuit is not asked.
GenerateCloud(t) ==
  /\ asking[t].at = "idle"
  /\ Goes(t, "cloud")
  /\ UNCHANGED <<circuit, probes, interrupts>>

\* Path B: local first; a request that is not admitted is diverted at once, or
\* raises where the fallback is disabled.
GenerateLocal(t, fallback) ==
  LET c == Evaluated(circuit.local) IN
  /\ asking[t].at = "idle"
  /\ circuit' = [circuit EXCEPT !.local = IF Allows(c) THEN Admitted(c) ELSE c]
  /\ IF Allows(c) THEN Goes(t, "local")
     ELSE IF fallback THEN Goes(t, "fallback") ELSE UNCHANGED asking
  /\ probes' = IF c # circuit.local THEN IF Allows(c) THEN {t} ELSE {}
               ELSE IF Allows(c) THEN probes \cup {t} ELSE probes
  /\ UNCHANGED interrupts

LocalReturns(t, ok, fallback) ==
  /\ asking[t].at = "local"
  /\ circuit' = [circuit EXCEPT !.local = Capped(IF ok THEN Succeeded(@) ELSE Failed(@))]
  /\ Goes(t, IF ~ ok /\ fallback THEN "fallback" ELSE "idle")
  /\ UNCHANGED <<probes, interrupts>>

\* _dispatch_cloud_fallback: the budget callback may refuse.
DispatchCloudFallback(t, budgetOk) ==
  /\ asking[t].at = "fallback"
  /\ Goes(t, IF budgetOk THEN "cloud" ELSE "idle")
  /\ UNCHANGED <<circuit, probes, interrupts>>

\* _execute_with_retry, and the verdict it leaves on the cloud circuit.
CloudReturns(t, result) ==
  /\ asking[t].at = "cloud"
  /\ IF result = "transient" /\ asking[t].tries < MaxModelRetries
     THEN asking' = [asking EXCEPT ![t].tries = @ + 1] /\ UNCHANGED circuit
     ELSE /\ Goes(t, "idle")
          /\ circuit' = [circuit EXCEPT !.cloud = Capped(IF result = "ok" THEN Succeeded(@) ELSE Failed(@))]
  /\ UNCHANGED <<probes, interrupts>>

Interrupted(t) ==
  /\ asking[t].at \in {"local", "cloud"} /\ interrupts < InterruptBound
  /\ Goes(t, "idle")
  /\ interrupts' = interrupts + 1
  /\ UNCHANGED <<circuit, probes>>

\* The state property of a breaker, and reset().
ReadState(which) ==
  /\ circuit' = [circuit EXCEPT ![which] = Evaluated(@)]
  /\ circuit' # circuit
  /\ probes' = IF which = "local" THEN {} ELSE probes
  /\ UNCHANGED <<asking, interrupts>>

Reset(which) ==
  /\ circuit' = [circuit EXCEPT ![which] = Closed]
  /\ UNCHANGED <<asking, probes, interrupts>>

-----------------------------------------------------------------------------
Older(c) == [c EXCEPT !.since = IF @ < RecoveryTime THEN @ + 1 ELSE @]

CircuitTick ==
  /\ circuit' = [circuit EXCEPT !.local = Older(@), !.cloud = Older(@)]
  /\ UNCHANGED <<asking, probes, interrupts>>

CircuitInit ==
  /\ circuit = [local |-> Closed, cloud |-> Closed]
  /\ asking = [t \in Threads |-> AtRest]
  /\ probes = {} /\ interrupts = 0

Returns(t) ==
  \/ \E ok, fallback \in BOOLEAN : LocalReturns(t, ok, fallback)
  \/ \E budgetOk \in BOOLEAN : DispatchCloudFallback(t, budgetOk)
  \/ \E result \in {"ok", "transient", "fatal"} : CloudReturns(t, result)

AsksLocal(t) == \E fallback \in BOOLEAN : GenerateLocal(t, fallback)

CircuitNext ==
  \/ \E t \in Threads : \/ GenerateCloud(t) \/ Interrupted(t) \/ Returns(t)
                        \/ AsksLocal(t)
  \/ \E which \in {"local", "cloud"} : ReadState(which) \/ Reset(which)
  \/ CircuitTick

\* Provider calls time out, so they return; callers keep asking for local models;
\* the clock goes on.
CircuitFairness ==
  /\ \A t \in Threads : WF_circuitVars(Returns(t))
  /\ \A t \in Threads : SF_circuitVars(AsksLocal(t))
  /\ WF_circuitVars(CircuitTick)

CircuitSpec == CircuitInit /\ [][CircuitNext]_circuitVars /\ CircuitFairness
-----------------------------------------------------------------------------
\* Properties.

\* While the local circuit is half open, no more requests than its trials have been
\* let through since it half opened, whatever verdicts of older requests arrive.
ProbesBounded ==
  circuit.local.state = "half_open" => Cardinality(probes) + circuit.local.trials =< HalfOpenTrials

\* No wedge: a half-open circuit gets a verdict, from a probe or from an older request,
\* unless a thread was interrupted: an interrupted probe leaves it half open with no
\* trials left, and only reset() moves it on.
CircuitMoves ==
  circuit.local.state = "half_open" ~> circuit.local.state # "half_open" \/ interrupts > 0
=============================================================================
