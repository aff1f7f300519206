------------------------------ MODULE MCEngine -------------------------------
(* Small instances of the workflow runtime and the implementation cycle.    *)
EXTENDS Cycle, ExecutionBudget, TLC

CONSTANTS r1, r2, r3, j1, j2, j3, j4, dev, test, review, p1, x1, x2, x3

\* Two runs of one project.  j1 and j3 compete for the budget of r1; j2 waits for
\* j3 and shares the limited development stage with j1; j4 conflicts with j3.
\* The cycle drives r3, with one job of each of its stages.
RunsOfJobs   == j1 :> r1 @@ j2 :> r2 @@ j3 :> r1 @@ j4 :> r2 @@ dev :> r3 @@ test :> r3 @@ review :> r3
StagesOfJobs == j1 :> "development" @@ j2 :> "development" @@ j3 :> "test" @@ j4 :> "test"
                @@ dev :> "development" @@ test :> "test" @@ review :> "review"
OneFirst   == [j \in Jobs |-> IF j = j2 THEN {j3} ELSE {}]
SameFile   == [j \in Jobs |-> IF j \in {j3, j4} THEN {"file"} ELSE {}]
Ones       == [j \in Jobs |-> 1]
Retried    == [j \in Jobs |-> IF j = j1 THEN 2 ELSE 1]
OneProject == [r \in Runs |-> p1]
Ceilings   == r1 :> 1 @@ r2 :> 2 @@ r3 :> 2
OneWriter  == [development |-> 1]

\* A window narrower than the ceiling, over two ticks.
OneWindow == {[duration |-> 1, ceiling |-> 3]}

\* The parts do not meet; each behaviour is of one of them.  For the runtime and the
\* cycle, which share tables, the runs of the other were cancelled before.
VARIABLE part
engineVars == <<runtimeVars, cycleVars, budgetVars, part>>

Live == CASE part = "cycle" -> {r3} [] part = "runtime" -> {r1, r2} [] OTHER -> {}

\* The run r2 of the runtime and its jobs are there from the start.
Present(r) == part = "runtime" /\ r = r2
Entered(r, there) == IF r \notin Live THEN "cancelled" ELSE IF Present(r) THEN there ELSE "absent"

EngineInit ==
  /\ part \in {"runtime", "cycle", "budget"}
  /\ runs = [r \in Runs |-> [state |-> Entered(r, InitialState),
                             reserved |-> 0, spent |-> 0]]
  /\ jobs = [j \in Jobs |-> [status |-> Entered(RunOf[j], "ready"),
                             attempt |-> 0, wait |-> 0]]
  /\ leases = [j \in Jobs |-> [a \in Attempts(j) |-> NoLease]]
  /\ runOps = {}
  /\ CycleInit /\ BudgetInit

EngineNext ==
  /\ \/ part = "runtime" /\ RuntimeNext /\ UNCHANGED <<cycleVars, budgetVars>>
     \/ part = "cycle" /\ CycleNext /\ UNCHANGED budgetVars
     \/ part = "budget" /\ BudgetNext /\ UNCHANGED <<runtimeVars, cycleVars>>
  /\ UNCHANGED part

EngineSpec == EngineInit /\ [][EngineNext]_engineVars

\* The cycle alone, and the budget alone.
CycleSpec  == EngineInit /\ part = "cycle" /\ [][EngineNext]_engineVars
BudgetOnly == EngineInit /\ part = "budget" /\ [][EngineNext]_engineVars
=============================================================================
