------------------------------- MODULE MCLine --------------------------------
(* Small instances of CloudLine for TLC. *)
EXTENDS CloudLine, TLC

CONSTANTS r1, w1, w2, h1, h2, t1

\* The line cut down to its first stage, its last productive one and the closing
\* one; the stages between them follow the same rule.
ThreeStages == {"grill", "planning", "build_deploy", "retrospective"}
ShortDag    == "grill" :> "planning" @@ "planning" :> "build_deploy"

\* One productive step is enough to see a reservation outlive a stage.
TwoStages == {"grill", "planning", "retrospective"}
TinyDag   == "grill" :> "planning"

TwoHosts == w1 :> h1 @@ w2 :> h2
Generalists == [w \in Workers |-> Stages]
OneTicket == [r \in Runs |-> t1]

Plain(outcome)  == [outcome |-> outcome, target |-> NoStage, delay |-> "none"]
Bounce(stage)   == [outcome |-> "retry", target |-> stage, delay |-> "none"]

\* What the stages return.  An exception in a handler is a plain retry.
Ends       == [st \in Stages |-> {Plain("success"), Plain("failed")}]
Asks       == [Ends EXCEPT !["grill"] = @ \cup {Plain("waiting_human")}]
Parks      == [Ends EXCEPT !["build_deploy"] = @ \cup {Plain("waiting_human")}]
Replans    == [Ends EXCEPT !["build_deploy"] = @ \cup {Plain("replan")}]
Retries    == [Ends EXCEPT !["grill"] = {Plain("success"), Plain("waiting_human")},
                           !["planning"] = {Plain("success"), Plain("retry")}]
\* stage_planning may send a run back to grill.
Loops      == [Ends EXCEPT !["grill"] = {Plain("success")},
                           !["planning"] = {Plain("success"), Plain("retry"), Bounce("grill")},
                           !["retrospective"] = {Plain("success")}]

\* A stage that is tried again and then sends the run back: integration polls the
\* checks and returns to development.
Reworks    == [Ends EXCEPT !["grill"] = {Plain("success")},
                           !["planning"] = {Plain("success"), Plain("retry"), Bounce("grill")}]

\* The two workers, with their hosts, can change places.
SwapWorkers == w1 :> w2 @@ w2 :> w1 @@ h1 :> h2 @@ h2 :> h1
Interchangeable == Permutations(Leases) \cup Permutations(Reservations) \cup {SwapWorkers}
=============================================================================
