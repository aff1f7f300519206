---------------------------- MODULE FleetDispatcher ---------------------------
(***************************************************************************)
(* The fleet dispatcher (core/line/fleet_dispatcher.py) with its admission *)
(* store (core/line/admission_store.py): one process that, cycle after     *)
(* cycle, reaps the runs it launched, chooses planned tickets, launches    *)
(* one on each free host, and deploys what was merged.  Failures open a    *)
(* breaker on ticket, host and resource version; repeated ones latch       *)
(* recovery, which allows one delivery at a time and ends with a proof     *)
(* from production.                                                        *)
(*                                                                         *)
(* Runs are processes of their own: they outlive the dispatcher, which     *)
(* loses its memory when it stops and keeps the store and the file of      *)
(* pending proofs.  Time counts down the reservations, the cooldowns and   *)
(* the quiet window; every cooldown is one CooldownTime.  No delivery      *)
(* waits for a route (pending_delivery.tick finds no directory), no        *)
(* ticket has tags or dependencies, and no recovery tickets were named.    *)
(***************************************************************************)
EXTENDS Integers, Sequences, FiniteSets

CONSTANTS
  TicketOrder,        \* tickets by created_at and id
  HostOrder,          \* hosts by priority
  Versions,           \* what a probe may show as a host's resource version
  Classes,            \* classes of error a run may end with, "nothing" delivered among them
  RecoveryThreshold,  \* recovery_failure_threshold
  ReservationTtlSec, RecoveryTtl, CooldownTime, DeployWindow,   \* in ticks
  AlwaysUp,           \* every probe finds its host free
  LaunchBound, StopBound   \* bounds: launches, stops of the dispatcher

FleetTickets == {TicketOrder[i] : i \in DOMAIN TicketOrder}
FleetHosts   == {HostOrder[i] : i \in DOMAIN HostOrder}
Launchings   == 1..LaunchBound

ASSUME DispatcherAssumption ==
  /\ TicketOrder \in Seq(FleetTickets) /\ HostOrder \in Seq(FleetHosts)
  /\ {"none", "live", "merged"} \cap Classes = {}
  /\ RecoveryThreshold \in Nat \ {0} /\ AlwaysUp \in BOOLEAN
  /\ {ReservationTtlSec, RecoveryTtl, CooldownTime, DeployWindow, LaunchBound, StopBound} \subseteq Nat

VARIABLES
  flown,      \* by launching: the run, with its exit ("live" while it runs)
  mainTip,    \* the number of merges on main
  production, \* the merge that production runs
  failures,   \* failures: occurrences by scope and class of error
  admitted,   \* reservations: token (a launching) and time left, by scope and by RecoveryKey
  latch,      \* dispatcher_recovery.active
  unproven,   \* pending_recovery_releases.json: launchings whose release is to be proven
  mind,       \* the dispatcher's memory
  stops

dispatcherVars == <<flown, mainTip, production, failures, admitted, latch, unproven, mind, stops>>

Kinds  == Classes \cup {"launch"}
Scopes == FleetTickets \X FleetHosts \X Versions
RecoveryKey == <<"recovery">>
NotFlown == [scope |-> <<>>, recovery |-> FALSE, exit |-> "none", merge |-> 0]
NotReserved  == [token |-> 0, left |-> 0]

FlyingRuns     == {n \in Launchings : flown[n].exit = "live"}
TicketIn(n)    == flown[n].scope[1]
HostIn(n)      == flown[n].scope[2]
Delivered(t)   == \E n \in Launchings : flown[n].exit = "merged" /\ TicketIn(n) = t
NextLaunching  == Cardinality({n \in Launchings : flown[n].exit # "none"}) + 1

\* A dispatcher about to start: with proofs pending it deploys at once.
Started(pending) ==
  [at |-> "sleep", flights |-> [h \in FleetHosts |-> 0], cooldown |-> [t \in FleetTickets |-> 0],
   deploying |-> pending, quiet |-> 0, target |-> 0, queue |-> {}, hosts |-> <<>>,
   orphans |-> {}, launched |-> FALSE]

Turns(where) == mind' = [mind EXCEPT !.at = where]

-----------------------------------------------------------------------------
\* The admission store.

Release(rows, key, n) == [rows EXCEPT ![key] = IF @.token = n THEN NotReserved ELSE @]
\* What a run has reserved, by its token: its scope, and the recovery slot.
ReleaseRun(n) == admitted' = Release(Release(admitted, flown[n].scope, n), RecoveryKey, n)

\* reserve and reserve_recovery: expired rows go, and a free key is taken.
Sweep(rows) == [key \in DOMAIN rows |-> IF rows[key].left = 0 THEN NotReserved ELSE rows[key]]
Vacant(rows, key) == Sweep(rows)[key] = NotReserved
Reserved(rows, key, n, ttl) == [Sweep(rows) EXCEPT ![key] = [token |-> n, left |-> ttl]]

\* is_failure_open asks for any open failure of the scope; none is ever closed.
\* Fault: it is closed when the cooldown is over.
ClosesWithTime(scope) == mind.cooldown[scope[1]] > 0
FailureOpen(scope) == \E k \in Kinds : failures[<<scope, k>>] > 0

\* record_failure, and set_recovery when the threshold is reached.
RecordFailure(scope, k) ==
  /\ failures' = [failures EXCEPT ![<<scope, k>>] = @ + 1]
  /\ latch' = (latch \/ failures[<<scope, k>>] + 1 >= RecoveryThreshold)

-----------------------------------------------------------------------------
\* run_forever: the next cycle, and its _reap, one job at a time.

Wake ==
  /\ mind.at = "sleep" /\ Turns("reap")
  /\ UNCHANGED <<flown, mainTip, production, failures, admitted, latch, unproven, stops>>

\* Delivery evidence: a deployment is due, after the quiet window.
ReapMerge(h) ==
  LET n == mind.flights[h] IN
  /\ flown[n].exit = "merged" /\ ReleaseRun(n)
  /\ unproven' = IF latch THEN Append(unproven, n) ELSE unproven
  /\ mind' = [mind EXCEPT !.flights[h] = 0, !.deploying = TRUE, !.quiet = DeployWindow]
  /\ UNCHANGED <<failures, latch>>

ReapFailure(h) ==
  LET n == mind.flights[h] IN
  /\ flown[n].exit \in Kinds /\ RecordFailure(flown[n].scope, flown[n].exit) /\ ReleaseRun(n)
  /\ mind' = [mind EXCEPT !.flights[h] = 0, !.cooldown[TicketIn(n)] = CooldownTime]
  /\ UNCHANGED unproven

Reap(h) ==
  /\ mind.at = "reap" /\ mind.flights[h] # 0
  /\ ReapMerge(h) \/ ReapFailure(h)
  /\ UNCHANGED <<flown, mainTip, production, stops>>

-----------------------------------------------------------------------------
\* run_cycle, from the end of _reap to select_tickets.

\* heartbeat_recovery: a row that is still there is extended, expired or not.
Heartbeat ==
  IF latch /\ \E h \in FleetHosts : mind.flights[h] # 0 /\ mind.flights[h] = admitted[RecoveryKey].token
  THEN [admitted EXCEPT ![RecoveryKey].left = RecoveryTtl] ELSE admitted

\* running_fleet_tickets and running_fleet_hosts see every live run, of this
\* dispatcher or of one before it.
\* Fault: they see the runs of this dispatcher alone.
OwnRuns == {n \in FlyingRuns : \E h \in FleetHosts : mind.flights[h] = n}
LiveRuns == FlyingRuns

Choose ==
  /\ mind.at = "reap" /\ \A h \in FleetHosts : mind.flights[h] # 0 => flown[mind.flights[h]].exit = "live"
  /\ admitted' = Heartbeat
  /\ LET busy == {TicketIn(n) : n \in LiveRuns} IN
     mind' = [mind EXCEPT !.at = "dispatch", !.launched = FALSE, !.hosts = HostOrder,
       !.orphans = {HostIn(n) : n \in LiveRuns},
       !.queue = {t \in FleetTickets : t \notin busy /\ mind.cooldown[t] = 0 /\ ~ Delivered(t)}]
  /\ UNCHANGED <<flown, mainTip, production, failures, latch, unproven, stops>>

-----------------------------------------------------------------------------
\* _dispatch_hosts and _dispatch_ticket, one host at a time.

\* The queue keeps the order of select_tickets: its head is popped and, when nothing
\* comes of it, put back at the head.
Rank(t) == CHOOSE i \in DOMAIN TicketOrder : TicketOrder[i] = t
Host    == Head(mind.hosts)
Ticket  == CHOOSE t \in mind.queue : \A u \in mind.queue : Rank(t) <= Rank(u)
HostSkipped == unproven # <<>> \/ mind.flights[Host] # 0 \/ Host \in mind.orphans \/ mind.queue = {}
Serial      == latch /\ mind.launched

PassHost == mind' = [mind EXCEPT !.hosts = Tail(@)]

SkipHost ==
  /\ mind.at = "dispatch" /\ mind.hosts # <<>>
  /\ HostSkipped \/ Serial \/ ~ AlwaysUp
  /\ PassHost
  /\ UNCHANGED <<flown, mainTip, production, failures, admitted, latch, unproven, stops>>

\* identical_failure_open, recovery_delivery_reserved and admission_reserved: the
\* ticket goes back to the head of the queue.  A recovery slot taken for it is given
\* back, which leaves the sweep of the expired rows.
Refused(scope) ==
  \/ FailureOpen(scope) /\ UNCHANGED admitted
  \/ ~ FailureOpen(scope) /\ latch /\ ~ Vacant(admitted, RecoveryKey) /\ UNCHANGED admitted
  \/ /\ ~ FailureOpen(scope) /\ ~ Vacant(admitted, scope)
     /\ latch => Vacant(admitted, RecoveryKey)
     /\ admitted' = IF latch THEN Sweep(admitted) ELSE admitted

Refuse ==
  /\ mind.at = "dispatch" /\ mind.hosts # <<>> /\ ~ HostSkipped /\ ~ Serial
  /\ \E v \in Versions : Refused(<<Ticket, Host, v>>)
  /\ PassHost
  /\ UNCHANGED <<flown, mainTip, production, failures, latch, unproven, stops>>

\* The three checks passed, with the rows they leave.
Admits(scope, n) ==
  /\ ~ FailureOpen(scope) /\ Vacant(admitted, scope)
  /\ latch => Vacant(admitted, RecoveryKey)
Rows(scope, n) ==
  Reserved(IF latch THEN Reserved(admitted, RecoveryKey, n, RecoveryTtl) ELSE admitted,
           scope, n, ReservationTtlSec)

\* The process is started and registered.
Launch ==
  /\ mind.at = "dispatch" /\ mind.hosts # <<>> /\ ~ HostSkipped /\ ~ Serial
  /\ NextLaunching \in Launchings
  /\ \E v \in Versions :
       LET scope == <<Ticket, Host, v>>  n == NextLaunching IN
       /\ Admits(scope, n) /\ admitted' = Rows(scope, n)
       /\ flown' = [flown EXCEPT ![n] = [scope |-> scope, recovery |-> latch, exit |-> "live", merge |-> 0]]
       /\ mind' = [mind EXCEPT !.hosts = Tail(@), !.queue = @ \ {Ticket}, !.launched = TRUE, !.flights[Host] = n]
  /\ UNCHANGED <<mainTip, production, failures, latch, unproven, stops>>

\* _record_launch_failure: checkout or Popen failed; what was reserved is given back.
LaunchFails ==
  /\ mind.at = "dispatch" /\ mind.hosts # <<>> /\ ~ HostSkipped /\ ~ Serial /\ ~ AlwaysUp
  /\ \E v \in Versions :
       LET scope == <<Ticket, Host, v>> IN
       Admits(scope, 0) /\ RecordFailure(scope, "launch")
  /\ admitted' = Sweep(admitted)
  /\ mind' = [mind EXCEPT !.hosts = Tail(@), !.queue = @ \ {Ticket}, !.cooldown[Ticket] = CooldownTime]
  /\ UNCHANGED <<flown, mainTip, production, unproven, stops>>

-----------------------------------------------------------------------------
\* _maybe_deploy and the end of the cycle.

DeployDue == mind.deploying /\ mind.quiet = 0

EndCycle ==
  /\ mind.at = "dispatch" /\ mind.hosts = <<>> /\ ~ DeployDue
  /\ Turns("sleep")
  /\ UNCHANGED <<flown, mainTip, production, failures, admitted, latch, unproven, stops>>

\* The canonical deployment: of main as it is when it starts.
StartDeploy ==
  /\ mind.at = "dispatch" /\ mind.hosts = <<>> /\ DeployDue
  /\ mind' = [mind EXCEPT !.at = "deploy", !.target = mainTip]
  /\ UNCHANGED <<flown, mainTip, production, failures, admitted, latch, unproven, stops>>

\* A failed one may have changed production; it is tried again after the window.
EndDeploy ==
  /\ mind.at = "deploy"
  /\ \/ /\ production' = mind.target
        /\ mind' = [mind EXCEPT !.at = IF unproven = <<>> THEN "sleep" ELSE "prove",
                                !.deploying = unproven # <<>>]
     \/ /\ production' \in {production, mind.target}
        /\ mind' = [mind EXCEPT !.at = "sleep", !.quiet = DeployWindow]
  /\ UNCHANGED <<flown, mainTip, failures, admitted, latch, unproven, stops>>

\* build_receipt wants production to report the very commit of the merge.
\* Fault: any commit will do.
AnyCommit(n)    == TRUE
ProvesItself(n) == production = flown[n].merge

\* _complete_pending_releases, one release at a time; other evidence may be missing.
\* The dispatcher may stop between complete_recovery and the file (`stops').
Prove ==
  /\ mind.at = "prove"
  /\ \/ /\ ProvesItself(Head(unproven)) /\ latch' = FALSE /\ unproven' = Tail(unproven)
        /\ mind' = [mind EXCEPT !.at = IF Len(unproven) = 1 THEN "sleep" ELSE "prove",
                                !.deploying = Len(unproven) > 1]
     \/ /\ mind' = [mind EXCEPT !.at = "sleep", !.quiet = DeployWindow]
        /\ UNCHANGED <<latch, unproven>>
  /\ UNCHANGED <<flown, mainTip, production, failures, admitted, stops>>

-----------------------------------------------------------------------------
\* The runs, the clock, and the stops of the dispatcher.

Ends(n, exit) ==
  /\ flown[n].exit = "live"
  /\ mainTip' = IF exit = "merged" THEN mainTip + 1 ELSE mainTip
  /\ flown' = [flown EXCEPT ![n].exit = exit, ![n].merge = IF exit = "merged" THEN mainTip + 1 ELSE 0]
  /\ UNCHANGED <<production, failures, admitted, latch, unproven, mind, stops>>

Less(x) == IF x > 0 THEN x - 1 ELSE 0

\* A cycle waits while it sleeps, dispatches (loader and probes have timeouts), deploys
\* and proves; reaping takes no time that matters.
DispatcherTick ==
  /\ mind.at # "reap"
  /\ admitted' = [key \in DOMAIN admitted |-> [admitted[key] EXCEPT !.left = Less(@)]]
  /\ mind' = [mind EXCEPT !.quiet = Less(@), !.cooldown = [t \in FleetTickets |-> Less(@[t])]]
  /\ admitted' # admitted \/ mind' # mind
  /\ UNCHANGED <<flown, mainTip, production, failures, latch, unproven, stops>>

\* Stopped and started again, anywhere: with a reservation made and nothing launched,
\* or with recovery completed and its release still in the file.
StopDispatcher ==
  /\ stops < StopBound /\ stops' = stops + 1
  /\ mind' = Started(unproven # <<>>)
  /\ \/ UNCHANGED <<admitted, latch>>
     \/ /\ mind.at = "dispatch" /\ mind.hosts # <<>> /\ ~ HostSkipped /\ ~ Serial
        /\ \E v \in Versions : LET scope == <<Ticket, Host, v>> IN
             Admits(scope, LaunchBound + 1) /\ admitted' = Rows(scope, LaunchBound + 1)
        /\ UNCHANGED latch
     \/ mind.at = "prove" /\ ProvesItself(Head(unproven)) /\ latch' = FALSE /\ UNCHANGED admitted
  /\ UNCHANGED <<flown, mainTip, production, failures, unproven>>

-----------------------------------------------------------------------------
DispatcherInit ==
  /\ flown = [n \in Launchings |-> NotFlown]
  /\ mainTip = 0 /\ production = 0
  /\ failures = [f \in Scopes \X Kinds |-> 0]
  /\ admitted = [key \in Scopes \cup {RecoveryKey} |-> NotReserved]
  /\ latch = FALSE /\ unproven = <<>>
  /\ mind = Started(FALSE) /\ stops = 0

CycleSteps == \/ Wake \/ \E h \in FleetHosts : Reap(h)
              \/ Choose \/ SkipHost \/ Refuse \/ Launch \/ LaunchFails
              \/ EndCycle \/ StartDeploy \/ EndDeploy \/ Prove

Exits == Classes \cup {"merged"}

DispatcherNext == \/ CycleSteps \/ DispatcherTick \/ StopDispatcher
                  \/ \E n \in Launchings, exit \in Exits : Ends(n, exit)

\* The loop goes on, and runs end: agents and gates run under timeouts.
DispatcherFairness ==
  /\ WF_dispatcherVars(CycleSteps) /\ WF_dispatcherVars(DispatcherTick)
  /\ WF_dispatcherVars(\E n \in Launchings, exit \in Exits : Ends(n, exit))

DispatcherSpec == DispatcherInit /\ [][DispatcherNext]_dispatcherVars /\ DispatcherFairness
-----------------------------------------------------------------------------
\* Properties.

\* No host and no ticket has two runs at once, whatever the dispatcher has forgotten.
OneRunEach ==
  \A n, m \in FlyingRuns : n # m => TicketIn(n) # TicketIn(m) /\ HostIn(n) # HostIn(m)

\* A failure that was recorded keeps its scope closed, so none of one class is recorded
\* twice: with the default threshold of 3 the dispatcher never enters recovery.  (The
\* error_class filter, which no ticket of this queue carries, is left out, and a failure
\* of a run the dispatcher has forgotten is not recorded.)
FailsOnce == \A f \in DOMAIN failures : failures[f] <= 1

\* Recovery ends with a proof: production runs the commit of a merge that waited for it.
RecoveryProven ==
  [][latch /\ ~ latch' =>
       \E i \in DOMAIN unproven : production = flown[unproven[i]].merge]_dispatcherVars

\* Not so (frota.md:271, "in recovery there is at most one delivery in flight in the
\* whole fleet"): nobody extends the slot of a run whose dispatcher has stopped.
OneRecovery == \A n, m \in FlyingRuns : flown[n].recovery /\ flown[m].recovery => n = m

\* Not so: fleet_dispatcher.py:3, "keeps grokbox, Notebook and Desktop busy: each cycle
\* it ... chooses executable planned tickets and dispatches ONE to each free host".  A
\* ticket whose breaker is open goes back to the head of the queue: no other is tried.
TicketsMove ==
  \A t \in FleetTickets : t \in mind.queue ~> (\E n \in Launchings : flown[n].scope # <<>> /\ TicketIn(n) = t)
=============================================================================
