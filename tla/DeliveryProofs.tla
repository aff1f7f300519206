--------------------------- MODULE DeliveryProofs ----------------------------
(***************************************************************************)
(* Proofs about the fleet dispatcher (FleetDispatcher) and the blue-green  *)
(* deployment of the hub (BlueGreen), which do not meet.                   *)
(*                                                                         *)
(* The dispatcher: no host and no ticket has two runs at once, although it *)
(* forgets its runs when it stops; no failure is recorded twice; and       *)
(* recovery ends only with a proof.                                        *)
(*                                                                         *)
(* The hub stays lit, for any commits, number of deployments and compose   *)
(* runs outstanding.  Compose runs happen late and on the file stored      *)
(* then, so the invariant is about files: each file that a compose run may *)
(* meet *keeps* a healthy container, which no run of it touches, and the   *)
(* file stored next keeps the same one.  That container is the one the     *)
(* marker names or the legacy one: an *anchor*.                            *)
(***************************************************************************)
EXTENDS FleetDispatcher, BlueGreen, FiniteSetTheorems, WellFoundedInduction, TLAPS

-----------------------------------------------------------------------------
\* The dispatcher.

RunRows == [scope : Scopes \cup {<<>>}, recovery : BOOLEAN,
            exit : Exits \cup {"none", "live"}, merge : Nat]

Minds == [at : {"sleep", "reap", "dispatch", "deploy", "prove"},
          flights : [FleetHosts -> Launchings \cup {0}],
          cooldown : [FleetTickets -> Nat],
          deploying : BOOLEAN, quiet : Nat, target : Nat,
          queue : SUBSET FleetTickets, hosts : Seq(FleetHosts),
          orphans : SUBSET FleetHosts, launched : BOOLEAN]

DispatcherTyped ==
  /\ flown \in [Launchings -> RunRows]
  /\ mainTip \in Nat
  /\ failures \in [Scopes \X Kinds -> Nat]
  /\ latch \in BOOLEAN
  /\ unproven \in Seq(Launchings)
  /\ mind \in Minds

\* Runs are numbered in the order of their launch.
Numbered ==
  \E k \in 0 .. LaunchBound : \A n \in Launchings : flown[n].exit # "none" <=> n <= k

RunsScoped == \A n \in Launchings : flown[n].exit # "none" => flown[n].scope \in Scopes

\* What the dispatcher remembers of a run is right, and its scope has not failed.
FlightsSound ==
  \A h \in FleetHosts : mind.flights[h] # 0 =>
    /\ flown[mind.flights[h]].exit # "none"
    /\ HostIn(mind.flights[h]) = h
    /\ \A k \in Kinds : failures[<<flown[mind.flights[h]].scope, k>>] = 0

\* While the hosts are served, no live run is on a host or a ticket that may be given out.
DispatchSound ==
  mind.at = "dispatch" => \A n \in FlyingRuns :
    /\ TicketIn(n) \notin mind.queue
    /\ HostIn(n) \in mind.orphans \/ mind.flights[HostIn(n)] # 0

ProofsPending == mind.at = "prove" => unproven # <<>>

DispatcherInv ==
  /\ DispatcherTyped /\ Numbered /\ RunsScoped /\ FlightsSound /\ DispatchSound
  /\ ProofsPending /\ OneRunEach /\ FailsOnce

-----------------------------------------------------------------------------
\* The head of a queue that is not empty is in it.
LEMMA TicketQueued ==
  ASSUME mind.queue \subseteq FleetTickets, mind.queue # {}
  PROVE  Ticket \in mind.queue
<1> DEFINE ranks == {Rank(t) : t \in mind.queue}
<1>1. ASSUME NEW t \in FleetTickets PROVE Rank(t) \in Nat
  <2>1. \E i \in DOMAIN TicketOrder : TicketOrder[i] = t
    BY DEF FleetTickets
  <2>2. DOMAIN TicketOrder \subseteq Nat
    BY DispatcherAssumption
  <2> QED
    BY <2>1, <2>2 DEF Rank
<1>2. ranks \subseteq Nat /\ ranks # {}
  BY <1>1
<1> HIDE DEF ranks
<1>3. \E x \in ranks : \A y \in ranks : ~ (<<y, x>> \in OpToRel(<, Nat))
  BY <1>2, NatLessThanWellFounded, WFMin
<1>4. \E x \in ranks : \A y \in ranks : x <= y
  <2>1. PICK x \in ranks : \A y \in ranks : ~ (<<y, x>> \in OpToRel(<, Nat))
    BY <1>3
  <2>2. ASSUME NEW y \in ranks PROVE x <= y
    <3>1. x \in Nat /\ y \in Nat
      BY <1>2
    <3>2. ~ (y < x)
      BY <2>1, <3>1 DEF OpToRel
    <3> QED
      BY <3>1, <3>2
  <2> QED
    BY <2>2
<1>5. \E t \in mind.queue : \A u \in mind.queue : Rank(t) <= Rank(u)
  BY <1>4 DEF ranks
<1> QED
  BY <1>5 DEF Ticket

\* The next launching is the first that has no run.
LEMMA NextIsFresh ==
  ASSUME DispatcherTyped, Numbered, NextLaunching \in Launchings
  PROVE  /\ flown[NextLaunching].exit = "none"
         /\ \A n \in Launchings : flown[n].exit # "none" <=> n < NextLaunching
<1>1. PICK k \in 0 .. LaunchBound : \A n \in Launchings : flown[n].exit # "none" <=> n <= k
  BY DEF Numbered
<1>2. LaunchBound \in Nat
  BY DispatcherAssumption
<1>3. {n \in Launchings : flown[n].exit # "none"} = 1 .. k
  BY <1>1, <1>2 DEF Launchings
<1>4. Cardinality(1 .. k) = k
  BY <1>1, <1>2, FS_Interval
<1>5. NextLaunching = k + 1
  BY <1>1, <1>2, <1>3, <1>4 DEF NextLaunching
<1> QED
  BY <1>1, <1>2, <1>5 DEF Launchings

\* Recording a failure that was not open.
LEMMA FailureRecorded ==
  ASSUME DispatcherTyped, FailsOnce,
         NEW scope \in Scopes, NEW k \in Kinds, RecordFailure(scope, k),
         \A i \in Kinds : failures[<<scope, i>>] = 0
  PROVE  /\ failures' \in [Scopes \X Kinds -> Nat] /\ latch' \in BOOLEAN
         /\ FailsOnce'
         /\ \A s \in Scopes, i \in Kinds : s # scope => failures'[<<s, i>>] = failures[<<s, i>>]
         /\ latch => latch'
<1>1. /\ failures \in [Scopes \X Kinds -> Nat] /\ latch \in BOOLEAN
      /\ failures' = [failures EXCEPT ![<<scope, k>>] = failures[<<scope, k>>] + 1]
      /\ failures[<<scope, k>>] = 0
      /\ <<scope, k>> \in Scopes \X Kinds
  BY DEF DispatcherTyped, RecordFailure
<1>2. \A f \in Scopes \X Kinds : failures'[f] = IF f = <<scope, k>> THEN 1 ELSE failures[f]
  BY <1>1
<1>3. failures' \in [Scopes \X Kinds -> Nat]
  BY <1>1
<1>4. FailsOnce'
  BY <1>1, <1>2, <1>3 DEF FailsOnce
<1>5. latch' \in BOOLEAN /\ (latch => latch')
  BY <1>1 DEF RecordFailure
<1> QED
  BY <1>2, <1>3, <1>4, <1>5

\* Ticket and host of a launched run.
LEMMA LaunchedScope ==
  ASSUME DispatcherTyped, RunsScoped, NEW n \in Launchings, flown[n].exit # "none"
  PROVE  /\ TicketIn(n) \in FleetTickets /\ HostIn(n) \in FleetHosts
         /\ flown[n].scope \in Scopes
BY DEF RunsScoped, Scopes, TicketIn, HostIn

-----------------------------------------------------------------------------
\* Steps that neither launch nor end a run, touch no failure, and only go on in the
\* cycle, with the queue and the orphans as they are.
Passes ==
  /\ UNCHANGED <<flown, mainTip, failures, latch, unproven>>
  /\ mind' \in Minds /\ mind'.flights = mind.flights
  /\ mind'.at = "dispatch" => /\ mind.at = "dispatch"
                              /\ mind'.queue = mind.queue /\ mind'.orphans = mind.orphans
  /\ mind'.at = "prove" => mind.at = "prove" \/ unproven # <<>>

\* Such a step keeps the invariant.
LEMMA PassesPreserves ==
  ASSUME DispatcherInv, Passes
  PROVE  DispatcherInv'
<1>1. DispatcherTyped'
  BY DEF DispatcherInv, DispatcherTyped, Passes
<1>2. Numbered' /\ RunsScoped' /\ OneRunEach' /\ FailsOnce'
  BY DEF DispatcherInv, Passes, Numbered, RunsScoped, OneRunEach, FailsOnce,
         FlyingRuns, TicketIn, HostIn, Launchings
<1>3. FlightsSound' /\ DispatchSound' /\ ProofsPending'
  BY DEF DispatcherInv, Passes, FlightsSound, DispatchSound, ProofsPending,
         FlyingRuns, TicketIn, HostIn, Launchings
<1> QED
  BY <1>1, <1>2, <1>3 DEF DispatcherInv

\* Waking, skipping and refusing a host, ending a cycle, deploying and time are such steps.
LEMMA CyclePasses ==
  ASSUME DispatcherInv,
         Wake \/ SkipHost \/ Refuse \/ EndCycle \/ StartDeploy \/ EndDeploy \/ DispatcherTick
  PROVE  Passes
<1>1. mind \in Minds /\ mainTip \in Nat /\ DeployWindow \in Nat
  BY DispatcherAssumption DEF DispatcherInv, DispatcherTyped
<1>2. CASE Wake
  BY <1>1, <1>2 DEF Wake, Turns, Passes, Minds
<1>3. CASE SkipHost \/ Refuse
  <2>1. /\ UNCHANGED <<flown, mainTip, failures, latch, unproven>>
        /\ mind' = [mind EXCEPT !.hosts = Tail(@)]
        /\ mind.hosts # <<>>
    BY <1>3 DEF SkipHost, Refuse, PassHost
  <2>2. Tail(mind.hosts) \in Seq(FleetHosts)
    BY <1>1, <2>1 DEF Minds
  <2> QED
    BY <1>1, <2>1, <2>2 DEF Passes, Minds
<1>4. CASE EndCycle
  BY <1>1, <1>4 DEF EndCycle, Turns, Passes, Minds
<1>5. CASE StartDeploy
  BY <1>1, <1>5 DEF StartDeploy, Passes, Minds
<1>6. CASE EndDeploy
  <2>1. UNCHANGED <<flown, mainTip, failures, latch, unproven>>
    BY <1>6 DEF EndDeploy
  <2>2. CASE mind' = [mind EXCEPT !.at = IF unproven = <<>> THEN "sleep" ELSE "prove",
                                  !.deploying = unproven # <<>>]
    <3>1. CASE unproven = <<>>
      BY <1>1, <2>1, <2>2, <3>1 DEF Passes, Minds
    <3>2. CASE unproven # <<>>
      BY <1>1, <2>1, <2>2, <3>2 DEF Passes, Minds
    <3> QED
      BY <3>1, <3>2
  <2>3. CASE mind' = [mind EXCEPT !.at = "sleep", !.quiet = DeployWindow]
    BY <1>1, <2>1, <2>3 DEF Passes, Minds
  <2> QED
    BY <1>6, <2>2, <2>3 DEF EndDeploy
<1>7. CASE DispatcherTick
  <2>1. /\ UNCHANGED <<flown, mainTip, failures, latch, unproven>>
        /\ mind' = [mind EXCEPT !.quiet = Less(@), !.cooldown = [t \in FleetTickets |-> Less(@[t])]]
    BY <1>7 DEF DispatcherTick
  <2>2. \A x \in Nat : Less(x) \in Nat
    BY DEF Less
  <2>3. [t \in FleetTickets |-> Less(mind.cooldown[t])] \in [FleetTickets -> Nat] /\ Less(mind.quiet) \in Nat
    BY <1>1, <2>2 DEF Minds
  <2> QED
    BY <1>1, <2>1, <2>3 DEF Passes, Minds
<1> QED
  BY <1>2, <1>3, <1>4, <1>5, <1>6, <1>7

\* A flight is a run that was launched on that host.
LEMMA FlightOn ==
  ASSUME DispatcherInv, NEW h \in FleetHosts, mind.flights[h] # 0
  PROVE  /\ mind.flights[h] \in Launchings
         /\ flown[mind.flights[h]].scope \in Scopes
         /\ HostIn(mind.flights[h]) = h
         /\ \A k \in Kinds : failures[<<flown[mind.flights[h]].scope, k>>] = 0
<1>1. mind.flights[h] \in Launchings
  BY DEF DispatcherInv, DispatcherTyped, Minds
<1> QED
  BY <1>1 DEF DispatcherInv, FlightsSound, RunsScoped

\* select_tickets leaves out the tickets of live runs, and their hosts are orphans.
LEMMA ChoosePreserves ==
  ASSUME DispatcherInv, Choose
  PROVE  DispatcherInv'
<1> DEFINE busy  == {TicketIn(n) : n \in LiveRuns}
           queue == {t \in FleetTickets : t \notin busy /\ mind.cooldown[t] = 0 /\ ~ Delivered(t)}
           orphans == {HostIn(n) : n \in LiveRuns}
<1>1. /\ UNCHANGED <<flown, mainTip, failures, latch, unproven>>
      /\ mind' = [mind EXCEPT !.at = "dispatch", !.launched = FALSE, !.hosts = HostOrder,
                              !.orphans = orphans, !.queue = queue]
  BY DEF Choose
<1>2. orphans \subseteq FleetHosts /\ queue \subseteq FleetTickets /\ HostOrder \in Seq(FleetHosts)
  <2>1. ASSUME NEW n \in LiveRuns PROVE HostIn(n) \in FleetHosts
    BY LaunchedScope DEF DispatcherInv, LiveRuns, FlyingRuns
  <2> QED
    BY <2>1, DispatcherAssumption
<1>3. \A n \in FlyingRuns : TicketIn(n) \notin queue /\ HostIn(n) \in orphans
  BY DEF LiveRuns
<1> HIDE DEF orphans, queue
<1>4. /\ mind \in Minds /\ mind' \in Minds /\ mind'.flights = mind.flights
      /\ mind'.queue = queue /\ mind'.orphans = orphans /\ mind'.at = "dispatch"
  BY <1>1, <1>2 DEF DispatcherInv, DispatcherTyped, Minds
<1>5. DispatcherTyped' /\ FlightsSound' /\ ProofsPending'
  BY <1>1, <1>4 DEF DispatcherInv, DispatcherTyped, FlightsSound, ProofsPending, HostIn
<1>6. Numbered' /\ RunsScoped' /\ OneRunEach' /\ FailsOnce'
  BY <1>1 DEF DispatcherInv, Numbered, RunsScoped, OneRunEach, FailsOnce,
              FlyingRuns, TicketIn, HostIn, Launchings
<1>7. DispatchSound'
  BY <1>1, <1>3, <1>4 DEF DispatchSound, FlyingRuns, TicketIn, HostIn, Launchings
<1> QED
  BY <1>5, <1>6, <1>7 DEF DispatcherInv

\* Flights that are forgotten, and others whose scope keeps its failures.
LEMMA FlightsKept ==
  ASSUME DispatcherInv, NEW h \in FleetHosts, flown' = flown,
         mind'.flights = [mind.flights EXCEPT ![h] = 0],
         \A s \in Scopes, k \in Kinds : s[2] # h => failures'[<<s, k>>] = failures[<<s, k>>]
  PROVE  FlightsSound'
<1> SUFFICES ASSUME NEW g \in FleetHosts, mind'.flights[g] # 0
             PROVE  /\ flown[mind'.flights[g]].exit # "none"
                    /\ HostIn(mind'.flights[g]) = g
                    /\ \A k \in Kinds : failures'[<<flown[mind'.flights[g]].scope, k>>] = 0
  BY DEF FlightsSound, HostIn
<1>1. g # h /\ mind'.flights[g] = mind.flights[g]
  BY DEF DispatcherInv, DispatcherTyped, Minds
<1>2. /\ flown[mind.flights[g]].scope \in Scopes /\ flown[mind.flights[g]].scope[2] = g
      /\ \A k \in Kinds : failures[<<flown[mind.flights[g]].scope, k>>] = 0
  BY <1>1, FlightOn DEF HostIn
<1>3. flown[mind.flights[g]].exit # "none" /\ HostIn(mind.flights[g]) = g
  BY <1>1 DEF DispatcherInv, FlightsSound
<1> QED
  BY <1>1, <1>2, <1>3

\* _reap forgets a flight; its failure is the first of its scope.
LEMMA ReapPreserves ==
  ASSUME DispatcherInv, NEW h \in FleetHosts, Reap(h)
  PROVE  DispatcherInv' /\ (latch => latch')
<1> DEFINE n == mind.flights[h]
<1>1. /\ mind.at = "reap" /\ n # 0 /\ UNCHANGED <<flown, mainTip>> /\ mind \in Minds
      /\ ReapMerge(h) \/ ReapFailure(h)
  BY DEF Reap, DispatcherInv, DispatcherTyped
<1>2. /\ n \in Launchings /\ flown[n].scope \in Scopes /\ HostIn(n) = h
      /\ TicketIn(n) \in FleetTickets
      /\ \A k \in Kinds : failures[<<flown[n].scope, k>>] = 0
  BY <1>1, FlightOn DEF TicketIn, Scopes
<1> HIDE DEF n
<1>3. /\ mind' \in Minds /\ mind'.at = "reap"
      /\ mind'.flights = [mind.flights EXCEPT ![h] = 0]
  <2>1. CASE ReapMerge(h)
    <3>1. mind' = [mind EXCEPT !.flights[h] = 0, !.deploying = TRUE, !.quiet = DeployWindow]
      BY <2>1 DEF ReapMerge
    <3>2. DeployWindow \in Nat
      BY DispatcherAssumption
    <3> QED
      BY <1>1, <3>1, <3>2 DEF Minds
  <2>2. CASE ReapFailure(h)
    <3>1. mind' = [mind EXCEPT !.flights[h] = 0, !.cooldown[TicketIn(n)] = CooldownTime]
      BY <2>2 DEF ReapFailure, n
    <3>2. CooldownTime \in Nat
      BY DispatcherAssumption
    <3> QED
      BY <1>1, <1>2, <3>1, <3>2 DEF Minds
  <2> QED
    BY <1>1, <2>1, <2>2
<1>4. /\ failures' \in [Scopes \X Kinds -> Nat] /\ latch' \in BOOLEAN /\ FailsOnce'
      /\ \A s \in Scopes, k \in Kinds : s # flown[n].scope => failures'[<<s, k>>] = failures[<<s, k>>]
      /\ latch => latch'
  <2>1. CASE ReapMerge(h)
    BY <2>1 DEF ReapMerge, DispatcherInv, DispatcherTyped, FailsOnce
  <2>2. CASE ReapFailure(h)
    <3>1. flown[n].exit \in Kinds /\ RecordFailure(flown[n].scope, flown[n].exit)
      BY <2>2 DEF ReapFailure, n
    <3> QED
      BY <1>2, <3>1, FailureRecorded DEF DispatcherInv
  <2> QED
    BY <1>1, <2>1, <2>2
<1>5. unproven' \in Seq(Launchings)
  BY <1>1, <1>2, SMTT(30) DEF ReapMerge, ReapFailure, DispatcherInv, DispatcherTyped, n
<1>6. DispatcherTyped'
  BY <1>1, <1>3, <1>4, <1>5 DEF DispatcherInv, DispatcherTyped
<1>7. FlightsSound'
  <2>1. flown[n].scope[2] = h
    BY <1>2 DEF HostIn
  <2>2. \A s \in Scopes, k \in Kinds : s[2] # h => failures'[<<s, k>>] = failures[<<s, k>>]
    BY <1>4, <2>1
  <2> QED
    BY <1>1, <1>3, <2>2, FlightsKept
<1>8. Numbered' /\ RunsScoped' /\ OneRunEach'
  BY <1>1 DEF DispatcherInv, Numbered, RunsScoped, OneRunEach, FlyingRuns, TicketIn, HostIn, Launchings
<1>9. DispatchSound' /\ ProofsPending'
  BY <1>3 DEF DispatchSound, ProofsPending
<1> QED
  BY <1>4, <1>6, <1>7, <1>8, <1>9 DEF DispatcherInv

-----------------------------------------------------------------------------
\* The head of the queue and the next host, where no check has stopped them.
LEMMA OfferSound ==
  ASSUME DispatcherInv, mind.hosts # <<>>, ~ HostSkipped
  PROVE  /\ Host \in FleetHosts /\ Ticket \in FleetTickets /\ Ticket \in mind.queue
         /\ mind.flights[Host] = 0 /\ Host \notin mind.orphans
         /\ Tail(mind.hosts) \in Seq(FleetHosts)
<1>1. mind.hosts \in Seq(FleetHosts) /\ mind.queue \subseteq FleetTickets
  BY DEF DispatcherInv, DispatcherTyped, Minds
<1>2. Head(mind.hosts) \in FleetHosts /\ Tail(mind.hosts) \in Seq(FleetHosts)
  BY <1>1
<1>3. Ticket \in mind.queue
  BY <1>1, TicketQueued DEF HostSkipped
<1> QED
  BY <1>1, <1>2, <1>3 DEF Host, HostSkipped

\* A breaker that is not open has counted nothing.
LEMMA NotOpen ==
  ASSUME DispatcherInv, NEW scope \in Scopes, ~ FailureOpen(scope)
  PROVE  \A k \in Kinds : failures[<<scope, k>>] = 0
<1>1. ASSUME NEW k \in Kinds PROVE failures[<<scope, k>>] \in Nat /\ ~ (failures[<<scope, k>>] > 0)
  BY DEF DispatcherInv, DispatcherTyped, FailureOpen
<1> QED
  BY <1>1

\* A failed launch is the first failure of its scope, and no flight has that scope.
LEMMA LaunchFailsPreserves ==
  ASSUME DispatcherInv, LaunchFails
  PROVE  DispatcherInv' /\ (latch => latch')
<1>1. /\ Host \in FleetHosts /\ Ticket \in FleetTickets /\ mind.flights[Host] = 0
      /\ Tail(mind.hosts) \in Seq(FleetHosts) /\ CooldownTime \in Nat /\ mind \in Minds
  BY OfferSound, DispatcherAssumption DEF LaunchFails, DispatcherInv, DispatcherTyped
<1>2. PICK v \in Versions : ~ FailureOpen(<<Ticket, Host, v>>) /\ RecordFailure(<<Ticket, Host, v>>, "launch")
  BY DEF LaunchFails, Admits
<1> DEFINE scope == <<Ticket, Host, v>>
<1>3. scope \in Scopes /\ scope[2] = Host /\ "launch" \in Kinds
  BY <1>1 DEF Scopes, Kinds
<1>4. UNCHANGED <<flown, mainTip, unproven>> /\ mind.at = "dispatch"
      /\ mind' = [mind EXCEPT !.hosts = Tail(@), !.queue = @ \ {Ticket}, !.cooldown[Ticket] = CooldownTime]
  BY DEF LaunchFails
<1>5. /\ mind' \in Minds /\ mind'.at = "dispatch" /\ mind'.flights = mind.flights
      /\ mind'.queue \subseteq mind.queue /\ mind'.orphans = mind.orphans
  BY <1>1, <1>4 DEF Minds
<1> HIDE DEF scope
<1>6. /\ failures' \in [Scopes \X Kinds -> Nat] /\ latch' \in BOOLEAN /\ FailsOnce'
      /\ \A s \in Scopes, k \in Kinds : s # scope => failures'[<<s, k>>] = failures[<<s, k>>]
      /\ latch => latch'
  <2>1. RecordFailure(scope, "launch") /\ \A k \in Kinds : failures[<<scope, k>>] = 0
    BY <1>2, <1>3, NotOpen DEF scope
  <2> QED
    BY <1>3, <2>1, FailureRecorded DEF DispatcherInv
<1>7. DispatcherTyped'
  BY <1>4, <1>5, <1>6 DEF DispatcherInv, DispatcherTyped
<1>8. FlightsSound'
  <2>1. mind'.flights = [mind.flights EXCEPT ![Host] = 0]
    BY <1>1, <1>5 DEF Minds
  <2>2. \A s \in Scopes, k \in Kinds : s[2] # Host => failures'[<<s, k>>] = failures[<<s, k>>]
    BY <1>3, <1>6
  <2> QED
    BY <1>1, <1>4, <2>1, <2>2, FlightsKept
<1>9. Numbered' /\ RunsScoped' /\ OneRunEach'
  BY <1>4 DEF DispatcherInv, Numbered, RunsScoped, OneRunEach, FlyingRuns, TicketIn, HostIn, Launchings
<1>10. DispatchSound' /\ ProofsPending'
  BY <1>4, <1>5 DEF DispatcherInv, DispatchSound, ProofsPending, FlyingRuns, TicketIn, HostIn, Launchings
<1> QED
  BY <1>6, <1>7, <1>8, <1>9, <1>10 DEF DispatcherInv

\* A launch takes a ticket out of the queue and a host that has no live run.
LEMMA LaunchPreserves ==
  ASSUME DispatcherInv, Launch
  PROVE  DispatcherInv' /\ latch' = latch
<1> DEFINE n == NextLaunching
<1>1. /\ Host \in FleetHosts /\ Ticket \in FleetTickets /\ Ticket \in mind.queue
      /\ mind.flights[Host] = 0 /\ Host \notin mind.orphans
      /\ Tail(mind.hosts) \in Seq(FleetHosts) /\ mind \in Minds /\ mind.at = "dispatch"
  BY OfferSound DEF Launch, DispatcherInv, DispatcherTyped
<1>2. PICK v \in Versions :
        /\ ~ FailureOpen(<<Ticket, Host, v>>)
        /\ flown' = [flown EXCEPT ![n] = [scope |-> <<Ticket, Host, v>>, recovery |-> latch,
                                          exit |-> "live", merge |-> 0]]
        /\ mind' = [mind EXCEPT !.hosts = Tail(@), !.queue = @ \ {Ticket}, !.launched = TRUE,
                                !.flights[Host] = n]
  BY DEF Launch, Admits
<1>3. UNCHANGED <<mainTip, failures, latch, unproven>> /\ n \in Launchings
  BY DEF Launch
<1>4. n \in Nat \ {0} /\ LaunchBound \in Nat
  BY <1>3, DispatcherAssumption DEF Launchings
<1>5. flown[n].exit = "none" /\ \A m \in Launchings : flown[m].exit # "none" <=> m < n
  BY <1>3, NextIsFresh DEF DispatcherInv
<1> DEFINE scope == <<Ticket, Host, v>>
           row == [scope |-> scope, recovery |-> latch, exit |-> "live", merge |-> 0]
<1>6. scope \in Scopes /\ scope[1] = Ticket /\ scope[2] = Host
  BY <1>1 DEF Scopes
<1>7. \A k \in Kinds : failures[<<scope, k>>] = 0
  BY <1>2, <1>6, NotOpen
<1> HIDE DEF scope, n
<1>8. row \in RunRows /\ row.scope = scope /\ row.exit = "live"
  BY <1>6 DEF DispatcherInv, DispatcherTyped, RunRows
<1> HIDE DEF row
<1>9. /\ flown' \in [Launchings -> RunRows] /\ flown'[n] = row
      /\ \A m \in Launchings : m # n => flown'[m] = flown[m]
  BY <1>2, <1>3, <1>8 DEF DispatcherInv, DispatcherTyped, scope, row
<1>10. /\ mind' \in Minds /\ mind'.flights = [mind.flights EXCEPT ![Host] = n]
       /\ mind'.queue = mind.queue \ {Ticket} /\ mind'.orphans = mind.orphans
       /\ mind'.at = "dispatch"
  BY <1>1, <1>2, <1>3 DEF Minds
<1>11. DispatcherTyped' /\ FailsOnce' /\ ProofsPending'
  BY <1>3, <1>9, <1>10 DEF DispatcherInv, DispatcherTyped, FailsOnce, ProofsPending
<1>12. Numbered'
  <2>1. \A m \in Launchings : flown'[m].exit # "none" <=> m <= n
    BY <1>4, <1>5, <1>8, <1>9 DEF Launchings
  <2>2. n \in 0 .. LaunchBound
    BY <1>3, <1>4 DEF Launchings
  <2> QED
    BY <2>1, <2>2 DEF Numbered, Launchings
<1>13. RunsScoped'
  BY <1>6, <1>8, <1>9 DEF DispatcherInv, RunsScoped, Launchings, Scopes
<1>14. FlightsSound'
  <2> SUFFICES ASSUME NEW g \in FleetHosts, mind'.flights[g] # 0
               PROVE  /\ flown'[mind'.flights[g]].exit # "none"
                      /\ flown'[mind'.flights[g]].scope[2] = g
                      /\ \A k \in Kinds : failures[<<flown'[mind'.flights[g]].scope, k>>] = 0
    BY <1>3 DEF FlightsSound, HostIn
  <2>1. CASE g = Host
    <3>1. mind'.flights[g] = n
      BY <1>1, <1>10, <2>1 DEF Minds
    <3> QED
      BY <1>6, <1>7, <1>8, <1>9, <2>1, <3>1
  <2>2. CASE g # Host
    <3>1. mind'.flights[g] = mind.flights[g] /\ mind.flights[g] # 0
      BY <1>1, <1>10, <2>2 DEF Minds
    <3>2. /\ mind.flights[g] \in Launchings
          /\ flown[mind.flights[g]].scope[2] = g
          /\ \A k \in Kinds : failures[<<flown[mind.flights[g]].scope, k>>] = 0
          /\ flown[mind.flights[g]].exit # "none"
      BY <3>1, FlightOn DEF HostIn, DispatcherInv, FlightsSound
    <3>3. flown'[mind.flights[g]] = flown[mind.flights[g]]
      BY <1>5, <1>9, <3>2
    <3> QED
      BY <3>1, <3>2, <3>3
  <2> QED
    BY <2>1, <2>2
<1>15. /\ FlyingRuns' = FlyingRuns \cup {n}
       /\ \A m \in FlyingRuns : flown'[m] = flown[m] /\ m # n
  BY <1>3, <1>5, <1>8, <1>9 DEF FlyingRuns, Launchings
<1>16. \A m \in FlyingRuns : TicketIn(m) # Ticket /\ HostIn(m) # Host
  BY <1>1 DEF DispatcherInv, DispatchSound
<1>17. DispatchSound'
  <2> SUFFICES ASSUME NEW m \in FlyingRuns'
               PROVE  /\ flown'[m].scope[1] \notin mind'.queue
                      /\ flown'[m].scope[2] \in mind'.orphans \/ mind'.flights[flown'[m].scope[2]] # 0
    BY DEF DispatchSound, TicketIn, HostIn
  <2>1. CASE m = n
    BY <1>1, <1>4, <1>6, <1>8, <1>9, <1>10, <2>1 DEF Minds
  <2>2. CASE m \in FlyingRuns
    <3>1. /\ flown'[m].scope = flown[m].scope
          /\ flown[m].scope[1] \notin mind.queue
          /\ flown[m].scope[2] \in mind.orphans \/ mind.flights[flown[m].scope[2]] # 0
          /\ flown[m].scope[2] # Host
      BY <1>1, <1>15, <1>16, <2>2 DEF DispatcherInv, DispatchSound, TicketIn, HostIn
    <3>2. mind'.flights[flown[m].scope[2]] = mind.flights[flown[m].scope[2]]
      BY <1>1, <1>10, <3>1, <2>2, LaunchedScope DEF Minds, HostIn, DispatcherInv, FlyingRuns
    <3> QED
      BY <1>10, <3>1, <3>2
  <2> QED
    BY <1>15, <2>1, <2>2
<1>18. OneRunEach'
  <2> SUFFICES ASSUME NEW m \in FlyingRuns', NEW l \in FlyingRuns', m # l
               PROVE  flown'[m].scope[1] # flown'[l].scope[1] /\ flown'[m].scope[2] # flown'[l].scope[2]
    BY DEF OneRunEach, TicketIn, HostIn
  <2>1. CASE m \in FlyingRuns /\ l \in FlyingRuns
    BY <1>15, <2>1 DEF DispatcherInv, OneRunEach, TicketIn, HostIn
  <2>2. CASE m = n /\ l \in FlyingRuns
    BY <1>6, <1>8, <1>9, <1>15, <1>16, <2>2 DEF TicketIn, HostIn
  <2>3. CASE l = n /\ m \in FlyingRuns
    BY <1>6, <1>8, <1>9, <1>15, <1>16, <2>3 DEF TicketIn, HostIn
  <2> QED
    BY <1>15, <2>1, <2>2, <2>3
<1> QED
  BY <1>3, <1>11, <1>12, <1>13, <1>14, <1>17, <1>18 DEF DispatcherInv

-----------------------------------------------------------------------------
\* A run that ends frees its host and ticket.
LEMMA EndsPreserves ==
  ASSUME DispatcherInv, NEW n \in Launchings, NEW exit \in Exits, Ends(n, exit)
  PROVE  DispatcherInv' /\ latch' = latch
<1> DEFINE merge == IF exit = "merged" THEN mainTip + 1 ELSE 0
<1>1. /\ flown[n].exit = "live" /\ UNCHANGED <<failures, latch, unproven, mind>>
      /\ flown' = [flown EXCEPT ![n].exit = exit, ![n].merge = merge]
      /\ mainTip' \in Nat /\ merge \in Nat
  BY DEF Ends, DispatcherInv, DispatcherTyped
<1>2. exit \notin {"none", "live"}
  BY DispatcherAssumption DEF Exits
<1> HIDE DEF merge
<1>3. flown \in [Launchings -> RunRows]
  BY DEF DispatcherInv, DispatcherTyped
<1>4. flown' = [flown EXCEPT ![n] = [flown[n] EXCEPT !.exit = exit, !.merge = merge]]
  BY <1>1, <1>3
<1>5. /\ [flown[n] EXCEPT !.exit = exit, !.merge = merge] \in RunRows
      /\ [flown[n] EXCEPT !.exit = exit, !.merge = merge].exit = exit
      /\ [flown[n] EXCEPT !.exit = exit, !.merge = merge].scope = flown[n].scope
  BY <1>1, <1>3 DEF RunRows
<1>6. /\ flown' \in [Launchings -> RunRows]
      /\ \A m \in Launchings : /\ flown'[m].scope = flown[m].scope
                               /\ m # n => flown'[m].exit = flown[m].exit
      /\ flown'[n].exit = exit
  BY <1>3, <1>4, <1>5
<1>7. \A m \in Launchings : flown'[m].exit # "none" <=> flown[m].exit # "none"
  BY <1>1, <1>2, <1>6
<1>8. FlyingRuns' \subseteq FlyingRuns
  BY <1>2, <1>6 DEF FlyingRuns, Launchings
<1>9. DispatcherTyped' /\ FailsOnce' /\ ProofsPending'
  BY <1>1, <1>6 DEF DispatcherInv, DispatcherTyped, FailsOnce, ProofsPending
<1>10. Numbered' /\ RunsScoped'
  BY <1>6, <1>7, SMTT(30) DEF DispatcherInv, Numbered, RunsScoped, Launchings
<1>11. FlightsSound'
  <2>0. mind' = mind /\ failures' = failures
    BY <1>1
  <2> SUFFICES ASSUME NEW h \in FleetHosts, mind.flights[h] # 0
               PROVE  /\ flown'[mind.flights[h]].exit # "none"
                      /\ flown'[mind.flights[h]].scope[2] = h
                      /\ \A k \in Kinds : failures[<<flown'[mind.flights[h]].scope, k>>] = 0
    BY <2>0 DEF FlightsSound, HostIn
  <2>1. /\ mind.flights[h] \in Launchings /\ flown[mind.flights[h]].exit # "none"
        /\ flown[mind.flights[h]].scope[2] = h
        /\ \A k \in Kinds : failures[<<flown[mind.flights[h]].scope, k>>] = 0
    BY FlightOn DEF HostIn, DispatcherInv, FlightsSound
  <2>2. /\ flown'[mind.flights[h]].scope = flown[mind.flights[h]].scope
        /\ flown'[mind.flights[h]].exit # "none"
    BY <1>6, <1>7, <2>1
  <2> QED
    BY <2>1, <2>2
<1>12. \A m \in FlyingRuns' : flown'[m].scope = flown[m].scope /\ m \in FlyingRuns
  BY <1>6, <1>8 DEF FlyingRuns
<1>13. DispatchSound'
  BY <1>1, <1>12 DEF DispatcherInv, DispatchSound, TicketIn, HostIn
<1>14. OneRunEach'
  BY <1>12 DEF DispatcherInv, OneRunEach, TicketIn, HostIn
<1> QED
  BY <1>1, <1>9, <1>10, <1>11, <1>13, <1>14 DEF DispatcherInv

\* What is left of a sequence without its first element.
LEMMA TailLeft ==
  ASSUME NEW S, NEW s \in Seq(S), s # <<>>
  PROVE  /\ Tail(s) \in Seq(S) /\ Len(s) \in Nat
         /\ Len(s) # 1 => Tail(s) # <<>>
<1>1. Tail(s) \in Seq(S) /\ Len(Tail(s)) = Len(s) - 1 /\ Len(s) \in Nat
  OBVIOUS
<1>2. ASSUME Tail(s) = <<>> PROVE Len(Tail(s)) = 0
  <2>1. Len(<<>>) = 0
    OBVIOUS
  <2> QED  BY <1>2, <2>1, Zenon
<1> DEFINE n == Len(s)
           m == Len(Tail(s))
<1> HIDE DEF n, m
<1>3. n \in Nat /\ m = n - 1 /\ (m = 0 => n = 1)
  <2>1. n \in Nat /\ m = n - 1
    BY <1>1 DEF n, m
  <2> QED  BY <2>1
<1>4. Tail(s) = <<>> => Len(s) = 1
  BY <1>2, <1>3 DEF n, m
<1> QED  BY <1>1, <1>4

\* A proof takes one release off the list, and the next is proven only if there is one.
LEMMA ProvePreserves ==
  ASSUME DispatcherInv, Prove
  PROVE  DispatcherInv'
<1>1. /\ UNCHANGED <<flown, mainTip, failures>> /\ mind.at = "prove" /\ mind \in Minds
      /\ unproven \in Seq(Launchings) /\ unproven # <<>> /\ DeployWindow \in Nat
  BY DispatcherAssumption DEF Prove, DispatcherInv, DispatcherTyped, ProofsPending
<1>2. /\ Tail(unproven) \in Seq(Launchings) /\ Len(unproven) \in Nat
      /\ Len(unproven) # 1 => Tail(unproven) # <<>>
  BY <1>1, TailLeft
<1>3. /\ mind' \in Minds /\ mind'.flights = mind.flights /\ mind'.at \in {"sleep", "prove"}
      /\ mind'.at = "prove" => unproven' # <<>>
      /\ unproven' \in Seq(Launchings) /\ latch' \in BOOLEAN
  <2>1. CASE /\ latch' = FALSE /\ unproven' = Tail(unproven)
             /\ mind' = [mind EXCEPT !.at = IF Len(unproven) = 1 THEN "sleep" ELSE "prove",
                                     !.deploying = Len(unproven) > 1]
    <3>1. PICK where \in {"sleep", "prove"}, more \in BOOLEAN :
             /\ mind' = [mind EXCEPT !.at = where, !.deploying = more]
             /\ where = "prove" => Len(unproven) # 1
      <4>1. (IF Len(unproven) = 1 THEN "sleep" ELSE "prove") \in {"sleep", "prove"}
        OBVIOUS
      <4>2. (Len(unproven) > 1) \in BOOLEAN
        OBVIOUS
      <4>3. (IF Len(unproven) = 1 THEN "sleep" ELSE "prove") = "prove" => Len(unproven) # 1
        OBVIOUS
      <4> QED
        BY <2>1, <4>1, <4>2, <4>3, Zenon
    <3>2. mind' \in Minds /\ mind'.flights = mind.flights /\ mind'.at = where
      BY <1>1, <3>1 DEF Minds
    <3> QED
      BY <1>2, <2>1, <3>1, <3>2
  <2>2. CASE /\ mind' = [mind EXCEPT !.at = "sleep", !.quiet = DeployWindow]
             /\ UNCHANGED <<latch, unproven>>
    BY <1>1, <2>2 DEF Minds, DispatcherInv, DispatcherTyped
  <2> QED
    BY <2>1, <2>2 DEF Prove
<1>4. DispatcherTyped' /\ ProofsPending' /\ DispatchSound'
  BY <1>1, <1>3 DEF DispatcherInv, DispatcherTyped, ProofsPending, DispatchSound
<1>5. Numbered' /\ RunsScoped' /\ OneRunEach' /\ FailsOnce' /\ FlightsSound'
  BY <1>1, <1>3 DEF DispatcherInv, Numbered, RunsScoped, OneRunEach, FailsOnce, FlightsSound,
                    FlyingRuns, TicketIn, HostIn, Launchings
<1> QED
  BY <1>4, <1>5 DEF DispatcherInv

\* A dispatcher that starts remembers no flight.
LEMMA FreshMind ==
  ASSUME NEW pending \in BOOLEAN
  PROVE  /\ Started(pending) \in Minds /\ Started(pending).at = "sleep"
         /\ \A h \in FleetHosts : Started(pending).flights[h] = 0
<1>1. <<>> \in Seq(FleetHosts)
  OBVIOUS
<1> QED
  BY <1>1 DEF Started, Minds

\* A stop loses the memory and keeps the store and the runs.
LEMMA StopPreserves ==
  ASSUME DispatcherInv, StopDispatcher
  PROVE  DispatcherInv'
<1>1. /\ UNCHANGED <<flown, mainTip, failures, unproven>>
      /\ mind' = Started(unproven # <<>>) /\ latch' \in BOOLEAN
  BY DEF StopDispatcher, DispatcherInv, DispatcherTyped
<1>2. /\ mind' \in Minds /\ mind'.at = "sleep" /\ \A h \in FleetHosts : mind'.flights[h] = 0
  BY <1>1, FreshMind
<1>3. DispatcherTyped' /\ ProofsPending' /\ DispatchSound' /\ FlightsSound'
  BY <1>1, <1>2 DEF DispatcherInv, DispatcherTyped, ProofsPending, DispatchSound, FlightsSound
<1>4. Numbered' /\ RunsScoped' /\ OneRunEach' /\ FailsOnce'
  BY <1>1 DEF DispatcherInv, Numbered, RunsScoped, OneRunEach, FailsOnce,
              FlyingRuns, TicketIn, HostIn, Launchings
<1> QED
  BY <1>3, <1>4 DEF DispatcherInv

\* Nothing is launched, recorded or remembered at first.
LEMMA DispatcherStart ==
  ASSUME DispatcherInit
  PROVE  DispatcherInv
<1>1. /\ \A n \in Launchings : flown[n] = NotFlown
      /\ mainTip = 0 /\ latch = FALSE /\ unproven = <<>> /\ mind = Started(FALSE)
      /\ failures = [f \in Scopes \X Kinds |-> 0]
  BY DEF DispatcherInit
<1>2. NotFlown \in RunRows /\ NotFlown.exit = "none"
  BY DEF NotFlown, RunRows
<1>3. mind \in Minds /\ mind.at = "sleep" /\ \A h \in FleetHosts : mind.flights[h] = 0
  BY <1>1, FreshMind
<1>4. DispatcherTyped
  <2>1. flown \in [Launchings -> RunRows]
    BY <1>2 DEF DispatcherInit
  <2>2. unproven \in Seq(Launchings) /\ failures \in [Scopes \X Kinds -> Nat]
    BY <1>1
  <2> QED
    BY <1>1, <1>3, <2>1, <2>2 DEF DispatcherTyped
<1>5. Numbered
  <2>1. 0 \in 0 .. LaunchBound
    BY DispatcherAssumption
  <2>2. \A n \in Launchings : flown[n].exit # "none" <=> n <= 0
    BY <1>1, <1>2 DEF Launchings
  <2> QED
    BY <2>1, <2>2 DEF Numbered
<1>6. RunsScoped /\ FlyingRuns = {}
  BY <1>1, <1>2 DEF RunsScoped, FlyingRuns
<1>7. FlightsSound /\ DispatchSound /\ ProofsPending /\ OneRunEach
  BY <1>3, <1>6 DEF FlightsSound, DispatchSound, ProofsPending, OneRunEach
<1>8. FailsOnce
  BY <1>1 DEF FailsOnce
<1> QED
  BY <1>4, <1>5, <1>6, <1>7, <1>8 DEF DispatcherInv

\* Every step keeps the invariant.
LEMMA DispatcherStep ==
  ASSUME DispatcherInv, [DispatcherNext]_dispatcherVars
  PROVE  DispatcherInv'
<1>1. CASE Wake \/ SkipHost \/ Refuse \/ EndCycle \/ StartDeploy \/ EndDeploy \/ DispatcherTick
  BY <1>1, CyclePasses, PassesPreserves
<1>2. CASE \E h \in FleetHosts : Reap(h)
  BY <1>2, ReapPreserves
<1>3. CASE Choose \/ Launch \/ LaunchFails \/ Prove
  BY <1>3, ChoosePreserves, LaunchPreserves, LaunchFailsPreserves, ProvePreserves
<1>4. CASE StopDispatcher
  BY <1>4, StopPreserves
<1>5. CASE \E n \in Launchings, exit \in Exits : Ends(n, exit)
  BY <1>5, EndsPreserves
<1>6. CASE UNCHANGED dispatcherVars
  <2>1. Passes
    BY <1>6 DEF dispatcherVars, Passes, DispatcherInv, DispatcherTyped
  <2> QED
    BY <2>1, PassesPreserves
<1> QED
  BY <1>1, <1>2, <1>3, <1>4, <1>5, <1>6 DEF DispatcherNext, CycleSteps

-----------------------------------------------------------------------------
\* What the dispatcher keeps in memory and in its store agree with the runs.
THEOREM DispatcherInvariance == DispatcherSpec => []DispatcherInv
<1>1. DispatcherInit => DispatcherInv
  BY DispatcherStart
<1>2. DispatcherInv /\ [DispatcherNext]_dispatcherVars => DispatcherInv'
  BY DispatcherStep
<1> QED
  BY <1>1, <1>2, PTL DEF DispatcherSpec

\* select_tickets and the list of orphan hosts keep two runs off one host and one
\* ticket, through any number of stops of the dispatcher.
THEOREM HostsAndTicketsSingle == DispatcherSpec => []OneRunEach
<1>1. DispatcherInv => OneRunEach
  BY DEF DispatcherInv
<1> QED
  BY <1>1, DispatcherInvariance, PTL

\* is_failure_open lets no scope fail twice.
THEOREM FailuresSingle == DispatcherSpec => []FailsOnce
<1>1. DispatcherInv => FailsOnce
  BY DEF DispatcherInv
<1> QED
  BY <1>1, DispatcherInvariance, PTL

\* complete_recovery comes only after build_receipt has found the merge in production.
THEOREM RecoveryEndsProven == DispatcherSpec => RecoveryProven
<1> DEFINE Proven == latch /\ ~ latch' =>
                       \E i \in DOMAIN unproven : production = flown[unproven[i]].merge
<1>1. DispatcherInv /\ [DispatcherNext]_dispatcherVars => [Proven]_dispatcherVars
  <2> SUFFICES ASSUME DispatcherInv, DispatcherNext PROVE Proven
    OBVIOUS
  <2>1. ASSUME mind.at = "prove", ProvesItself(Head(unproven)) PROVE Proven
    <3>1. unproven \in Seq(Launchings) /\ unproven # <<>>
      BY <2>1 DEF DispatcherInv, DispatcherTyped, ProofsPending
    <3>2. 1 \in DOMAIN unproven /\ Head(unproven) = unproven[1]
      BY <3>1
    <3> QED
      BY <2>1, <3>2 DEF ProvesItself
  <2>2. ASSUME latch => latch' PROVE Proven
    BY <2>2
  <2>3. CASE Wake \/ SkipHost \/ Refuse \/ EndCycle \/ StartDeploy \/ EndDeploy \/ DispatcherTick
    BY <2>2, <2>3, CyclePasses DEF Passes
  <2>4. CASE \E h \in FleetHosts : Reap(h)
    BY <2>2, <2>4, ReapPreserves
  <2>5. CASE Choose \/ Launch \/ LaunchFails
    BY <2>2, <2>5, LaunchPreserves, LaunchFailsPreserves DEF Choose
  <2>6. CASE Prove
    BY <2>1, <2>2, <2>6 DEF Prove
  <2>7. CASE StopDispatcher
    BY <2>1, <2>2, <2>7 DEF StopDispatcher
  <2>8. CASE \E n \in Launchings, exit \in Exits : Ends(n, exit)
    BY <2>2, <2>8, EndsPreserves
  <2> QED
    BY <2>3, <2>4, <2>5, <2>6, <2>7, <2>8 DEF DispatcherNext, CycleSteps
<1> QED
  BY <1>1, DispatcherInvariance, PTL DEF DispatcherSpec, RecoveryProven

-----------------------------------------------------------------------------
\* The deployment of the hub.

\* Service s is up and compose runs of the file leave it alone.
Keeps(s, file) ==
  /\ containers[s].health = "healthy"
  /\ \/ s \notin Names(file)
     \/ s \in file.running /\ containers[s].sha = ShaOf(file, s)

Anchored(file)       == \E s \in {file.active, "legacy"} : Keeps(s, file)
Anchors(file, other) == \E s \in {other.active, "legacy"} : Keeps(s, file) /\ Keeps(s, other)

ComposeFile == [active : Services, sha : [Colours -> Shas], running : SUBSET Services]
Container   == [sha : Shas, health : {"absent", "starting", "healthy"}]
Deployer    == [at : {"idle", "save", "ask", "poll", "gate", "public"},
                phase : {"overlap", "cutover", "restore"},
                sha : Shas, target : Colours, previous : ComposeFile, file : ComposeFile]

\* Files as the deployer writes them: the only one without a marker is the legacy file.
Written(file) == file \in ComposeFile /\ (file.active = "legacy" => file = Legacy)

BlueGreenTypes ==
  /\ Written(composeFile)
  /\ containers \in [Services -> Container]
  /\ deployer \in Deployer /\ Written(deployer.previous) /\ Written(deployer.file)
  /\ lost \in BOOLEAN

InOverlap ==
  LET old == deployer.previous  new == deployer.sha IN
  \/ /\ deployer.at = "save"
     /\ composeFile = old /\ deployer.file = Overlap(old, new) /\ Anchored(old)
  \/ /\ deployer.at \in {"ask", "poll", "gate"}
     /\ composeFile = Overlap(old, new) /\ Anchors(composeFile, old)

InCutover ==
  LET old == deployer.previous  new == deployer.sha IN
  \/ /\ deployer.at = "save"
     /\ composeFile = Overlap(old, new) /\ deployer.file = Cutover(old, new)
     /\ ColourIsServing
     /\ BareMigration \/ Anchors(composeFile, old)
  \/ /\ deployer.at \in {"ask", "poll", "public"}
     /\ composeFile = Cutover(old, new) /\ Keeps(deployer.target, composeFile)

InRestore ==
  LET old == deployer.previous  new == deployer.sha IN
  \/ /\ deployer.at = "save" /\ deployer.file = old
     /\ \/ composeFile = Cutover(old, new) /\ Anchored(composeFile)
        \/ Anchored(composeFile) /\ Anchors(composeFile, old)
  \/ /\ deployer.at \in {"ask", "poll"}
     /\ composeFile = old /\ Anchored(old)

\* Where the deployer is, what is stored and what is up.
SwitchHolds ==
  \/ deployer.at = "idle" /\ Anchored(composeFile)
  \/ /\ deployer.at # "idle" /\ deployer.target = NextColour(deployer.previous)
     /\ \/ deployer.phase = "overlap" /\ InOverlap
        \/ deployer.phase = "cutover" /\ InCutover
        \/ deployer.phase = "restore" /\ InRestore

BlueGreenInv == BlueGreenTypes /\ (lost \/ SwitchHolds)

-----------------------------------------------------------------------------
\* Files.

\* There are two colours.
LEMMA TwoColours ==
  /\ \A c \in Colours : OtherColour(c) \in Colours /\ OtherColour(c) # c
  /\ \A file \in ComposeFile : NextColour(file) \in Colours
  /\ "legacy" \notin Colours /\ Services = Colours \cup {"legacy"}
<1>1. \A c \in Colours : \E d \in Colours : d # c
  BY DEF Colours
<1>2. \A c \in Colours : OtherColour(c) \in Colours /\ OtherColour(c) # c
  BY <1>1 DEF OtherColour
<1> QED  BY <1>2 DEF NextColour, ComposeFile, Services, Colours

\* The legacy file is one the deployer may meet.
LEMMA LegacyWritten == BlueGreenAssumption => Written(Legacy)
  BY DEF BlueGreenAssumption, Written, Legacy, ComposeFile, Services

\* The overlap starts the next colour on the new commit and keeps what is anchored.
LEMMA OverlapFile ==
  ASSUME BlueGreenAssumption, NEW old, Written(old), NEW new \in Shas
  PROVE  /\ Written(Overlap(old, new)) /\ Names(Overlap(old, new)) = Colours
         /\ NextColour(old) \in Overlap(old, new).running
         /\ ShaOf(Overlap(old, new), NextColour(old)) = new
         /\ \A s \in {old.active, "legacy"} : Keeps(s, old) =>
              s \in {Overlap(old, new).active, "legacy"} /\ Keeps(s, Overlap(old, new))
<1> DEFINE file == Overlap(old, new)
<1>1. NextColour(old) \in Colours /\ NextColour(old) # "legacy" /\ NextColour(old) # old.active
  BY TwoColours DEF Written, NextColour, ComposeFile, Services
<1>2. CASE old.active = "legacy"
  <2>1. file = [active |-> "green", sha |-> [c \in Colours |-> new], running |-> {"blue"}]
    BY <1>2 DEF Overlap
  <2>2. NextColour(old) = "blue"
    BY <1>2 DEF NextColour
  <2>3. Written(file) /\ Names(file) = Colours
    BY <2>1 DEF Written, Names, ComposeFile, Services, Colours
  <2> QED  BY <2>1, <2>2, <2>3, <1>2, TwoColours DEF ShaOf, Keeps, Colours
<1>3. CASE old.active # "legacy"
  <2>1. file = [active |-> old.active, sha |-> [old.sha EXCEPT ![NextColour(old)] = new], running |-> Colours]
    BY <1>3 DEF Overlap
  <2>2. old.active \in Colours /\ old.sha \in [Colours -> Shas]
    BY <1>3 DEF Written, ComposeFile, Services
  <2>3. file.sha \in [Colours -> Shas] /\ file.sha[NextColour(old)] = new /\ file.sha[old.active] = old.sha[old.active]
    BY <1>1, <2>1, <2>2
  <2>4. Written(file) /\ Names(file) = Colours /\ file.active = old.active /\ file.running = Colours
    BY <1>3, <2>1, <2>2, <2>3 DEF Written, Names, ComposeFile, Services
  <2>5. ASSUME NEW s \in {old.active, "legacy"}, Keeps(s, old) PROVE Keeps(s, file)
    BY <2>2, <2>3, <2>4, <2>5, <1>3, TwoColours DEF Keeps, ShaOf, Names
  <2> QED  BY <1>1, <2>3, <2>4, <2>5 DEF ShaOf
<1> QED  BY <1>2, <1>3

\* The cutover leaves the next colour on the new commit, and the marker names it.
LEMMA CutoverFile ==
  ASSUME BlueGreenAssumption, NEW old, Written(old), NEW new \in Shas
  PROVE  /\ Written(Cutover(old, new)) /\ Cutover(old, new).active = NextColour(old)
         /\ NextColour(old) \in Cutover(old, new).running
         /\ ShaOf(Cutover(old, new), NextColour(old)) = new
<1> DEFINE file == Cutover(old, new)
<1>1. NextColour(old) \in Colours /\ NextColour(old) # "legacy"
  BY TwoColours DEF Written
<1>2. old.sha \in [Colours -> Shas]
  BY DEF Written, ComposeFile
<1>3. file.sha \in [Colours -> Shas] /\ file.sha[NextColour(old)] = new
  BY <1>1, <1>2 DEF Cutover
<1>4. /\ file = [active |-> file.active, sha |-> file.sha, running |-> file.running]
      /\ file.active = NextColour(old) /\ file.running = {NextColour(old)}
  BY DEF Cutover
<1>5. Written(file)
  BY <1>1, <1>3, <1>4 DEF Written, ComposeFile, Services
<1> QED  BY <1>1, <1>3, <1>4, <1>5 DEF ShaOf

-----------------------------------------------------------------------------
\* Steps of Dokploy and Docker.

\* What a compose run or a container that gets healthy does to the containers: those that
\* the stored file keeps are as they were, and those it does not name as well.
Spares == /\ \A s \in Services : Keeps(s, composeFile) => containers'[s] = containers[s]
          /\ \A s \in Services \ Names(composeFile) :
               containers[s].health # "starting" => containers'[s] = containers[s]

\* Compose runs, whole or half way, spare what the file keeps and what it does not name.
LEMMA ComposeSpares ==
  ASSUME BlueGreenAssumption, BlueGreenTypes, ComposeUp
  PROVE  containers' \in [Services -> Container] /\ Spares
<1>1. PICK S \in SUBSET Services : /\ S \subseteq Names(composeFile)
                                 /\ containers' = [s \in Services |-> IF s \in S THEN UpOne(s) ELSE containers[s]]
  <2>1. Names(composeFile) \subseteq Services
    BY TwoColours DEF Names
  <2> QED  BY <2>1 DEF ComposeUp, Up
<1>2. \A s \in Services : UpOne(s) \in Container
  <2>1. \A s \in Services : ShaOf(composeFile, s) \in Shas
    BY TwoColours DEF ShaOf, BlueGreenAssumption, BlueGreenTypes, Written, ComposeFile
  <2>2. Absent \in Container
    BY DEF Absent, Container, BlueGreenAssumption
  <2>3. ASSUME NEW s \in Services
        PROVE  [sha |-> ShaOf(composeFile, s), health |-> "starting"] \in Container
    BY <2>1 DEF Container
  <2>4. \A s \in Services : containers[s] \in Container
    BY DEF BlueGreenTypes
  <2> QED  BY <2>2, <2>3, <2>4 DEF UpOne
<1>3. containers' \in [Services -> Container]
  BY <1>1, <1>2 DEF BlueGreenTypes
<1>4. ASSUME NEW s \in Services, Keeps(s, composeFile) PROVE containers'[s] = containers[s]
  BY <1>1, <1>4 DEF UpOne, Keeps
<1>5. ASSUME NEW s \in Services \ Names(composeFile) PROVE containers'[s] = containers[s]
  BY <1>1
<1> QED  BY <1>3, <1>4, <1>5 DEF Spares

\* So does a container that gets healthy.
LEMMA HealthySpares ==
  ASSUME BlueGreenTypes, NEW s \in Services, GetsHealthy(s)
  PROVE  containers' \in [Services -> Container] /\ Spares
<1>1. containers' = [containers EXCEPT ![s].health = "healthy"] /\ containers[s].health = "starting"
  BY DEF GetsHealthy
<1>2. containers[s] \in Container
  BY DEF BlueGreenTypes
<1>3. containers' \in [Services -> Container]
  BY <1>1, <1>2 DEF BlueGreenTypes, Container
<1>4. \A t \in Services : t # s => containers'[t] = containers[t]
  BY <1>1 DEF BlueGreenTypes
<1> QED  BY <1>1, <1>3, <1>4 DEF Spares, Keeps

\* A step that spares what is kept and leaves the deployer alone keeps the invariant.
LEMMA SparedHolds ==
  ASSUME BlueGreenAssumption, BlueGreenInv, containers' \in [Services -> Container], Spares,
         UNCHANGED <<composeFile, deployer, lost>>
  PROVE  BlueGreenInv'
<1> DEFINE old == deployer.previous
           new == deployer.sha
<1>0. composeFile' = composeFile /\ deployer' = deployer /\ lost' = lost
  OBVIOUS
<1>1. BlueGreenTypes'
  BY <1>0 DEF BlueGreenInv, BlueGreenTypes, Written
<1>2. \A s \in Services : Keeps(s, composeFile) => Keeps(s, composeFile)'
  BY <1>0 DEF Keeps, Spares
<1>3. \A s \in Services, f \in {composeFile, old} :
        Keeps(s, composeFile) /\ Keeps(s, f) => Keeps(s, f)' /\ Keeps(s, composeFile)'
  BY <1>0 DEF Keeps, Spares
<1>4. composeFile.active \in Services /\ old.active \in Services /\ "legacy" \in Services
  BY DEF BlueGreenInv, BlueGreenTypes, Written, ComposeFile, Deployer, Services
<1>5. Anchored(composeFile) => Anchored(composeFile)'
  BY <1>0, <1>2, <1>4 DEF Anchored
<1>6. Anchors(composeFile, old) => Anchors(composeFile, old)'
  BY <1>0, <1>3, <1>4 DEF Anchors
<1>7. ASSUME SwitchHolds PROVE SwitchHolds'
  <2>1. CASE deployer.at = "idle"
    BY <2>1, <1>0, <1>5, <1>7 DEF SwitchHolds
  <2>2. CASE deployer.at # "idle" /\ deployer.phase = "overlap" /\ InOverlap
    <3>1. InOverlap'
      BY <2>2, <1>0, <1>5, <1>6 DEF InOverlap
    <3> QED  BY <2>2, <3>1, <1>0, <1>7 DEF SwitchHolds
  <2>3. CASE deployer.at # "idle" /\ deployer.phase = "cutover" /\ InCutover
    <3>1. deployer.target = NextColour(old) /\ Written(old) /\ new \in Shas /\ deployer.target \in Services
      BY <2>3, <1>7 DEF SwitchHolds, BlueGreenInv, BlueGreenTypes, Deployer, Services
    <3>2. CASE deployer.at = "save"
      <4>1. /\ composeFile = Overlap(old, new) /\ deployer.file = Cutover(old, new)
            /\ ColourIsServing /\ (BareMigration \/ Anchors(composeFile, old))
        BY <2>3, <3>2 DEF InCutover
      <4>2. Keeps(deployer.target, composeFile)
        BY <3>1, <4>1, OverlapFile DEF Keeps, ColourIsServing
      <4>3. ColourIsServing'
        BY <1>0, <3>1, <4>1, <4>2 DEF ColourIsServing, Spares
      <4>4. BareMigration => BareMigration'
        <5>1. "legacy" \in Services \ Names(composeFile)
          BY <3>1, <4>1, OverlapFile, TwoColours
        <5> QED  BY <5>1, <1>0 DEF BareMigration, Absent, Spares
      <4> QED  BY <2>3, <3>2, <4>1, <4>3, <4>4, <1>0, <1>6, <1>7 DEF SwitchHolds, InCutover
    <3>3. CASE deployer.at # "save"
      BY <2>3, <3>1, <3>3, <1>0, <1>2, <1>7 DEF SwitchHolds, InCutover
    <3> QED  BY <3>2, <3>3
  <2>4. CASE deployer.at # "idle" /\ deployer.phase = "restore" /\ InRestore
    <3>1. InRestore'
      BY <2>4, <1>0, <1>5, <1>6 DEF InRestore
    <3> QED  BY <2>4, <3>1, <1>0, <1>7 DEF SwitchHolds
  <2> QED  BY <2>1, <2>2, <2>3, <2>4, <1>7 DEF SwitchHolds
<1> QED  BY <1>0, <1>1, <1>7 DEF BlueGreenInv

-----------------------------------------------------------------------------
\* Steps of the deployer.

\* At rest it has no file to write that it should not.
LEMMA RestTyped == BlueGreenAssumption =>
  AtRest \in Deployer /\ Written(AtRest.previous) /\ Written(AtRest.file) /\ AtRest.at = "idle"
  BY LegacyWritten DEF AtRest, Deployer, BlueGreenAssumption, Written, Colours

\* What one more file to apply changes in the deployer's memory.
LEMMA AppliesFields ==
  ASSUME BlueGreenTypes, NEW phase \in {"overlap", "cutover", "restore"}, NEW file, Written(file),
         Applies(phase, file)
  PROVE  /\ deployer' \in Deployer /\ Written(deployer'.previous) /\ Written(deployer'.file)
         /\ deployer'.at = "save" /\ deployer'.phase = phase /\ deployer'.file = file
         /\ deployer'.previous = deployer.previous /\ deployer'.sha = deployer.sha
         /\ deployer'.target = deployer.target
  BY DEF Applies, BlueGreenTypes, Deployer, Written

\* A deployer that goes to rest leaves a stored file that is anchored.
LEMMA RestHolds ==
  ASSUME BlueGreenAssumption, BlueGreenTypes, Anchored(composeFile) \/ lost',
         deployer' = AtRest, UNCHANGED <<composeFile, containers>>, lost' \in BOOLEAN
  PROVE  BlueGreenInv'
<1>1. BlueGreenTypes'
  BY RestTyped DEF BlueGreenTypes, Written
<1>2. Anchored(composeFile) => Anchored(composeFile)'
  BY DEF Anchored, Keeps
<1> QED  BY <1>1, <1>2, RestTyped DEF BlueGreenInv, SwitchHolds

\* Unless a switch is dropped in a way that counts as lost, whatever file is stored is
\* anchored.
LEMMA StoredAnchored ==
  ASSUME BlueGreenAssumption, BlueGreenTypes, SwitchHolds
  PROVE  Anchored(composeFile) \/ BareMigration
<1> DEFINE old == deployer.previous
           new == deployer.sha
<1>1. Written(old) /\ new \in Shas
  BY DEF BlueGreenTypes, Deployer
<1>2. composeFile = Overlap(old, new) /\ Anchors(composeFile, old) => Anchored(composeFile)
  BY <1>1, OverlapFile DEF Anchors, Anchored
<1>3. CASE deployer.at # "idle" /\ deployer.phase = "overlap" /\ InOverlap
  BY <1>2, <1>3 DEF InOverlap
<1>4. CASE deployer.at # "idle" /\ deployer.phase = "cutover" /\ InCutover
  BY <1>1, <1>2, <1>4, CutoverFile DEF InCutover, SwitchHolds, Anchored
<1>5. CASE deployer.at # "idle" /\ deployer.phase = "restore" /\ InRestore
  BY <1>5 DEF InRestore
<1> QED  BY <1>3, <1>4, <1>5 DEF SwitchHolds

\* A deployment begins with the overlap of what is stored.
LEMMA BeginHolds ==
  ASSUME BlueGreenAssumption, BlueGreenInv, NEW s \in Shas, BeginDeploy(s)
  PROVE  BlueGreenInv'
<1>1. /\ deployer' = [at |-> "save", phase |-> "overlap", sha |-> s, target |-> NextColour(composeFile),
                     previous |-> composeFile, file |-> Overlap(composeFile, s)]
      /\ composeFile' = composeFile /\ containers' = containers /\ lost' = lost /\ deployer.at = "idle"
  BY DEF BeginDeploy
<1>2. Written(composeFile) /\ composeFile \in ComposeFile /\ NextColour(composeFile) \in Colours
  BY TwoColours DEF BlueGreenInv, BlueGreenTypes, Written
<1>3. Written(Overlap(composeFile, s)) /\ Overlap(composeFile, s) \in ComposeFile
  BY <1>2, OverlapFile DEF Written
<1>4. deployer' \in Deployer
  BY <1>1, <1>2, <1>3 DEF Deployer
<1>5. BlueGreenTypes'
  BY <1>1, <1>2, <1>3, <1>4 DEF BlueGreenInv, BlueGreenTypes, Written
<1>6. SwitchHolds => Anchored(composeFile)
  BY <1>1 DEF SwitchHolds
<1>7. Anchored(composeFile) => SwitchHolds'
  BY <1>1 DEF SwitchHolds, InOverlap, Anchored, Keeps
<1> QED  BY <1>1, <1>5, <1>6, <1>7 DEF BlueGreenInv

\* The file is stored.
LEMMA SaveHolds ==
  ASSUME BlueGreenAssumption, BlueGreenInv, SaveFile
  PROVE  BlueGreenInv'
<1> DEFINE old == deployer.previous
           new == deployer.sha
<1>1. /\ composeFile' = deployer.file /\ containers' = containers /\ deployer.at = "save"
      /\ lost' = (lost \/ (deployer.phase = "restore" /\ composeFile = Cutover(old, new)))
      /\ deployer' = [deployer EXCEPT !.at = "ask"]
  BY DEF SaveFile
<1>2. deployer \in Deployer /\ Written(old) /\ new \in Shas
  BY DEF BlueGreenInv, BlueGreenTypes, Deployer
<1>3. /\ deployer' \in Deployer /\ deployer'.at = "ask" /\ deployer'.phase = deployer.phase
      /\ deployer'.file = deployer.file /\ deployer'.previous = old /\ deployer'.sha = new
      /\ deployer'.target = deployer.target
  BY <1>1, <1>2 DEF Deployer
<1>4. BlueGreenTypes'
  BY <1>1, <1>3 DEF BlueGreenInv, BlueGreenTypes, Written
<1>5. CASE lost
  BY <1>1, <1>4, <1>5 DEF BlueGreenInv
<1>6. CASE SwitchHolds /\ deployer.phase = "overlap"
  <2>1. composeFile = old /\ deployer.file = Overlap(old, new) /\ Anchored(old)
    BY <1>1, <1>6 DEF SwitchHolds, InOverlap
  <2>2. Anchors(Overlap(old, new), old)
    BY <2>1, <1>2, OverlapFile DEF Anchored, Anchors
  <2>3. Anchors(composeFile, old)'
    BY <2>1, <2>2, <1>1, <1>3 DEF Anchors, Keeps
  <2>4. InOverlap'
    BY <2>1, <2>3, <1>1, <1>3 DEF InOverlap
  <2> QED  BY <2>4, <1>1, <1>3, <1>4, <1>6 DEF SwitchHolds, BlueGreenInv
<1>7. CASE SwitchHolds /\ deployer.phase = "cutover"
  <2>1. deployer.file = Cutover(old, new) /\ ColourIsServing /\ deployer.target = NextColour(old)
    BY <1>1, <1>7 DEF SwitchHolds, InCutover
  <2>2. Keeps(deployer.target, Cutover(old, new))
    BY <2>1, <1>2, CutoverFile DEF Keeps, ColourIsServing
  <2>3. InCutover'
    BY <2>1, <2>2, <1>1, <1>3 DEF InCutover, Keeps
  <2> QED  BY <2>3, <1>1, <1>3, <1>4, <1>7 DEF SwitchHolds, BlueGreenInv
<1>8. CASE SwitchHolds /\ deployer.phase = "restore" /\ ~ lost'
  <2>1. deployer.file = old /\ Anchors(composeFile, old)
    BY <1>1, <1>8 DEF SwitchHolds, InRestore
  <2>2. Anchored(old)
    BY <2>1 DEF Anchors, Anchored
  <2>3. InRestore'
    BY <2>1, <2>2, <1>1, <1>3 DEF InRestore, Anchored, Keeps
  <2> QED  BY <2>3, <1>1, <1>3, <1>4, <1>8 DEF SwitchHolds, BlueGreenInv
<1> QED  BY <1>1, <1>4, <1>5, <1>6, <1>7, <1>8 DEF BlueGreenInv, SwitchHolds

\* A deployment is asked for, and its poll answers: the deployer goes on with what it has.
LEMMA AskHolds ==
  ASSUME BlueGreenAssumption, BlueGreenInv, AskDeployment \/ Applied
  PROVE  BlueGreenInv'
<1>1. composeFile' = composeFile /\ containers' = containers /\ lost' = lost
  BY DEF AskDeployment, Applied
<1>2. PICK where \in {"poll", "gate", "public", "idle"} :
        /\ deployer' = [deployer EXCEPT !.at = where]
        /\ \/ deployer.at = "ask" /\ where = "poll"
           \/ /\ deployer.at = "poll"
              /\ where = CASE deployer.phase = "overlap" -> "gate" [] deployer.phase = "cutover" -> "public"
                           [] OTHER -> "idle"
  BY DEF AskDeployment, Applied
<1>3. /\ deployer' \in Deployer /\ deployer'.at = where /\ deployer'.phase = deployer.phase
      /\ deployer'.file = deployer.file /\ deployer'.previous = deployer.previous
      /\ deployer'.sha = deployer.sha /\ deployer'.target = deployer.target
  BY <1>2 DEF BlueGreenInv, BlueGreenTypes, Deployer
<1>4. BlueGreenTypes'
  BY <1>1, <1>3 DEF BlueGreenInv, BlueGreenTypes, Written
<1>5. \A f \in {composeFile, deployer.previous} :
        /\ Anchored(f) => Anchored(f)'
        /\ Anchors(composeFile, f) => Anchors(composeFile, f)'
        /\ \A s \in Services : Keeps(s, f) => Keeps(s, f)'
  BY <1>1, <1>3 DEF Anchored, Anchors, Keeps
<1>6. CASE SwitchHolds /\ deployer.phase = "overlap"
  <2>1. composeFile = Overlap(deployer.previous, deployer.sha) /\ Anchors(composeFile, deployer.previous)
    BY <1>2, <1>6 DEF SwitchHolds, InOverlap
  <2>2. InOverlap' /\ deployer'.at # "idle"
    BY <2>1, <1>1, <1>2, <1>3, <1>6 DEF InOverlap, Anchors, Keeps
  <2> QED  BY <2>2, <1>2, <1>3, <1>4, <1>6 DEF SwitchHolds, BlueGreenInv
<1>7. CASE SwitchHolds /\ deployer.phase = "cutover"
  <2>1. composeFile = Cutover(deployer.previous, deployer.sha) /\ Keeps(deployer.target, composeFile)
    BY <1>2, <1>7 DEF SwitchHolds, InCutover
  <2>2. InCutover' /\ deployer'.at # "idle"
    BY <2>1, <1>1, <1>2, <1>3, <1>7 DEF InCutover, Keeps
  <2> QED  BY <2>2, <1>2, <1>3, <1>4, <1>7 DEF SwitchHolds, BlueGreenInv
<1>8. CASE SwitchHolds /\ deployer.phase = "restore"
  <2>1. composeFile = deployer.previous /\ Anchored(composeFile)
    BY <1>2, <1>8 DEF SwitchHolds, InRestore
  <2>2. Anchored(composeFile)' /\ composeFile' = deployer'.previous
    BY <2>1, <1>1, <1>3 DEF Anchored, Keeps
  <2> QED  BY <2>2, <1>2, <1>3, <1>4, <1>8 DEF SwitchHolds, InRestore, BlueGreenInv
<1> QED  BY <1>1, <1>2, <1>4, <1>6, <1>7, <1>8 DEF BlueGreenInv, SwitchHolds

\* The gate passed: the cutover follows, the legacy container removed or not.
LEMMA GateHolds ==
  ASSUME BlueGreenAssumption, BlueGreenInv, PassGate
  PROVE  BlueGreenInv'
<1> DEFINE old == deployer.previous
           new == deployer.sha
<1>1. /\ composeFile' = composeFile /\ lost' = lost /\ deployer.at = "gate" /\ ColourIsServing
      /\ Applies("cutover", Cutover(old, new))
      /\ \/ containers' = containers
         \/ old.active = "legacy" /\ containers' = [containers EXCEPT !["legacy"] = Absent]
  BY DEF PassGate
<1>2. deployer \in Deployer /\ Written(old) /\ new \in Shas /\ deployer.target \in Colours
  BY DEF BlueGreenInv, BlueGreenTypes, Deployer
<1>3. Written(Cutover(old, new))
  BY <1>2, CutoverFile
<1>4. /\ deployer' \in Deployer /\ Written(deployer'.previous) /\ Written(deployer'.file)
      /\ deployer'.at = "save" /\ deployer'.phase = "cutover" /\ deployer'.file = Cutover(old, new)
      /\ deployer'.previous = old /\ deployer'.sha = new /\ deployer'.target = deployer.target
  BY <1>1, <1>3, AppliesFields DEF BlueGreenInv
<1>5. Absent \in Container
  BY DEF Absent, Container, BlueGreenAssumption
<1>6. BlueGreenTypes'
  BY <1>1, <1>4, <1>5, TwoColours DEF BlueGreenInv, BlueGreenTypes, Written
<1>7. containers'[deployer.target] = containers[deployer.target]
  BY <1>1, <1>2, TwoColours DEF BlueGreenInv, BlueGreenTypes
<1>8. ColourIsServing'
  BY <1>1, <1>4, <1>7 DEF ColourIsServing
<1>9. ASSUME SwitchHolds PROVE SwitchHolds'
  <2>1. /\ composeFile = Overlap(old, new) /\ Anchors(composeFile, old)
        /\ deployer.target = NextColour(old)
    BY <1>1, <1>9 DEF SwitchHolds, InOverlap, InCutover, InRestore
  <2>2. CASE containers' = containers
    <3>1. Anchors(composeFile, old)'
      BY <2>1, <2>2, <1>1, <1>4 DEF Anchors, Keeps
    <3> QED  BY <3>1, <2>1, <1>1, <1>4, <1>8 DEF SwitchHolds, InCutover
  <2>3. CASE old.active = "legacy" /\ containers' = [containers EXCEPT !["legacy"] = Absent]
    <3>1. BareMigration'
      BY <2>3, <1>4, TwoColours DEF BareMigration, BlueGreenInv, BlueGreenTypes
    <3> QED  BY <3>1, <2>1, <1>1, <1>4, <1>8 DEF SwitchHolds, InCutover
  <2> QED  BY <1>1, <2>2, <2>3
<1> QED  BY <1>1, <1>6, <1>9 DEF BlueGreenInv

\* A failure restores the previous file, or gives up.
LEMMA FailHolds ==
  ASSUME BlueGreenAssumption, BlueGreenInv, Fails
  PROVE  BlueGreenInv'
<1> DEFINE old == deployer.previous
           new == deployer.sha
<1>1. /\ composeFile' = composeFile /\ containers' = containers /\ lost' = (lost \/ BareMigration)
      /\ deployer.at \in {"save", "ask", "poll", "gate"}
      /\ \/ deployer.phase # "restore" /\ Applies("restore", old)
         \/ deployer' = AtRest
  BY DEF Fails
<1>2. lost' \in BOOLEAN /\ BlueGreenTypes /\ (lost \/ SwitchHolds)
  BY <1>1 DEF BlueGreenInv, BlueGreenTypes
<1>3. Anchored(composeFile) \/ lost'
  BY <1>1, <1>2, StoredAnchored
<1>4. CASE deployer' = AtRest
  BY <1>1, <1>2, <1>3, <1>4, RestHolds
<1>5. CASE deployer.phase # "restore" /\ Applies("restore", old)
  <2>1. Written(old) /\ new \in Shas
    BY DEF BlueGreenInv, BlueGreenTypes, Deployer
  <2>2. /\ deployer' \in Deployer /\ Written(deployer'.previous) /\ Written(deployer'.file)
        /\ deployer'.at = "save" /\ deployer'.phase = "restore" /\ deployer'.file = old
        /\ deployer'.previous = old /\ deployer'.sha = new /\ deployer'.target = deployer.target
    BY <1>2, <1>5, <2>1, AppliesFields
  <2>3. BlueGreenTypes'
    BY <1>1, <1>2, <2>2 DEF BlueGreenTypes, Written
  <2>4. ASSUME ~ lost' PROVE SwitchHolds'
    <3>1. SwitchHolds /\ ~ BareMigration /\ Anchored(composeFile)
      BY <1>1, <1>2, <1>3, <2>4
    <3>2. deployer.target = NextColour(old)
      BY <1>1, <3>1 DEF SwitchHolds
    <3>3. composeFile = Cutover(old, new) \/ Anchors(composeFile, old)
      <4>1. composeFile = old => Anchors(composeFile, old)
        BY <3>1 DEF Anchored, Anchors
      <4> QED  BY <1>1, <1>5, <3>1, <4>1 DEF SwitchHolds, InOverlap, InCutover
    <3>4. Anchored(composeFile)' /\ (Anchors(composeFile, old) => Anchors(composeFile, old)')
      BY <1>1, <2>2, <3>1 DEF Anchored, Anchors, Keeps
    <3> QED  BY <1>1, <2>2, <3>2, <3>3, <3>4 DEF SwitchHolds, InRestore
  <2> QED  BY <2>3, <2>4 DEF BlueGreenInv
<1> QED  BY <1>1, <1>4, <1>5

\* The deployer ends, or stops.
LEMMA EndHolds ==
  ASSUME BlueGreenAssumption, BlueGreenInv, EndsPublic \/ DeployerStops
  PROVE  BlueGreenInv'
<1>1. /\ composeFile' = composeFile /\ containers' = containers /\ deployer' = AtRest
      /\ lost' \in BOOLEAN /\ (lost => lost') /\ (BareMigration => lost')
  <2>1. CASE EndsPublic
    BY <2>1 DEF EndsPublic, BareMigration, BlueGreenInv, BlueGreenTypes
  <2>2. CASE DeployerStops
    BY <2>2 DEF DeployerStops, BlueGreenInv, BlueGreenTypes
  <2> QED  BY <2>1, <2>2
<1>2. Anchored(composeFile) \/ lost'
  BY <1>1, StoredAnchored DEF BlueGreenInv
<1> QED  BY <1>1, <1>2, RestHolds DEF BlueGreenInv

-----------------------------------------------------------------------------
\* The hub begins on the legacy file or on a colour, up.
LEMMA InitHolds == BlueGreenAssumption /\ BlueGreenInit => BlueGreenInv
<1> SUFFICES ASSUME BlueGreenAssumption, BlueGreenInit PROVE BlueGreenInv
  OBVIOUS
<1> DEFINE green == [active |-> "green", sha |-> [c \in Colours |-> Installed], running |-> {"green"}]
<1>1. Written(Legacy) /\ Written(green)
  BY LegacyWritten DEF BlueGreenAssumption, Written, ComposeFile, Services, Colours
<1>2. /\ [sha |-> Installed, health |-> "healthy"] \in Container /\ Absent \in Container
      /\ deployer = AtRest /\ lost = FALSE /\ composeFile \in {Legacy, green}
  BY DEF BlueGreenAssumption, Container, Absent, BlueGreenInit
<1>3. BlueGreenTypes
  BY <1>1, <1>2, RestTyped DEF BlueGreenTypes, BlueGreenInit
<1>4. composeFile = Legacy /\ containers["legacy"] = [sha |-> Installed, health |-> "healthy"]
        => Anchored(composeFile)
  BY DEF Anchored, Keeps, Legacy, ShaOf
<1>5. composeFile = green /\ containers["green"] = [sha |-> Installed, health |-> "healthy"]
        => Anchored(composeFile)
  BY DEF Anchored, Keeps, ShaOf, Colours
<1>6. Anchored(composeFile)
  BY <1>4, <1>5 DEF BlueGreenInit, Services, Colours
<1> QED  BY <1>2, <1>3, <1>6, RestTyped DEF BlueGreenInv, SwitchHolds

\* Every step keeps the invariant.
LEMMA StepHolds == BlueGreenAssumption /\ BlueGreenInv /\ [BlueGreenNext]_blueGreenVars => BlueGreenInv'
<1> SUFFICES ASSUME BlueGreenAssumption, BlueGreenInv, [BlueGreenNext]_blueGreenVars
             PROVE  BlueGreenInv'
  OBVIOUS
<1>1. ASSUME NEW s \in Shas, BeginDeploy(s) PROVE BlueGreenInv'
  BY <1>1, BeginHolds
<1>2. CASE SaveFile
  BY <1>2, SaveHolds
<1>3. CASE AskDeployment \/ Applied
  BY <1>3, AskHolds
<1>4. CASE PassGate
  BY <1>4, GateHolds
<1>5. CASE Fails
  BY <1>5, FailHolds
<1>6. CASE EndsPublic \/ DeployerStops
  BY <1>6, EndHolds
<1>7. CASE ComposeUp
  BY <1>7, ComposeSpares, SparedHolds DEF ComposeUp, BlueGreenInv
<1>8. ASSUME NEW s \in Services, GetsHealthy(s) PROVE BlueGreenInv'
  BY <1>8, HealthySpares, SparedHolds DEF GetsHealthy, BlueGreenInv
<1>9. CASE UNCHANGED blueGreenVars
  <2>1. containers' = containers /\ UNCHANGED <<composeFile, deployer, lost>>
    BY <1>9 DEF blueGreenVars
  <2>2. containers' \in [Services -> Container] /\ Spares
    BY <2>1 DEF Spares, BlueGreenInv, BlueGreenTypes
  <2> QED  BY <2>1, <2>2, SparedHolds
<1> QED  BY <1>1, <1>2, <1>3, <1>4, <1>5, <1>6, <1>7, <1>8, <1>9 DEF BlueGreenNext

\* What is stored, what is up and where the deployer is fit together, whatever fails.
THEOREM SwitchInvariance == ASSUME BlueGreenAssumption PROVE BlueGreenSpec => []BlueGreenInv
<1>1. BlueGreenInit => BlueGreenInv
  BY InitHolds
<1>2. BlueGreenInv /\ [BlueGreenNext]_blueGreenVars => BlueGreenInv'
  BY StepHolds
<1> QED  BY <1>1, <1>2, PTL DEF BlueGreenSpec

\* The hub has a healthy container, unless a switch was dropped in one of the two ways
\* that give one up.
THEOREM HubStaysLit == ASSUME BlueGreenAssumption PROVE BlueGreenSpec => []StaysLit
<1>1. BlueGreenInv => StaysLit
  <2> SUFFICES ASSUME BlueGreenInv, ~ lost PROVE Lit
    BY DEF StaysLit
  <2>1. BlueGreenTypes /\ SwitchHolds
    BY DEF BlueGreenInv
  <2>2. CASE Anchored(composeFile)
    BY <2>1, <2>2 DEF Anchored, Keeps, Lit, BlueGreenTypes, Written, ComposeFile, Services
  <2>3. CASE BareMigration
    <3>1. ColourIsServing /\ deployer.target \in Services
      BY <2>1, <2>3 DEF BareMigration, SwitchHolds, InCutover, BlueGreenTypes, Deployer, Services
    <3> QED  BY <3>1 DEF ColourIsServing, Lit
  <2> QED  BY <2>1, <2>2, <2>3, StoredAnchored
<1> QED  BY <1>1, SwitchInvariance, PTL
=============================================================================
