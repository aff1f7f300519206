------------------------------ MODULE MCStore -------------------------------
(* Small instances of ControlStore for TLC. *)
EXTENDS StoreRefinement, TLC

CONSTANTS r1, r2, r3, w1, w2, h1, h2, t1, t2

\* The line cut down to its first two stages and its closing one.
ShortLine == [grill |-> "planning"]
ShortStages == {"grill", "planning", "retrospective"}

OneHost  == w1 :> h1
TwoHosts == w1 :> h1 @@ w2 :> h2
Generalists == [w \in Workers |-> Stages]
OneTicket == [r \in Runs |-> t1]
\* Two runs compete for a ticket; a third has its own.
TwoTickets == r1 :> t1 @@ r2 :> t2 @@ r3 :> t1

\* Every operation of the store; and two parts of a fleet of hosts that never
\* materializes a successor, so that a run keeps its one job and several runs fit: the
\* claims of two runs under two reservations, and three runs that compete for
\* reservations and are never claimed.
VARIABLE part

ClaimsOnly == /\ Tick \/ \E lag \in Lags : \/ LeaseStep(lag)
                                           \/ FleetStep(lag)
                                           \/ \E r \in Runs : CancelRun(r, lag)
              \* Bounds: two runs, two reservations, one of them active.
              /\ runs'[r3] = "absent" /\ Cardinality(ActiveReservations') =< 1
              /\ Cardinality({x \in Reservations : reservations'[x].status # "absent"}) =< 2

SlotOnly == Tick \/ \E lag \in Lags : \/ \E r \in Runs : Accept(r, lag)
                                      \/ FleetStep(lag)

FleetNext == /\ \/ part = "claims" /\ ClaimsOnly
                \/ part = "slots" /\ SlotOnly
             /\ UNCHANGED part

LeaseInit == Init /\ part = "leases"
LeaseNext == Next /\ UNCHANGED part
LeaseSpec == LeaseInit /\ [][LeaseNext]_<<vars, part>>

FleetInit == Init /\ part \in {"claims", "slots"}
FleetSpec == FleetInit /\ [][FleetNext]_<<vars, part>>

\* The two workers, with their hosts, can change places.
SwapHosts == w1 :> w2 @@ w2 :> w1 @@ h1 :> h2 @@ h2 :> h1
Symmetric == Permutations(Leases) \cup Permutations(Reservations) \cup {SwapHosts}
=============================================================================
