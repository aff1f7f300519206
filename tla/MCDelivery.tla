----------------------------- MODULE MCDelivery ------------------------------
(* Small instances of the fleet dispatcher and of the blue-green deployment. *)
EXTENDS FleetDispatcher, BlueGreen, TLC

CONSTANTS t1, t2, t3, h1, h2

TwoTickets   == <<t1, t2>>
ThreeTickets == <<t1, t2, t3>>
OneHost      == <<h1>>
TwoHosts     == <<h1, h2>>

\* The parts do not meet.
VARIABLE unit
deliveryVars == <<dispatcherVars, blueGreenVars, unit>>

DeliveryInit == /\ unit \in {"dispatcher", "bluegreen"}
                /\ DispatcherInit /\ BlueGreenInit
                /\ unit # "bluegreen" => composeFile = Legacy

DeliveryNext ==
  /\ \/ unit = "dispatcher" /\ DispatcherNext /\ UNCHANGED blueGreenVars
     \/ unit = "bluegreen" /\ BlueGreenNext /\ UNCHANGED dispatcherVars
  /\ UNCHANGED unit

\* The dispatcher alone, with its fairness.
QueueSpec == DeliveryInit /\ unit = "dispatcher" /\ [][DeliveryNext]_deliveryVars /\ DispatcherFairness
=============================================================================
