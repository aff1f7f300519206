----------------------------- MODULE MCServices ------------------------------
(* The services around the line, one at a time: what MCEngine, MCDelivery    *)
(* and MCHost instantiate.                                                   *)
EXTENDS MCEngine, MCDelivery, MCHost

VARIABLE service
serviceVars == <<engineVars, deliveryVars, hostVars, service>>

\* Each behaviour is of one service; the others keep one initial state.
ServicesInit ==
  /\ service \in {"engine", "delivery", "host"}
  /\ EngineInit /\ DeliveryInit /\ HostInit
  /\ service # "engine" => part = "budget"
  /\ service # "delivery" => unit = "dispatcher"
  /\ service # "host" => side = "lease"

ServicesNext ==
  /\ \/ service = "engine" /\ EngineNext /\ UNCHANGED <<deliveryVars, hostVars>>
     \/ service = "delivery" /\ DeliveryNext /\ UNCHANGED <<engineVars, hostVars>>
     \/ service = "host" /\ BoundedHost /\ UNCHANGED <<engineVars, deliveryVars>>
  /\ UNCHANGED service

ServicesSpec == ServicesInit /\ [][ServicesNext]_serviceVars
=============================================================================
