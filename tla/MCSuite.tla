------------------------------ MODULE MCSuite --------------------------------
(* Small instances of the remote suite and of the model circuit.             *)
EXTENDS RemoteSuite, ModelCircuit, TLC

CONSTANTS c1, c2, t1, t2

\* Clients with the same commit and configuration, without holdout.
SameKey   == [c \in Clients |-> "k"]
NoHoldout == [c \in Clients |-> FALSE]

\* The two do not meet; each behaviour is of one of them.  The suite is bounded in
\* two ways: two clients that share a job and do not ask again, with an outage or a
\* cancellation; and one client that asks again after a restart and cancels its
\* first job only.
VARIABLE part
suiteVars == <<remoteVars, circuitVars, part>>

Uncancelled(j) == "cancel_requested" \notin wjobs'[j].flags

Sharing == /\ RemoteNext
           /\ outages' = 0 \/ \A j \in JobNos : Uncancelled(j)
           /\ \A c \in Clients : client'[c].retries = 0

AskingAgain == /\ RemoteNext
               /\ client'[c2] = client[c2]
               /\ Uncancelled(2)

SuiteInit == /\ RemoteInit /\ CircuitInit
             /\ part \in {"sharing", "asking again", "circuit"}

SuiteNext ==
  /\ \/ part = "sharing" /\ Sharing /\ UNCHANGED circuitVars
     \/ part = "asking again" /\ AskingAgain /\ UNCHANGED circuitVars
     \/ part = "circuit" /\ CircuitNext /\ UNCHANGED remoteVars
  /\ UNCHANGED part

SuiteSpec == /\ SuiteInit /\ [][SuiteNext]_suiteVars
             /\ \/ part \in {"sharing", "asking again"} /\ RemoteFairness
                \/ part = "circuit" /\ CircuitFairness
=============================================================================
