----------------------------- MODULE StageLease ------------------------------
(***************************************************************************)
(* What the control store promises of the execution of a stage, whatever   *)
(* tables it keeps: a job is owned by one lease at a time; every new owner *)
(* has a larger fencing token; the external operation on record is the     *)
(* owner's of its time, so it never goes back to an older token; and a     *)
(* settled job is never owned again.                                       *)
(***************************************************************************)
EXTENDS Naturals

CONSTANTS StageKeys, LeaseIds, Unowned

VARIABLES
  owner,    \* by job: the lease that executes it, or Unowned
  fence,    \* by job: the token of its last owner
  effect,   \* by job: the token under which its operation was recorded
  settled,  \* the jobs that are over
  spent     \* the leases given out

leaseState == <<owner, fence, effect, settled, spent>>

LeaseInit ==
  /\ owner = [k \in StageKeys |-> Unowned]
  /\ fence = [k \in StageKeys |-> 0] /\ effect = fence
  /\ settled = {} /\ spent = {}

\* A free job is given to a new lease.
Grant(k, l) ==
  /\ k \notin settled /\ owner[k] = Unowned /\ l \notin spent
  /\ owner' = [owner EXCEPT ![k] = l]
  /\ fence' = [fence EXCEPT ![k] = @ + 1]
  /\ spent' = spent \cup {l}
  /\ UNCHANGED <<effect, settled>>

\* The owner records its operation.
Act(k) ==
  /\ owner[k] # Unowned
  /\ effect' = [effect EXCEPT ![k] = fence[k]]
  /\ UNCHANGED <<owner, fence, settled, spent>>

\* Jobs lose their owners, by their own hand, a sweep or a cancellation, some under a
\* new token already; and some are settled.
Withdraw ==
  /\ DOMAIN owner' = StageKeys /\ DOMAIN fence' = StageKeys
  /\ settled \subseteq settled'
  /\ \A k \in StageKeys :
       /\ owner'[k] \in {owner[k], Unowned} /\ fence'[k] \in {fence[k], fence[k] + 1}
       /\ k \in settled' \/ fence'[k] # fence[k] => owner'[k] = Unowned
  /\ UNCHANGED <<effect, spent>>

LeaseSteps == \/ \E k \in StageKeys : Act(k) \/ \E l \in LeaseIds : Grant(k, l)
              \/ Withdraw

StageLeaseSpec == LeaseInit /\ [][LeaseSteps]_leaseState
=============================================================================
