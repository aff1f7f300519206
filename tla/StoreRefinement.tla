-------------------------- MODULE StoreRefinement ----------------------------
(* The tables of the control store, seen as the leases they implement.       *)
EXTENDS ControlStore

Settled == {k \in Keys : jobs[k].status \in SettledJobStatuses}

Leased == INSTANCE StageLease WITH
  StageKeys <- Keys, LeaseIds <- Leases, Unowned <- NoLease,
  owner   <- [k \in Keys |-> IF jobs[k].status = "running" THEN jobs[k].lease ELSE NoLease],
  fence   <- [k \in Keys |-> jobs[k].token],
  effect  <- ops,
  settled <- Settled,
  spent   <- {l \in Leases : claims[l].status # "absent"}

\* The store implements the leases: each of its transactions, seen from one job, hands it
\* to a new lease under a larger token, records an operation under the current one, or
\* takes jobs from their owners; claims, late finishes, sweeps, fleet requeues, resumes
\* and cancellations do nothing else to who executes what.
StageLeases == Leased!StageLeaseSpec
=============================================================================
