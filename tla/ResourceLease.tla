---------------------------- MODULE ResourceLease ----------------------------
(***************************************************************************)
(* The distributed resource leases of core/line/resource_lease.py: one row *)
(* per repository branch or deployment target, taken by a run (holder_id), *)
(* fenced by a token that grows with every change of hands.  Each call is  *)
(* one transaction (BEGIN IMMEDIATE, or SELECT ... FOR UPDATE).            *)
(*                                                                         *)
(* A user is one execution of a stage handler; executions of the same run  *)
(* share its holder_id, and so its lease.  A row that was never inserted   *)
(* has token 0.                                                            *)
(***************************************************************************)
EXTENDS Integers

CONSTANTS
  Resources, Users,
  HolderOf,        \* [Users -> run]
  NoOne,           \* the holder of a row never inserted
  LeaseTtl,        \* ttl_s, in ticks
  LastTime         \* bound: the clock

ASSUME ResourceAssumption ==
  /\ LeaseTtl \in Nat \ {0} /\ LastTime \in Nat
  /\ \A u \in Users : HolderOf[u] # NoOne

VARIABLES
  rows,      \* resource_leases
  held,      \* by user: the ResourceLease object it keeps
  rclock

leaseVars == <<rows, held, rclock>>

LeaseRuns    == {HolderOf[u] : u \in Users}
NoRow    == [holder |-> NoOne, token |-> 0, status |-> "absent", expires |-> 0]
NotHeld  == [resource |-> NoOne, token |-> 0]

Unexpired(row) == row.status = "active" /\ row.expires > rclock

\* The lease object u keeps names the row: its resource, holder and token.
Mine(u) == /\ held[u].token # 0
           /\ rows[held[u].resource].holder = HolderOf[u]
           /\ rows[held[u].resource].token = held[u].token
           /\ rows[held[u].resource].status = "active"

\* is_held_by, with the fencing token.
IsHeldBy(u) == Mine(u) /\ rows[held[u].resource].expires > rclock

-----------------------------------------------------------------------------
\* Fault: a lease changes hands and keeps its token.
LeaseTakenSameToken(row, h) ==
  IF Unexpired(row) /\ row.holder = h THEN [row EXCEPT !.expires = rclock + LeaseTtl]
  ELSE [holder |-> h, token |-> IF row.token = 0 THEN 1 ELSE row.token, status |-> "active",
        expires |-> rclock + LeaseTtl]

\* acquire: an unexpired lease of the same run is renewed, a released or expired one
\* (or none) is taken with the next token.
LeaseTaken(row, h) ==
  IF Unexpired(row) /\ row.holder = h THEN [row EXCEPT !.expires = rclock + LeaseTtl]
  ELSE [holder |-> h, token |-> row.token + 1, status |-> "active", expires |-> rclock + LeaseTtl]

\* Fault: the check for another holder is left out.
FreeForAll(u, r) == TRUE

\* Otherwise ResourceBusyError.
Free(u, r) == Unexpired(rows[r]) => rows[r].holder = HolderOf[u]

AcquireLease(u, r) ==
  /\ Free(u, r)
  /\ rows' = [rows EXCEPT ![r] = LeaseTaken(@, HolderOf[u])]
  /\ held' = [held EXCEPT ![u] = [resource |-> r, token |-> LeaseTaken(rows[r], HolderOf[u]).token]]
  /\ UNCHANGED rclock

\* heartbeat, which raises LeaseLostError unless the lease is still held.
HeartbeatLease(u) ==
  /\ IsHeldBy(u)
  /\ rows' = [rows EXCEPT ![held[u].resource].expires = rclock + LeaseTtl]
  /\ UNCHANGED <<held, rclock>>

\* release, of the row that is still this lease's, expired or not.
ReleaseLease(u) ==
  /\ held[u].token # 0
  /\ rows' = IF Mine(u) THEN [rows EXCEPT ![held[u].resource].status = "released",
                                          ![held[u].resource].expires = rclock]
             ELSE rows
  /\ held' = [held EXCEPT ![u] = NotHeld]
  /\ UNCHANGED rclock

\* A crashed user forgets its lease.
ForgetLease(u) ==
  /\ held' = [held EXCEPT ![u] = NotHeld]
  /\ UNCHANGED <<rows, rclock>>

LeaseTick == /\ rclock < LastTime
             /\ rclock' = rclock + 1
             /\ UNCHANGED <<rows, held>>

LeaseInit ==
  /\ rows = [r \in Resources |-> NoRow]
  /\ held = [u \in Users |-> NotHeld]
  /\ rclock = 0

ResourceCalls(u) == \/ HeartbeatLease(u) \/ ReleaseLease(u) \/ ForgetLease(u)
                 \/ \E r \in Resources : AcquireLease(u, r)

LeaseNext == LeaseTick \/ \E u \in Users : ResourceCalls(u)

LeaseSpec == LeaseInit /\ [][LeaseNext]_leaseVars
-----------------------------------------------------------------------------
\* Properties.

Row == [holder : LeaseRuns \cup {NoOne}, token : Nat, status : {"absent", "active", "released"}, expires : Nat]

\* Types, and: no lease object is ahead of its row, the row of an object's token was
\* taken by its run, and a row without token is absent.
LeaseTypeOK ==
  /\ rows \in [Resources -> Row] /\ rclock \in Nat
  /\ held \in [Users -> [resource : Resources \cup {NoOne}, token : Nat]]
  /\ \A u \in Users : held[u].token # 0 =>
       /\ held[u].resource \in Resources
       /\ held[u].token =< rows[held[u].resource].token

\* A lost lease stays lost: a lease object that no longer passes is_held_by, because it
\* expired, was released by another execution of its run or changed hands, never
\* passes it again, whoever takes the resource afterwards.
LostStaysLost ==
  [][\A u \in Users : held'[u] = held[u] /\ ~ IsHeldBy(u) => ~ IsHeldBy(u)']_leaseVars
=============================================================================
