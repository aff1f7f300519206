--------------------------- MODULE ExecutionBudget ---------------------------
(***************************************************************************)
(* One budget of the execution budget manager (core/execution/budget.py):  *)
(* amounts are reserved before a model call, and committed, released,      *)
(* upgraded or left to expire.                                             *)
(*                                                                         *)
(* The threads of a process share a lock and a connection, so a process    *)
(* runs one method at a time.  Processes share the SQLite file alone.      *)
(* Python's sqlite3 opens a transaction at the first INSERT or UPDATE and  *)
(* not at `with self._conn': what a method reads before that is read       *)
(* outside the transaction in which it writes.  A method is therefore two  *)
(* steps: its SELECTs and checks, which keep the rows in call[p].seen, and *)
(* its writes with the commit.  get_budget expires reservations without a  *)
(* `with', so its transaction stays open until the process's next method.  *)
(*                                                                         *)
(* `store' is what is committed; `pending' what `writer', the process with *)
(* an open transaction, sees.  A method that raises rolls back.  Amounts   *)
(* are small integers; ttl and age are countdowns and counts of ticks.     *)
(* Waiting for the file lock is not bounded by SQLite's 30 seconds.        *)
(***************************************************************************)
EXTENDS Integers, FiniteSets, Sums

CONSTANTS
  Processes, NoProcess,
  ResIds,             \* reservations; an attempt is named by its reservation
  Amounts,            \* reserved amounts and charged costs
  BudgetCeiling, BudgetAttempts, ConcurrencyLimit,
  Windows,            \* short and long window: records with duration and ceiling
  ReservationTtl,     \* lease_seconds, in ticks
  MaxDuration         \* bound: the age at which an attempt is outside every window

ASSUME BudgetAssumption ==
  /\ NoProcess \notin Processes
  /\ IsFiniteSet(ResIds)
  /\ Amounts \subseteq Nat
  /\ BudgetCeiling \in Nat /\ BudgetAttempts \in Nat /\ ConcurrencyLimit \in Nat \ {0}
  /\ ReservationTtl \in Nat \ {0} /\ MaxDuration \in Nat
  /\ \A w \in Windows : w.duration \in Nat /\ w.duration < MaxDuration /\ w.ceiling \in Nat

VARIABLES
  store,    \* the three tables as committed
  pending,  \* the tables as the open transaction has them
  writer,   \* the process whose transaction is open, or NoProcess
  call      \* by process: the method between its reads and its writes

budgetVars == <<store, pending, writer, call>>

Idle == [op |-> "idle"]

\* Tables as process p sees them.
View(p) == IF writer = p THEN pending ELSE store
MayWrite(p) == writer \in {p, NoProcess}

-----------------------------------------------------------------------------
\* Rows.  An attempt row is kept with its reservation: charged and age.

ResRow == [status : {"none", "active", "committed", "released", "expired"},
           amount : Amounts \cup {0}, ttl : 0 .. ReservationTtl,
           charged : Nat, age : 0 .. MaxDuration]

NewRow(amount) == [status |-> "active", amount |-> amount, ttl |-> ReservationTtl,
                   charged |-> 0, age |-> 0]

Active(t)    == {x \in ResIds : t.res[x].status = "active"}
Committed(t) == {x \in ResIds : t.res[x].status = "committed"}
ActiveSum(t) == Total([x \in ResIds |-> t.res[x].amount], Active(t))
WindowSpent(t, w) ==
  Total([x \in ResIds |-> t.res[x].charged], {x \in Committed(t) : t.res[x].age =< w.duration})

Positive(n) == IF n > 0 THEN n ELSE 0

-----------------------------------------------------------------------------
\* _expire_stale_unlocked: the balance is recomputed from the active rows.

Stale(t) == {x \in Active(t) : t.res[x].ttl = 0}

\* Fault: the rows expire and the balance is left as it was.
ExpiredKept(t) == [t EXCEPT !.res = [x \in ResIds |-> IF x \in Stale(t)
                                                      THEN [t.res[x] EXCEPT !.status = "expired"]
                                                      ELSE t.res[x]]]

ExpiredTables(t) ==
  LET res == [x \in ResIds |-> IF x \in Stale(t) THEN [t.res[x] EXCEPT !.status = "expired"]
                                                 ELSE t.res[x]]
  IN IF Stale(t) = {} THEN t
     ELSE [t EXCEPT !.res = res, !.reserved = ActiveSum([t EXCEPT !.res = res])]

\* get_budget.
GetBudget(p) ==
  /\ call[p] = Idle /\ Stale(View(p)) # {} /\ MayWrite(p)
  /\ pending' = ExpiredTables(View(p))
  /\ writer' = p
  /\ UNCHANGED <<store, call>>

Commits(tables) == store' = tables /\ writer' = NoProcess /\ pending' = tables

ExpireStale(p) ==
  /\ call[p] = Idle /\ MayWrite(p)
  /\ Commits(ExpiredTables(View(p)))
  /\ UNCHANGED call

\* A method that raises: what its process had not committed is lost.
RollBack(p) ==
  /\ writer = p
  /\ pending' = store /\ writer' = NoProcess
  /\ call' = [call EXCEPT ![p] = Idle]
  /\ UNCHANGED store

-----------------------------------------------------------------------------
\* Checks shared by reserve and upgrade_reservation.

\* Fault: the window counts what was spent and not what is reserved.
FitsSpentOnly(t, amount) ==
  /\ t.spent + t.reserved + amount =< BudgetCeiling
  /\ \A w \in Windows : WindowSpent(t, w) + amount =< w.ceiling

Fits(t, amount) ==
  /\ t.spent + t.reserved + amount =< BudgetCeiling
  /\ \A w \in Windows : WindowSpent(t, w) + t.reserved + amount =< w.ceiling

\* Fault: one reservation more than the limit.
RoomOff(t) == /\ Cardinality(Committed(t)) < BudgetAttempts
              /\ Cardinality(Active(t)) =< ConcurrencyLimit

Room(t) == /\ Cardinality(Committed(t)) < BudgetAttempts
           /\ Cardinality(Active(t)) < ConcurrencyLimit

\* Reads.  Those of reserve begin a transaction when there is something to expire.
Called(p, op, x, n, seen) ==
  call' = [call EXCEPT ![p] = [op |-> op, res |-> x, n |-> n, seen |-> seen]]

ReserveReads(p, x, amount) ==
  LET t == ExpiredTables(View(p)) IN
  /\ call[p] = Idle /\ View(p).res[x].status = "none"
  /\ \A q \in Processes : call[q] # Idle => call[q].res # x     \* ids are fresh
  /\ Room(t) /\ Fits(t, amount)
  /\ IF Stale(View(p)) = {} THEN UNCHANGED <<pending, writer>>
                            ELSE MayWrite(p) /\ pending' = t /\ writer' = p
  /\ Called(p, "reserve", x, amount, t)
  /\ UNCHANGED store

\* commit checks the status alone: a reservation past its time, not yet expired by
\* anybody, is still committed.
CommitReads(p, x, cost) ==
  /\ call[p] = Idle /\ View(p).res[x].status = "active"
  /\ Called(p, "commit", x, cost, View(p))
  /\ UNCHANGED <<store, pending, writer>>

ReleaseReads(p, x) ==
  /\ call[p] = Idle /\ View(p).res[x].status = "active"
  /\ Called(p, "release", x, 0, View(p))
  /\ UNCHANGED <<store, pending, writer>>

UpgradeReads(p, x, amount) ==
  /\ call[p] = Idle /\ View(p).res[x].status = "active"
  /\ amount > View(p).res[x].amount => Fits(View(p), amount - View(p).res[x].amount)
  /\ Called(p, "upgrade", x, amount, View(p))
  /\ UNCHANGED <<store, pending, writer>>

\* Writes.  All but release set the balance from what the reads saw.
Settled(t, c) ==
  LET x == c.res IN
  CASE c.op = "reserve" -> [t EXCEPT !.res[x] = NewRow(c.n), !.reserved = c.seen.reserved + c.n]
    [] c.op = "commit"  -> [t EXCEPT !.res[x] = [@ EXCEPT !.status = "committed", !.charged = c.n],
                                     !.reserved = Positive(c.seen.reserved - c.seen.res[x].amount),
                                     !.spent = c.seen.spent + c.n]
    [] c.op = "release" -> [t EXCEPT !.res[x].status = "released",
                                     !.reserved = Positive(t.reserved - c.seen.res[x].amount)]
    [] c.op = "upgrade" -> [t EXCEPT !.res[x].amount = c.n,
                                     !.reserved = Positive(c.seen.reserved + c.n - c.seen.res[x].amount)]

\* attempt_id is a primary key: the second of two commits of an attempt rolls back.
Duplicate(p) == call[p].op = "commit" /\ View(p).res[call[p].res].status = "committed"

Writes(p) ==
  /\ call[p] # Idle /\ MayWrite(p)
  /\ Commits(IF Duplicate(p) THEN store ELSE Settled(View(p), call[p]))
  /\ call' = [call EXCEPT ![p] = Idle]

-----------------------------------------------------------------------------
Aged(t) == [t EXCEPT !.res = [x \in ResIds |->
              [t.res[x] EXCEPT !.ttl = Positive(@ - 1),
                               !.age = IF t.res[x].status = "committed" /\ @ < MaxDuration THEN @ + 1 ELSE @]]]

\* Time passes between methods; within one it is the clock reading of its start.
BudgetTick ==
  /\ \A p \in Processes : call[p] = Idle
  /\ store' = Aged(store) /\ pending' = Aged(pending)
  /\ UNCHANGED <<writer, call>>

EmptyTables == [res |-> [x \in ResIds |-> [NewRow(0) EXCEPT !.status = "none", !.ttl = 0]],
                reserved |-> 0, spent |-> 0]

BudgetInit ==
  /\ store = EmptyTables /\ pending = EmptyTables
  /\ writer = NoProcess
  /\ call = [p \in Processes |-> Idle]

BudgetNext ==
  \/ \E p \in Processes :
       \/ GetBudget(p) \/ ExpireStale(p) \/ RollBack(p) \/ Writes(p)
       \/ \E x \in ResIds :
            \/ ReleaseReads(p, x)
            \/ \E n \in Amounts : ReserveReads(p, x, n) \/ CommitReads(p, x, n) \/ UpgradeReads(p, x, n)
  \/ BudgetTick

BudgetSpec == BudgetInit /\ [][BudgetNext]_budgetVars
-----------------------------------------------------------------------------
\* Properties.

Overrun == [x \in ResIds |-> Positive(store.res[x].charged - store.res[x].amount)]

\* The balance is the sum of the active reservations: no commit, release, upgrade
\* or expiry loses one or gives one back twice.  One process: its lock serializes
\* the methods.
BalanceBacked == store.reserved = ActiveSum(store)

\* What was spent and reserved stays under the ceiling, and under each window's, but
\* for what attempts cost over the amount reserved for them.
CeilingsHold ==
  LET over == Total(Overrun, Committed(store)) IN
  /\ store.spent + store.reserved =< BudgetCeiling + over
  /\ \A w \in Windows : WindowSpent(store, w) + store.reserved =< w.ceiling + over

\* The attempts limit is checked when an attempt is reserved and counts only those
\* that are over: it may be passed by the reservations that were open beside it.
AttemptsNearLimit ==
  /\ Cardinality(Active(store)) =< ConcurrencyLimit
  /\ Cardinality(Committed(store)) =< BudgetAttempts + ConcurrencyLimit - 1
=============================================================================
