------------------------ MODULE ExecutionBudgetProofs ------------------------
(***************************************************************************)
(* Proofs about the execution budget as one process uses it, whose lock    *)
(* serializes the methods: the balance is the sum of the active            *)
(* reservations, the ceilings hold but for what attempts cost over the     *)
(* amount reserved for them, and the attempts limit but for what was open. *)
(*                                                                         *)
(* The invariant says that both views of the tables, the committed one and *)
(* that of the open transaction, are sound, and that what a method saw in  *)
(* its reads is what it writes over.  With a second process the last part  *)
(* fails, and the others with it.                                          *)
(***************************************************************************)
EXTENDS ExecutionBudget, SumProofs, TLAPS

\* One process uses the file.
OneProcess == \A p, q \in Processes : p = q

Tables == [res : [ResIds -> ResRow], reserved : Nat, spent : Nat]

\* The sums of one view of the tables.
Charges(t)  == [x \in ResIds |-> t.res[x].charged]
Sizes(t)    == [x \in ResIds |-> t.res[x].amount]
Over(t)     == [x \in ResIds |-> Positive(t.res[x].charged - t.res[x].amount)]
Recent(t, w) == {x \in Committed(t) : t.res[x].age =< w.duration}

OverSum(t) == Total(Over(t), Committed(t))

Balanced(t) == t.reserved = Total(Sizes(t), Active(t))
Covered(t) ==
  /\ t.spent + t.reserved =< BudgetCeiling + OverSum(t)
  /\ \A w \in Windows : Total(Charges(t), Recent(t, w)) + t.reserved =< w.ceiling + OverSum(t)

Sound(t) == t \in Tables /\ Balanced(t) /\ Covered(t)

\* A method, given by its call c, between its reads and its writes: v is the view that
\* it will write over.
Ready(c, v) ==
  /\ c = [op |-> c.op, res |-> c.res, n |-> c.n, seen |-> c.seen]
  /\ c.seen = v /\ c.res \in ResIds
  /\ \/ /\ c.op = "reserve" /\ c.n \in Amounts
        /\ v.res[c.res].status = "none" /\ Fits(v, c.n)
     \/ /\ c.op = "commit" /\ c.n \in Amounts
        /\ v.res[c.res].status = "active"
     \/ /\ c.op = "release"
        /\ v.res[c.res].status = "active"
     \/ /\ c.op = "upgrade" /\ c.n \in Amounts
        /\ v.res[c.res].status = "active"
        /\ c.n > v.res[c.res].amount => Fits(v, c.n - v.res[c.res].amount)

BudgetInv ==
  /\ Sound(store) /\ Sound(pending)
  /\ call = [p \in Processes |-> call[p]]
  /\ \A p \in Processes : call[p] = Idle \/ Ready(call[p], View(p))

-----------------------------------------------------------------------------
\* Sums over reservations are natural numbers.
LEMMA SumsNat ==
  ASSUME NEW t \in Tables, NEW S \in SUBSET ResIds
  PROVE  /\ IsFiniteSet(S)
         /\ \A x \in ResIds : Sizes(t)[x] \in Nat /\ Charges(t)[x] \in Nat /\ Over(t)[x] \in Nat
         /\ Total(Sizes(t), S) \in Nat /\ Total(Charges(t), S) \in Nat /\ Total(Over(t), S) \in Nat
<1>1. IsFiniteSet(S)
  BY FS_Subset, BudgetAssumption
<1>2. ASSUME NEW x \in ResIds PROVE Sizes(t)[x] \in Nat /\ Charges(t)[x] \in Nat /\ Over(t)[x] \in Nat
  <2>1. t.res[x].amount \in Nat /\ t.res[x].charged \in Nat
    <3>1. t.res[x] \in ResRow /\ Amounts \subseteq Nat
      BY BudgetAssumption DEF Tables
    <3>2. t.res[x].amount \in Amounts \cup {0} /\ t.res[x].charged \in Nat
      BY <3>1 DEF ResRow
    <3>3. ASSUME NEW a \in Amounts \cup {0} PROVE a \in Nat
      BY <3>1
    <3> QED  BY <3>2, <3>3
  <2> QED  BY <2>1 DEF Sizes, Charges, Over, Positive
<1> HIDE DEF Sizes, Charges, Over
<1>3. Total(Sizes(t), S) \in Nat
  BY <1>1, <1>2, TotalNat
<1>4. Total(Charges(t), S) \in Nat
  BY <1>1, <1>2, TotalNat
<1>5. Total(Over(t), S) \in Nat
  BY <1>1, <1>2, TotalNat
<1> QED  BY <1>1, <1>2, <1>3, <1>4, <1>5

-----------------------------------------------------------------------------
\* Expiry: the balance is recomputed, and is not larger than it was.
LEMMA ExpirySound ==
  ASSUME NEW t, Sound(t)
  PROVE  Sound(ExpiredTables(t))
<1> DEFINE u == ExpiredTables(t)
           rows == [x \in ResIds |-> IF x \in Stale(t) THEN [t.res[x] EXCEPT !.status = "expired"] ELSE t.res[x]]
<1>1. t \in Tables
  BY DEF Sound
<1>2. CASE Stale(t) = {}
  BY <1>2 DEF ExpiredTables
<1>3. CASE Stale(t) # {}
  <2>1. u = [t EXCEPT !.res = rows, !.reserved = ActiveSum([t EXCEPT !.res = rows])]
    BY <1>3 DEF ExpiredTables
  <2>2. rows \in [ResIds -> ResRow]
    BY <1>1 DEF Tables, ResRow
  <2>3. ASSUME NEW x \in ResIds
        PROVE  /\ rows[x].amount = t.res[x].amount /\ rows[x].charged = t.res[x].charged
               /\ rows[x].age = t.res[x].age
               /\ rows[x].status = "committed" <=> t.res[x].status = "committed"
               /\ rows[x].status = "active" => t.res[x].status = "active"
    <3>1. t.res[x] \in ResRow /\ (x \in Stale(t) => t.res[x].status = "active")
      BY <1>1 DEF Tables, Stale, Active
    <3> QED  BY <3>1 DEF ResRow
  <2> HIDE DEF rows
  <2> DEFINE v == [t EXCEPT !.res = rows]
  <2>4. v \in Tables /\ v.res = rows
    BY <1>1, <2>2 DEF Tables
  <2>5. ActiveSum(v) = Total(Sizes(t), Active(v)) /\ Active(v) \in SUBSET Active(t)
    BY <2>3, <2>4 DEF ActiveSum, Sizes, Active
  <2> HIDE DEF v
  <2>6. ActiveSum(v) \in Nat /\ ActiveSum(v) =< t.reserved
    <3>1. Total(Sizes(t), Active(v)) =< Total(Sizes(t), Active(t))
      BY <1>1, <2>5, TotalPart, SumsNat DEF Active
    <3> QED  BY <1>1, <2>5, <3>1, SumsNat DEF Sound, Balanced, Active
  <2>7. /\ u.res = rows /\ u.spent = t.spent /\ u.reserved = ActiveSum(v)
        /\ u \in Tables
    BY <1>1, <2>1, <2>2, <2>6 DEF v, Tables
  <2> HIDE DEF u
  <2>8. /\ Sizes(u) = Sizes(t) /\ Over(u) = Over(t) /\ Charges(u) = Charges(t)
        /\ Active(u) = Active(v) /\ Committed(u) = Committed(t)
        /\ \A w \in Windows : Recent(u, w) = Recent(t, w)
    BY <2>3, <2>4, <2>7 DEF Sizes, Over, Charges, Active, Committed, Recent
  <2>9. Balanced(u)
    BY <2>5, <2>7, <2>8 DEF Balanced
  <2>10. OverSum(u) = OverSum(t) /\ OverSum(t) \in Nat
    BY <1>1, <2>8, SumsNat DEF OverSum, Committed
  <2>11. ASSUME NEW w \in Windows PROVE Total(Charges(u), Recent(u, w)) + u.reserved =< w.ceiling + OverSum(u)
    <3>1. Total(Charges(t), Recent(t, w)) \in Nat /\ w.ceiling \in Nat
      BY <1>1, SumsNat, BudgetAssumption DEF Recent, Committed
    <3>2. Total(Charges(t), Recent(t, w)) + t.reserved =< w.ceiling + OverSum(t)
      BY DEF Sound, Covered
    <3>3. t.reserved \in Nat
      BY <1>1 DEF Tables
    <3> QED  BY <2>6, <2>7, <2>8, <2>10, <3>1, <3>2, <3>3
  <2>12. u.spent + u.reserved =< BudgetCeiling + OverSum(u)
    <3>1. t.spent \in Nat /\ t.reserved \in Nat /\ BudgetCeiling \in Nat
      BY <1>1, BudgetAssumption DEF Tables
    <3>2. t.spent + t.reserved =< BudgetCeiling + OverSum(t)
      BY DEF Sound, Covered
    <3> QED  BY <2>6, <2>7, <2>10, <3>1, <3>2
  <2> QED  BY <2>7, <2>9, <2>11, <2>12 DEF Sound, Covered, u
<1> QED  BY <1>2, <1>3

\* Time: what was charged leaves the windows.
LEMMA AgedSound ==
  ASSUME NEW t, Sound(t)
  PROVE  Sound(Aged(t))
<1> DEFINE u == Aged(t)
<1>1. t \in Tables
  BY DEF Sound
<1>2. ASSUME NEW x \in ResIds
      PROVE  /\ u.res[x] \in ResRow
             /\ u.res[x].amount = t.res[x].amount /\ u.res[x].charged = t.res[x].charged
             /\ u.res[x].status = t.res[x].status
             /\ u.res[x].age \in Nat /\ t.res[x].age \in Nat /\ t.res[x].age =< u.res[x].age
  <2> DEFINE ttl == Positive(t.res[x].ttl - 1)
             age == IF t.res[x].status = "committed" /\ t.res[x].age < MaxDuration THEN t.res[x].age + 1
                    ELSE t.res[x].age
  <2>1. t.res[x] \in ResRow /\ ReservationTtl \in Nat /\ MaxDuration \in Nat
    BY <1>1, BudgetAssumption DEF Tables
  <2>2. u.res[x] = [t.res[x] EXCEPT !.ttl = ttl, !.age = age]
    BY <1>1 DEF Aged, Tables
  <2>3. ttl \in 0 .. ReservationTtl /\ age \in 0 .. MaxDuration /\ t.res[x].age =< age /\ t.res[x].age \in Nat
    BY <2>1 DEF ResRow, Positive
  <2> HIDE DEF ttl, age, u
  <2>4. /\ u.res[x] \in ResRow /\ u.res[x].age = age
        /\ u.res[x].amount = t.res[x].amount /\ u.res[x].charged = t.res[x].charged
        /\ u.res[x].status = t.res[x].status
    BY <2>1, <2>2, <2>3 DEF ResRow
  <2> QED  BY <2>1, <2>3, <2>4
<1>3. u \in Tables /\ u.reserved = t.reserved /\ u.spent = t.spent
  <2>1. u = [t EXCEPT !.res = u.res] /\ u.res = [x \in ResIds |-> u.res[x]]
    BY <1>1 DEF Aged, Tables
  <2> HIDE DEF u
  <2>2. u.res \in [ResIds -> ResRow]
    BY <1>2, <2>1
  <2> QED  BY <1>1, <2>1, <2>2 DEF Tables
<1> HIDE DEF u
<1>4. /\ Sizes(u) = Sizes(t) /\ Over(u) = Over(t) /\ Charges(u) = Charges(t)
      /\ Active(u) = Active(t) /\ Committed(u) = Committed(t)
  BY <1>2 DEF Sizes, Over, Charges, Active, Committed
<1>5. Balanced(u) /\ OverSum(u) = OverSum(t) /\ OverSum(t) \in Nat
  BY <1>1, <1>3, <1>4, SumsNat DEF Sound, Balanced, OverSum, Committed
<1>6. ASSUME NEW w \in Windows PROVE Total(Charges(u), Recent(u, w)) + u.reserved =< w.ceiling + OverSum(u)
  <2>0. w.duration \in Nat
    BY BudgetAssumption
  <2>1. Recent(u, w) \in SUBSET Recent(t, w) /\ Recent(t, w) \in SUBSET ResIds
    BY <1>2, <1>4, <2>0 DEF Recent, Committed
  <2>2. Total(Charges(t), Recent(u, w)) =< Total(Charges(t), Recent(t, w))
    BY <1>1, <2>1, TotalPart, SumsNat
  <2>3. /\ Total(Charges(t), Recent(t, w)) \in Nat /\ w.ceiling \in Nat /\ t.reserved \in Nat
        /\ Total(Charges(t), Recent(u, w)) \in Nat
    BY <1>1, <2>1, SumsNat, BudgetAssumption DEF Tables
  <2>4. Total(Charges(t), Recent(t, w)) + t.reserved =< w.ceiling + OverSum(t)
    BY DEF Sound, Covered
  <2> QED  BY <1>3, <1>4, <1>5, <2>2, <2>3, <2>4
<1> QED  BY <1>3, <1>4, <1>5, <1>6 DEF Sound, Covered, u

-----------------------------------------------------------------------------
\* A method writes one row.

\* What a row adds to the balance.
Portion(row) == IF row.status = "active" THEN row.amount ELSE 0

\* The sum of the active reservations when one row has changed.
LEMMA ActiveMoved ==
  ASSUME NEW t \in Tables, NEW u \in Tables, NEW x \in ResIds, \A y \in ResIds \ {x} : u.res[y] = t.res[y]
  PROVE  /\ Total(Sizes(u), Active(u)) = Total(Sizes(t), Active(t)) - Portion(t.res[x]) + Portion(u.res[x])
         /\ Total(Sizes(t), Active(t)) - Portion(t.res[x]) \in Nat
         /\ Portion(t.res[x]) \in Nat /\ Portion(u.res[x]) \in Nat
<1> DEFINE Rest(v) == Active(v) \ {x}
<1>1. ASSUME NEW v \in Tables
      PROVE  /\ Total(Sizes(v), Active(v)) = Portion(v.res[x]) + Total(Sizes(v), Rest(v))
             /\ Total(Sizes(v), Rest(v)) \in Nat /\ Portion(v.res[x]) \in Nat
  <2>1. Active(v) \in SUBSET ResIds /\ Rest(v) \in SUBSET ResIds
    BY DEF Active
  <2>2. /\ IsFiniteSet(Active(v)) /\ \A y \in Active(v) : Sizes(v)[y] \in Int
        /\ Total(Sizes(v), Rest(v)) \in Nat
    BY <2>1, SumsNat
  <2>3. Sizes(v)[x] = v.res[x].amount /\ Sizes(v)[x] \in Nat
    BY SumsNat DEF Sizes
  <2>4. CASE x \in Active(v)
    <3>1. Total(Sizes(v), Active(v)) = Sizes(v)[x] + Total(Sizes(v), Rest(v))
      BY <2>2, <2>4, TotalTake
    <3>2. Portion(v.res[x]) = Sizes(v)[x]
      BY <2>3, <2>4 DEF Portion, Active
    <3> HIDE DEF Rest
    <3> QED  BY <2>2, <2>3, <3>1, <3>2
  <2>5. CASE x \notin Active(v)
    <3>1. Rest(v) = Active(v) /\ Portion(v.res[x]) = 0
      BY <2>5 DEF Active, Portion
    <3> HIDE DEF Rest
    <3> QED  BY <2>2, <3>1
  <2> QED  BY <2>4, <2>5
<1>2. Rest(u) = Rest(t)
  BY DEF Active
<1>3. Total(Sizes(u), Rest(t)) = Total(Sizes(t), Rest(t))
  <2>1. Rest(t) \in SUBSET ResIds /\ \A y \in Rest(t) : Sizes(u)[y] = Sizes(t)[y]
    BY DEF Active, Sizes
  <2>2. IsFiniteSet(Rest(t)) /\ \A y \in Rest(t) : Sizes(t)[y] \in Int
    BY <2>1, SumsNat
  <2> HIDE DEF Rest
  <2> QED  BY <2>1, <2>2, TotalSame
<1> HIDE DEF Rest
<1> QED  BY <1>1, <1>2, <1>3

\* The charges when a row that is not committed has become another that is not.
LEMMA ChargesKept ==
  ASSUME NEW t \in Tables, NEW u \in Tables, NEW x \in ResIds, \A y \in ResIds \ {x} : u.res[y] = t.res[y],
         t.res[x].status # "committed", u.res[x].status # "committed"
  PROVE  /\ OverSum(u) = OverSum(t)
         /\ \A w \in Windows : Total(Charges(u), Recent(u, w)) = Total(Charges(t), Recent(t, w))
<1>1. /\ Committed(u) = Committed(t) /\ \A w \in Windows : Recent(u, w) = Recent(t, w)
      /\ x \notin Committed(t)
  BY DEF Committed, Recent
<1>2. \A y \in Committed(t) : Over(u)[y] = Over(t)[y] /\ Charges(u)[y] = Charges(t)[y]
  BY <1>1 DEF Committed, Over, Charges
<1>3. OverSum(u) = OverSum(t)
  <2>1. IsFiniteSet(Committed(t)) /\ \A y \in Committed(t) : Over(t)[y] \in Int
    BY SumsNat DEF Committed
  <2> QED  BY <1>1, <1>2, <2>1, TotalSame DEF OverSum
<1>4. ASSUME NEW w \in Windows PROVE Total(Charges(u), Recent(u, w)) = Total(Charges(t), Recent(t, w))
  <2>1. Recent(t, w) \in SUBSET Committed(t) /\ Recent(t, w) \in SUBSET ResIds
    BY DEF Recent, Committed
  <2>2. /\ IsFiniteSet(Recent(t, w))
        /\ \A y \in Recent(t, w) : Charges(t)[y] \in Int /\ Charges(t)[y] = Charges(u)[y]
    BY <1>2, <2>1, SumsNat
  <2> HIDE DEF Recent
  <2> QED  BY <1>1, <2>2, TotalSame
<1> QED  BY <1>3, <1>4

\* The charges when a row has been committed.
LEMMA ChargesAdded ==
  ASSUME NEW t \in Tables, NEW u \in Tables, NEW x \in ResIds, \A y \in ResIds \ {x} : u.res[y] = t.res[y],
         t.res[x].status # "committed", u.res[x].status = "committed"
  PROVE  /\ OverSum(u) = OverSum(t) + Over(u)[x]
         /\ \A w \in Windows : Total(Charges(u), Recent(u, w)) =< Total(Charges(t), Recent(t, w)) + u.res[x].charged
<1>1. /\ Committed(u) = Committed(t) \cup {x} /\ x \notin Committed(t) /\ Committed(t) \in SUBSET ResIds
      /\ \A w \in Windows : Recent(u, w) \in {Recent(t, w), Recent(t, w) \cup {x}}
  BY DEF Committed, Recent
<1>2. \A y \in Committed(t) : Over(u)[y] = Over(t)[y] /\ Charges(u)[y] = Charges(t)[y]
  BY <1>1 DEF Committed, Over, Charges
<1>3. OverSum(u) = OverSum(t) + Over(u)[x]
  <2>1. /\ IsFiniteSet(Committed(t)) /\ \A y \in Committed(t) : Over(t)[y] \in Int
        /\ \A y \in Committed(t) \cup {x} : Over(u)[y] \in Int
    BY <1>1, SumsNat
  <2>2. Total(Over(u), Committed(t) \cup {x}) = Total(Over(u), Committed(t)) + Over(u)[x]
    BY <1>1, <2>1, TotalAdd
  <2>3. Total(Over(u), Committed(t)) = Total(Over(t), Committed(t))
    BY <1>2, <2>1, TotalSame
  <2> QED  BY <1>1, <2>2, <2>3 DEF OverSum
<1>4. ASSUME NEW w \in Windows
      PROVE  Total(Charges(u), Recent(u, w)) =< Total(Charges(t), Recent(t, w)) + u.res[x].charged
  <2> DEFINE R == Recent(t, w)
  <2>1. R \in SUBSET Committed(t) /\ R \in SUBSET ResIds /\ x \notin R
    BY <1>1 DEF Recent, Committed
  <2>2. /\ IsFiniteSet(R) /\ \A y \in R : Charges(t)[y] \in Int /\ Charges(t)[y] = Charges(u)[y]
        /\ \A y \in R \cup {x} : Charges(u)[y] \in Int
        /\ Total(Charges(t), R) \in Nat
    BY <1>2, <2>1, SumsNat
  <2>3. Charges(u)[x] = u.res[x].charged /\ Charges(u)[x] \in Nat
    BY SumsNat DEF Charges
  <2>4. Recent(u, w) \in {R, R \cup {x}}
    BY <1>1
  <2> HIDE DEF R
  <2>5. Total(Charges(u), R) = Total(Charges(t), R)
    BY <2>2, TotalSame
  <2>6. Total(Charges(u), R \cup {x}) = Total(Charges(u), R) + Charges(u)[x]
    BY <2>1, <2>2, TotalAdd, ZenonT(60)
  <2>7. Total(Charges(u), Recent(u, w)) =< Total(Charges(t), R) + u.res[x].charged
    <3>1. CASE Recent(u, w) = R
      BY <2>2, <2>3, <2>5, <3>1
    <3>2. CASE Recent(u, w) = R \cup {x}
      BY <2>2, <2>3, <2>5, <2>6, <3>2
    <3> QED  BY <2>4, <3>1, <3>2
  <2> QED  BY <2>7 DEF R
<1> QED  BY <1>3, <1>4

-----------------------------------------------------------------------------
\* The numbers of a view, for arithmetic.
LEMMA Numbers ==
  ASSUME NEW t, Sound(t)
  PROVE  /\ t \in Tables /\ t.spent \in Nat /\ t.reserved \in Nat /\ BudgetCeiling \in Nat
         /\ OverSum(t) \in Nat
         /\ t.reserved = Total(Sizes(t), Active(t))
         /\ t.spent + t.reserved =< BudgetCeiling + OverSum(t)
         /\ \A w \in Windows : /\ Total(Charges(t), Recent(t, w)) \in Nat /\ w.ceiling \in Nat
                               /\ Total(Charges(t), Recent(t, w)) + t.reserved =< w.ceiling + OverSum(t)
                               /\ WindowSpent(t, w) = Total(Charges(t), Recent(t, w))
<1>1. t \in Tables /\ t.spent \in Nat /\ t.reserved \in Nat /\ BudgetCeiling \in Nat
  BY BudgetAssumption DEF Sound, Tables
<1>2. Committed(t) \in SUBSET ResIds /\ \A w \in Windows : Recent(t, w) \in SUBSET ResIds
  BY DEF Committed, Recent
<1>3. OverSum(t) \in Nat /\ \A w \in Windows : Total(Charges(t), Recent(t, w)) \in Nat
  BY <1>1, <1>2, SumsNat DEF OverSum
<1>4. \A w \in Windows : w.ceiling \in Nat /\ WindowSpent(t, w) = Total(Charges(t), Recent(t, w))
  BY BudgetAssumption DEF WindowSpent, Charges, Recent
<1> QED  BY <1>1, <1>3, <1>4 DEF Sound, Balanced, Covered

\* The types that a method relies on.
LEMMA Basics ==
  ASSUME NEW t, Sound(t), NEW x \in ResIds
  PROVE  /\ t \in Tables /\ t.reserved \in Nat /\ t.spent \in Nat
         /\ t.res[x] \in ResRow /\ t.res[x].amount \in Nat
<1>1. t \in Tables
  BY DEF Sound
<1>2. t.res[x].amount \in Nat
  BY <1>1, SumsNat DEF Sizes
<1> QED  BY <1>1, <1>2 DEF Tables

\* A fresh row.
LEMMA Fresh ==
  ASSUME NEW n \in Amounts
  PROVE  n \in Nat /\ NewRow(n) \in ResRow /\ NewRow(n).status = "active" /\ NewRow(n).amount = n
<1>1. n \in Nat /\ ReservationTtl \in Nat /\ MaxDuration \in Nat
  BY BudgetAssumption
<1> QED  BY <1>1 DEF NewRow, ResRow

-----------------------------------------------------------------------------
\* The tables that a method leaves, given what it saw.

\* reserve: the amount fits under every ceiling.
LEMMA ReserveSound ==
  ASSUME NEW t, Sound(t), NEW x \in ResIds, NEW n \in Amounts, t.res[x].status = "none", Fits(t, n)
  PROVE  Sound([t EXCEPT !.res[x] = NewRow(n), !.reserved = t.reserved + n])
<1> DEFINE u == [t EXCEPT !.res[x] = NewRow(n), !.reserved = t.reserved + n]
<1>1. /\ t \in Tables /\ n \in Nat /\ t.reserved \in Nat /\ t.reserved + n \in Nat /\ t.spent \in Nat
      /\ NewRow(n) \in ResRow /\ NewRow(n).status = "active" /\ NewRow(n).amount = n
  BY Basics, Fresh
<1>2. u = [t EXCEPT !.res[x] = NewRow(n), !.reserved = t.reserved + n, !.spent = t.spent]
  BY <1>1 DEF Tables
<1> HIDE DEF u
<1>3. /\ u \in Tables /\ u.res[x] = NewRow(n) /\ u.reserved = t.reserved + n /\ u.spent = t.spent
      /\ \A y \in ResIds \ {x} : u.res[y] = t.res[y]
  BY <1>1, <1>2 DEF Tables
<1>4. Balanced(u)
  BY <1>1, <1>3, ActiveMoved, Numbers DEF Balanced, Portion
<1>5. /\ OverSum(u) = OverSum(t)
      /\ \A w \in Windows : Total(Charges(u), Recent(u, w)) = Total(Charges(t), Recent(t, w))
  BY <1>1, <1>3, ChargesKept
<1>6. Covered(u)
  BY <1>1, <1>3, <1>5, Numbers DEF Covered, Fits
<1> QED  BY <1>3, <1>4, <1>6 DEF Sound, u

\* commit: what the attempt cost takes the place of what was reserved for it.
LEMMA CommitSound ==
  ASSUME NEW t, Sound(t), NEW x \in ResIds, NEW n \in Amounts, t.res[x].status = "active"
  PROVE  Sound([t EXCEPT !.res[x] = [t.res[x] EXCEPT !.status = "committed", !.charged = n],
                         !.reserved = Positive(t.reserved - t.res[x].amount), !.spent = t.spent + n])
<1> DEFINE row == [t.res[x] EXCEPT !.status = "committed", !.charged = n]
           m   == Positive(t.reserved - t.res[x].amount)
           u   == [t EXCEPT !.res[x] = row, !.reserved = m, !.spent = t.spent + n]
<1>1. /\ t \in Tables /\ n \in Nat /\ t.reserved \in Nat /\ t.spent \in Nat /\ t.spent + n \in Nat
      /\ t.res[x].amount \in Nat
      /\ row \in ResRow /\ row.status = "committed" /\ row.charged = n /\ row.amount = t.res[x].amount
      /\ m \in Nat
  <2>1. /\ t \in Tables /\ n \in Nat /\ t.reserved \in Nat /\ t.spent \in Nat
        /\ t.res[x] \in ResRow /\ t.res[x].amount \in Nat
    BY Basics, Fresh
  <2>2. row \in ResRow /\ row.status = "committed" /\ row.charged = n /\ row.amount = t.res[x].amount
    BY <2>1 DEF ResRow
  <2> QED  BY <2>1, <2>2 DEF Positive
<1> HIDE DEF row, m
<1>0. u = [t EXCEPT !.res[x] = row, !.reserved = m, !.spent = t.spent + n]
  OBVIOUS
<1> HIDE DEF u
<1>2. /\ u \in Tables /\ u.res[x] = row /\ u.reserved = m /\ u.spent = t.spent + n
      /\ \A y \in ResIds \ {x} : u.res[y] = t.res[y]
  BY <1>0, <1>1 DEF Tables
<1>3. Portion(t.res[x]) = t.res[x].amount /\ Portion(u.res[x]) = 0
  BY <1>1, <1>2 DEF Portion
<1>4. t.reserved - t.res[x].amount \in Nat /\ Total(Sizes(u), Active(u)) = t.reserved - t.res[x].amount
  BY <1>1, <1>2, <1>3, ActiveMoved, Numbers
<1>5. m = t.reserved - t.res[x].amount
  BY <1>4 DEF Positive, m
<1>6. Balanced(u)
  BY <1>2, <1>4, <1>5 DEF Balanced
<1>7. /\ OverSum(u) = OverSum(t) + Over(u)[x]
      /\ \A w \in Windows : Total(Charges(u), Recent(u, w)) =< Total(Charges(t), Recent(t, w)) + n
  BY <1>1, <1>2, ChargesAdded
<1>8. Over(u)[x] \in Nat /\ n =< t.res[x].amount + Over(u)[x]
  BY <1>1, <1>2 DEF Over, Positive
<1>9. u.spent + u.reserved =< BudgetCeiling + OverSum(u)
  BY <1>1, <1>2, <1>5, <1>7, <1>8, Numbers
<1>10. ASSUME NEW w \in Windows PROVE Total(Charges(u), Recent(u, w)) + u.reserved =< w.ceiling + OverSum(u)
  <2>1. /\ Total(Charges(t), Recent(t, w)) \in Nat /\ w.ceiling \in Nat /\ OverSum(t) \in Nat
        /\ Total(Charges(t), Recent(t, w)) + t.reserved =< w.ceiling + OverSum(t)
    BY Numbers
  <2>2. Total(Charges(u), Recent(u, w)) \in Nat
    BY <1>2, SumsNat DEF Recent, Committed
  <2> QED  BY <1>1, <1>2, <1>5, <1>7, <1>8, <2>1, <2>2
<1> QED  BY <1>2, <1>6, <1>9, <1>10 DEF Sound, Covered, u, row, m

\* release gives the amount back.
LEMMA ReleaseSound ==
  ASSUME NEW t, Sound(t), NEW x \in ResIds, t.res[x].status = "active"
  PROVE  Sound([t EXCEPT !.res[x].status = "released", !.reserved = Positive(t.reserved - t.res[x].amount)])
<1> DEFINE row == [t.res[x] EXCEPT !.status = "released"]
           m   == Positive(t.reserved - t.res[x].amount)
           u   == [t EXCEPT !.res[x].status = "released", !.reserved = m]
<1>1. /\ t \in Tables /\ t.reserved \in Nat /\ t.spent \in Nat /\ t.res[x].amount \in Nat /\ t.res[x] \in ResRow
  BY Basics
<1>2. row \in ResRow /\ row.status = "released" /\ m \in Nat
  BY <1>1 DEF ResRow, Positive
<1>3. u = [t EXCEPT !.res[x] = row, !.reserved = m, !.spent = t.spent]
  BY <1>1 DEF Tables
<1> HIDE DEF row, u, m
<1>4. /\ u \in Tables /\ u.res[x] = row /\ u.reserved = m /\ u.spent = t.spent
      /\ \A y \in ResIds \ {x} : u.res[y] = t.res[y]
  BY <1>1, <1>2, <1>3 DEF Tables
<1>5. Portion(t.res[x]) = t.res[x].amount /\ Portion(u.res[x]) = 0
  BY <1>2, <1>4 DEF Portion
<1>6. t.reserved - t.res[x].amount \in Nat /\ Total(Sizes(u), Active(u)) = t.reserved - t.res[x].amount
  BY <1>1, <1>4, <1>5, ActiveMoved, Numbers
<1>7. m = t.reserved - t.res[x].amount
  BY <1>6 DEF Positive, m
<1>8. Balanced(u)
  BY <1>4, <1>6, <1>7 DEF Balanced
<1>9. /\ OverSum(u) = OverSum(t)
      /\ \A w \in Windows : Total(Charges(u), Recent(u, w)) = Total(Charges(t), Recent(t, w))
  BY <1>1, <1>2, <1>4, ChargesKept
<1>10. Covered(u)
  BY <1>1, <1>4, <1>7, <1>9, Numbers DEF Covered
<1> QED  BY <1>4, <1>8, <1>10 DEF Sound, u, m

\* upgrade: what is added fits under every ceiling.
LEMMA UpgradeSound ==
  ASSUME NEW t, Sound(t), NEW x \in ResIds, NEW n \in Amounts, t.res[x].status = "active",
         n > t.res[x].amount => Fits(t, n - t.res[x].amount)
  PROVE  Sound([t EXCEPT !.res[x].amount = n, !.reserved = Positive(t.reserved + n - t.res[x].amount)])
<1> DEFINE row == [t.res[x] EXCEPT !.amount = n]
           m   == Positive(t.reserved + n - t.res[x].amount)
           u   == [t EXCEPT !.res[x].amount = n, !.reserved = m]
<1>1. /\ t \in Tables /\ t.reserved \in Nat /\ t.spent \in Nat /\ t.res[x].amount \in Nat /\ n \in Nat
      /\ row \in ResRow /\ row.status = "active" /\ row.amount = n /\ m \in Nat
  <2>1. /\ t \in Tables /\ n \in Nat /\ t.reserved \in Nat /\ t.spent \in Nat
        /\ t.res[x] \in ResRow /\ t.res[x].amount \in Nat
    BY Basics, Fresh
  <2>2. row \in ResRow /\ row.status = "active" /\ row.amount = n
    BY <2>1 DEF ResRow
  <2> QED  BY <2>1, <2>2 DEF Positive
<1>2. u = [t EXCEPT !.res[x] = row, !.reserved = m, !.spent = t.spent]
  BY <1>1 DEF Tables
<1> HIDE DEF row, u, m
<1>3. /\ u \in Tables /\ u.res[x] = row /\ u.reserved = m /\ u.spent = t.spent
      /\ \A y \in ResIds \ {x} : u.res[y] = t.res[y]
  BY <1>1, <1>2 DEF Tables
<1>4. Portion(t.res[x]) = t.res[x].amount /\ Portion(u.res[x]) = n
  BY <1>1, <1>3 DEF Portion
<1>5. t.reserved - t.res[x].amount \in Nat /\ Total(Sizes(u), Active(u)) = t.reserved - t.res[x].amount + n
  BY <1>1, <1>3, <1>4, ActiveMoved, Numbers
<1>6. m = t.reserved - t.res[x].amount + n
  BY <1>1, <1>5 DEF Positive, m
<1>7. Balanced(u)
  BY <1>3, <1>5, <1>6 DEF Balanced
<1>8. /\ OverSum(u) = OverSum(t)
      /\ \A w \in Windows : Total(Charges(u), Recent(u, w)) = Total(Charges(t), Recent(t, w))
  BY <1>1, <1>3, ChargesKept
<1>9. Covered(u)
  <2>1. CASE n > t.res[x].amount
    BY <1>1, <1>3, <1>6, <1>8, <2>1, Numbers DEF Covered, Fits
  <2>2. CASE n =< t.res[x].amount
    BY <1>1, <1>3, <1>6, <1>8, <2>2, Numbers DEF Covered
  <2> QED  BY <1>1, <2>1, <2>2
<1> QED  BY <1>3, <1>7, <1>9 DEF Sound, u, m

\* What a prepared method writes over what it saw is sound.
LEMMA SettledSound ==
  ASSUME NEW p \in Processes, Ready(call[p], View(p)), Sound(View(p))
  PROVE  Sound(Settled(View(p), call[p])) /\ ~ Duplicate(p)
<1> DEFINE t == View(p)
           c == call[p]
           x == c.res
           n == c.n
<1>1. c.seen = t /\ x \in ResIds
  BY DEF Ready
<1>2. CASE /\ c.op = "reserve" /\ n \in Amounts /\ t.res[x].status = "none" /\ Fits(t, n)
  BY <1>1, <1>2, ReserveSound DEF Settled, Duplicate
<1>3. CASE /\ c.op = "commit" /\ n \in Amounts /\ t.res[x].status = "active"
  BY <1>1, <1>3, CommitSound DEF Settled, Duplicate
<1>4. CASE /\ c.op = "release" /\ t.res[x].status = "active"
  BY <1>1, <1>4, ReleaseSound DEF Settled, Duplicate
<1>5. CASE /\ c.op = "upgrade" /\ n \in Amounts /\ t.res[x].status = "active"
           /\ n > t.res[x].amount => Fits(t, n - t.res[x].amount)
  BY <1>1, <1>5, UpgradeSound DEF Settled, Duplicate
<1> QED  BY <1>1, <1>2, <1>3, <1>4, <1>5 DEF Ready

-----------------------------------------------------------------------------
\* The steps.

\* Both views are sound, whoever has the transaction open.
LEMMA ViewSound ==
  ASSUME BudgetInv, NEW p \in Processes
  PROVE  Sound(View(p)) /\ Sound(ExpiredTables(View(p)))
<1>1. Sound(View(p))
  BY DEF BudgetInv, View
<1> QED  BY <1>1, ExpirySound

\* The invariant, of the next state.
LEMMA NextInv ==
  ASSUME Sound(store'), Sound(pending'), call' = [p \in Processes |-> call'[p]],
         \A p \in Processes : call'[p] = Idle \/ Ready(call'[p], View(p)')
  PROVE  BudgetInv'
BY DEF BudgetInv, Sound, Balanced, Covered, OverSum, Committed, Recent, Charges, Sizes, Over, Active, Tables,
       Ready, Fits, WindowSpent

\* A step after which the one process is idle.
LEMMA IdleAfter ==
  ASSUME OneProcess, BudgetInv, NEW p \in Processes, Sound(store'), Sound(pending'),
         call' = [call EXCEPT ![p] = Idle] \/ (call' = call /\ call[p] = Idle)
  PROVE  BudgetInv'
<1>1. call' = [q \in Processes |-> call'[q]]
  BY DEF BudgetInv
<1>2. \A q \in Processes : call'[q] = Idle
  BY DEF BudgetInv, OneProcess
<1> QED  BY <1>1, <1>2, NextInv

\* A step after which it has read what it is to write over.
LEMMA ReadyAfter ==
  ASSUME OneProcess, BudgetInv, NEW p \in Processes, Sound(store'), Sound(pending'),
         NEW op, NEW x, NEW n, NEW seen, Called(p, op, x, n, seen),
         Ready([op |-> op, res |-> x, n |-> n, seen |-> seen], View(p)')
  PROVE  BudgetInv'
<1> DEFINE c == [op |-> op, res |-> x, n |-> n, seen |-> seen]
<1>1. call' = [q \in Processes |-> call'[q]] /\ call'[p] = c
  BY DEF BudgetInv, Called
<1> HIDE DEF c
<1>2. Ready(call'[p], View(p)')
  BY <1>1 DEF c
<1>3. \A q \in Processes : Ready(call'[q], View(q)')
  BY <1>2 DEF OneProcess
<1> QED  BY <1>1, <1>3, NextInv

\* The reads of reserve leave the view that they saw.
LEMMA ReserveReady ==
  ASSUME OneProcess, BudgetInv, NEW p \in Processes, NEW x \in ResIds, NEW n \in Amounts, ReserveReads(p, x, n)
  PROVE  BudgetInv'
<1> DEFINE t == ExpiredTables(View(p))
<1>1. /\ Called(p, "reserve", x, n, t) /\ store' = store
      /\ View(p).res[x].status = "none" /\ Fits(t, n)
      /\ IF Stale(View(p)) = {} THEN UNCHANGED <<pending, writer>> ELSE pending' = t /\ writer' = p
  BY DEF ReserveReads
<1>2. View(p)' = t
  BY <1>1 DEF View, ExpiredTables
<1>3. t.res[x].status = "none"
  <2>1. Sound(View(p)) /\ x \notin Stale(View(p))
    BY <1>1, ViewSound DEF Stale, Active
  <2> QED  BY <1>1, <2>1 DEF ExpiredTables, Sound, Tables
<1>4. Sound(store') /\ Sound(pending')
  BY <1>1, ViewSound DEF BudgetInv
<1> HIDE DEF t
<1>5. Ready([op |-> "reserve", res |-> x, n |-> n, seen |-> t], t)
  BY <1>1, <1>3 DEF Ready
<1> QED  BY <1>1, <1>2, <1>4, <1>5, ReadyAfter

\* The reads of the others open no transaction.
LEMMA OthersReady ==
  ASSUME OneProcess, BudgetInv, NEW p \in Processes, UNCHANGED <<store, pending, writer>>,
         NEW op, NEW x, NEW n, Called(p, op, x, n, View(p)),
         Ready([op |-> op, res |-> x, n |-> n, seen |-> View(p)], View(p))
  PROVE  BudgetInv'
<1>1. View(p)' = View(p) /\ Sound(store') /\ Sound(pending')
  BY DEF View, BudgetInv
<1> QED  BY <1>1, ReadyAfter

\* release, commit and upgrade find an active reservation.
LEMMA SettlersReady ==
  ASSUME OneProcess, BudgetInv, NEW p \in Processes, NEW x \in ResIds
  PROVE  /\ ReleaseReads(p, x) => BudgetInv'
         /\ \A n \in Amounts : CommitReads(p, x, n) \/ UpgradeReads(p, x, n) => BudgetInv'
<1> DEFINE v == View(p)
<1>1. ASSUME v.res[x].status = "active"
      PROVE  /\ Ready([op |-> "release", res |-> x, n |-> 0, seen |-> v], v)
             /\ \A n \in Amounts :
                  /\ Ready([op |-> "commit", res |-> x, n |-> n, seen |-> v], v)
                  /\ (n > v.res[x].amount => Fits(v, n - v.res[x].amount))
                       => Ready([op |-> "upgrade", res |-> x, n |-> n, seen |-> v], v)
  BY <1>1 DEF Ready
<1>2. CASE ReleaseReads(p, x)
  BY <1>1, <1>2, OthersReady DEF ReleaseReads
<1>3. ASSUME NEW n \in Amounts, CommitReads(p, x, n) PROVE BudgetInv'
  BY <1>1, <1>3, OthersReady DEF CommitReads
<1>4. ASSUME NEW n \in Amounts, UpgradeReads(p, x, n) PROVE BudgetInv'
  BY <1>1, <1>4, OthersReady DEF UpgradeReads
<1> QED  BY <1>2, <1>3, <1>4

\* Every step keeps the invariant.
LEMMA BudgetStep ==
  ASSUME OneProcess, BudgetInv, [BudgetNext]_budgetVars
  PROVE  BudgetInv'
<1>1. ASSUME NEW p \in Processes, GetBudget(p) PROVE BudgetInv'
  BY <1>1, ViewSound, IdleAfter DEF GetBudget, BudgetInv
<1>2. ASSUME NEW p \in Processes, ExpireStale(p) PROVE BudgetInv'
  <2>1. store' = ExpiredTables(View(p)) /\ pending' = store' /\ call' = call /\ call[p] = Idle
    BY <1>2 DEF ExpireStale, Commits
  <2>2. Sound(store') /\ Sound(pending')
    BY <2>1, ViewSound
  <2> QED  BY <2>1, <2>2, IdleAfter
<1>3. ASSUME NEW p \in Processes, RollBack(p) PROVE BudgetInv'
  BY <1>3, IdleAfter DEF RollBack, BudgetInv
<1>4. ASSUME NEW p \in Processes, Writes(p) PROVE BudgetInv'
  <2>1. Ready(call[p], View(p)) /\ Sound(View(p))
    BY <1>4, ViewSound DEF Writes, BudgetInv
  <2>2. Sound(Settled(View(p), call[p])) /\ ~ Duplicate(p)
    BY <2>1, SettledSound
  <2>3. store' = Settled(View(p), call[p]) /\ pending' = store' /\ call' = [call EXCEPT ![p] = Idle]
    BY <1>4, <2>2 DEF Writes, Commits
  <2>4. Sound(store') /\ Sound(pending')
    BY <2>2, <2>3
  <2> QED  BY <2>3, <2>4, IdleAfter
<1>5. ASSUME NEW p \in Processes, NEW x \in ResIds, ReleaseReads(p, x) PROVE BudgetInv'
  BY <1>5, SettlersReady
<1>6. ASSUME NEW p \in Processes, NEW x \in ResIds, NEW n \in Amounts,
             ReserveReads(p, x, n) \/ CommitReads(p, x, n) \/ UpgradeReads(p, x, n)
      PROVE  BudgetInv'
  BY <1>6, ReserveReady, SettlersReady
<1>7. CASE BudgetTick
  <2>1. Sound(store') /\ Sound(pending')
    BY <1>7, AgedSound DEF BudgetTick, BudgetInv
  <2>2. call' = call /\ \A p \in Processes : call[p] = Idle
    BY <1>7 DEF BudgetTick
  <2> QED  BY <2>1, <2>2, NextInv DEF BudgetInv
<1>8. CASE UNCHANGED budgetVars
  <2>1. \A p \in Processes : View(p)' = View(p)
    BY <1>8 DEF budgetVars, View
  <2> QED  BY <1>8, <2>1, NextInv DEF budgetVars, BudgetInv
<1> QED  BY <1>1, <1>2, <1>3, <1>4, <1>5, <1>6, <1>7, <1>8 DEF BudgetNext

\* Empty tables are sound.
LEMMA BudgetStart ==
  ASSUME BudgetInit
  PROVE  BudgetInv
<1> DEFINE t == EmptyTables
<1>1. /\ t \in Tables /\ t.reserved = 0 /\ t.spent = 0
      /\ \A x \in ResIds : t.res[x].status = "none"
  <2> DEFINE row == [NewRow(0) EXCEPT !.status = "none", !.ttl = 0]
  <2>1. row \in ResRow /\ row.status = "none"
    <3>1. 0 \in 0 .. ReservationTtl /\ 0 \in 0 .. MaxDuration /\ ReservationTtl \in 0 .. ReservationTtl
      BY BudgetAssumption
    <3> QED  BY <3>1 DEF NewRow, ResRow
  <2> HIDE DEF row
  <2>2. t = [res |-> [x \in ResIds |-> row], reserved |-> 0, spent |-> 0]
    BY DEF EmptyTables, row
  <2> QED  BY <2>1, <2>2 DEF Tables
<1> HIDE DEF t
<1>2. Active(t) = {} /\ Committed(t) = {} /\ \A w \in Windows : Recent(t, w) = {}
  BY <1>1 DEF Active, Committed, Recent
<1>3. /\ Total(Sizes(t), Active(t)) = 0 /\ OverSum(t) = 0
      /\ \A w \in Windows : Total(Charges(t), Recent(t, w)) = 0
  BY <1>2, TotalEmpty DEF OverSum
<1>4. BudgetCeiling \in Nat /\ \A w \in Windows : w.ceiling \in Nat
  BY BudgetAssumption
<1>5. Sound(t)
  BY <1>1, <1>3, <1>4 DEF Sound, Balanced, Covered
<1> QED  BY <1>5 DEF BudgetInit, BudgetInv, t

\* Both views of the tables are sound in every reachable state.
LEMMA BudgetInvariance ==
  ASSUME OneProcess
  PROVE  BudgetSpec => []BudgetInv
<1>1. BudgetInit => BudgetInv
  BY BudgetStart
<1>2. BudgetInv /\ [BudgetNext]_budgetVars => BudgetInv'
  BY BudgetStep
<1> QED  BY <1>1, <1>2, PTL DEF BudgetSpec

\* The balance is the sum of the active reservations, whatever commits, releases,
\* upgrades and expires.
THEOREM BalanceKept ==
  ASSUME OneProcess
  PROVE  BudgetSpec => []BalanceBacked
<1>1. BudgetInv => BalanceBacked
  BY DEF BudgetInv, Sound, Balanced, BalanceBacked, ActiveSum, Sizes
<1> QED  BY <1>1, BudgetInvariance, PTL

\* What was spent and reserved passes no ceiling by more than what attempts cost over
\* the amount reserved for them.
THEOREM CeilingsKept ==
  ASSUME OneProcess
  PROVE  BudgetSpec => []CeilingsHold
<1>1. BudgetInv => CeilingsHold
  BY DEF BudgetInv, Sound, Covered, CeilingsHold, OverSum, Over, Overrun, WindowSpent, Charges, Recent
<1> QED  BY <1>1, BudgetInvariance, PTL

-----------------------------------------------------------------------------
\* The attempts limit.

\* What reserve keeps of one view of the tables.
Limited(t) ==
  /\ Cardinality(Active(t)) =< ConcurrencyLimit
  /\ Cardinality(Active(t)) + Cardinality(Committed(t)) =< BudgetAttempts + ConcurrencyLimit - 1

AttemptsInv ==
  /\ Limited(store) /\ Limited(pending)
  /\ \A p \in Processes : call[p] # Idle /\ call[p].op = "reserve" => Room(View(p))

\* Counts of reservations.
LEMMA Counts ==
  ASSUME NEW t
  PROVE  /\ IsFiniteSet(Active(t)) /\ IsFiniteSet(Committed(t))
         /\ Cardinality(Active(t)) \in Nat /\ Cardinality(Committed(t)) \in Nat
         /\ BudgetAttempts \in Nat /\ ConcurrencyLimit \in Nat /\ ConcurrencyLimit > 0
<1>1. Active(t) \in SUBSET ResIds /\ Committed(t) \in SUBSET ResIds
  BY DEF Active, Committed
<1>2. IsFiniteSet(Active(t)) /\ IsFiniteSet(Committed(t))
  BY <1>1, FS_Subset, BudgetAssumption
<1> QED  BY <1>2, FS_CardinalityType, BudgetAssumption

\* Fewer active reservations, and none more committed.
LEMMA LimitedFewer ==
  ASSUME NEW t, NEW u, Limited(t), Active(u) \in SUBSET Active(t), Committed(u) = Committed(t)
  PROVE  Limited(u)
<1>1. Cardinality(Active(u)) =< Cardinality(Active(t))
  BY Counts, FS_Subset
<1> QED  BY <1>1, Counts DEF Limited

\* A new reservation, where there was room for it.
LEMMA LimitedReserve ==
  ASSUME NEW t, NEW u, NEW x, Room(t), Active(u) \in SUBSET (Active(t) \cup {x}), Committed(u) = Committed(t)
  PROVE  Limited(u)
<1>1. IsFiniteSet(Active(t) \cup {x}) /\ Cardinality(Active(t) \cup {x}) =< Cardinality(Active(t)) + 1
  <2>1. /\ IsFiniteSet(Active(t) \cup {x})
        /\ Cardinality(Active(t) \cup {x}) = IF x \in Active(t) THEN Cardinality(Active(t)) ELSE Cardinality(Active(t)) + 1
    BY Counts, FS_AddElement
  <2> QED  BY <2>1, Counts
<1>2. Cardinality(Active(t) \cup {x}) \in Nat /\ Cardinality(Active(u)) =< Cardinality(Active(t) \cup {x})
  BY <1>1, FS_Subset, FS_CardinalityType
<1> QED  BY <1>1, <1>2, Counts DEF Limited, Room

\* A committed reservation is active no more.
LEMMA LimitedCommit ==
  ASSUME NEW t, NEW u, NEW x \in Active(t), Limited(t),
         Active(u) = Active(t) \ {x}, Committed(u) = Committed(t) \cup {x}
  PROVE  Limited(u)
<1>1. Cardinality(Active(u)) = Cardinality(Active(t)) - 1
  BY Counts, FS_RemoveElement, ZenonT(60)
<1>2. Cardinality(Committed(u)) = Cardinality(Committed(t)) + 1
  <2>1. x \notin Committed(t)
    BY DEF Active, Committed
  <2> QED  BY <2>1, Counts, FS_AddElement
<1> QED  BY <1>1, <1>2, Counts DEF Limited

-----------------------------------------------------------------------------
\* Expiry and time.
LEMMA ExpiryLimited ==
  ASSUME NEW t \in Tables
  PROVE  /\ Active(ExpiredTables(t)) \in SUBSET Active(t) /\ Committed(ExpiredTables(t)) = Committed(t)
         /\ Limited(t) => Limited(ExpiredTables(t))
<1> DEFINE u == ExpiredTables(t)
<1>1. Active(u) \in SUBSET Active(t) /\ Committed(u) = Committed(t)
  <2>1. CASE Stale(t) = {}
    BY <2>1 DEF ExpiredTables
  <2>2. CASE Stale(t) # {}
    <3>1. ASSUME NEW x \in ResIds
          PROVE  u.res[x] = IF x \in Stale(t) THEN [t.res[x] EXCEPT !.status = "expired"] ELSE t.res[x]
      BY <2>2 DEF ExpiredTables, Tables
    <3>2. ASSUME NEW x \in ResIds
          PROVE  /\ u.res[x].status = "active" => t.res[x].status = "active"
                 /\ u.res[x].status = "committed" <=> t.res[x].status = "committed"
      <4>1. t.res[x] \in ResRow /\ (x \in Stale(t) => t.res[x].status = "active")
        BY DEF Tables, Stale, Active
      <4> HIDE DEF u
      <4> QED  BY <3>1, <4>1 DEF ResRow
    <3> HIDE DEF u
    <3> QED  BY <3>2 DEF Active, Committed
  <2> QED  BY <2>1, <2>2
<1>2. Limited(t) => Limited(u)
  BY <1>1, LimitedFewer
<1> QED  BY <1>1, <1>2

LEMMA AgedLimited ==
  ASSUME NEW t \in Tables, Limited(t)
  PROVE  Limited(Aged(t))
<1> DEFINE u == Aged(t)
<1>1. ASSUME NEW x \in ResIds PROVE u.res[x].status = t.res[x].status
  <2>1. PICK ttl, age : u.res[x] = [t.res[x] EXCEPT !.ttl = ttl, !.age = age]
    BY DEF Aged, Tables
  <2> HIDE DEF u
  <2> QED  BY <2>1 DEF Tables, ResRow
<1> HIDE DEF u
<1>2. Active(u) = Active(t) /\ Committed(u) = Committed(t)
  BY <1>1 DEF Active, Committed
<1>3. Limited(u)
  BY <1>2 DEF Limited
<1> QED  BY <1>3 DEF u

\* What a method writes over what it saw.
LEMMA SettledLimited ==
  ASSUME NEW p \in Processes, Ready(call[p], View(p)), View(p) \in Tables, Limited(View(p)),
         call[p].op = "reserve" => Room(View(p))
  PROVE  Limited(Settled(View(p), call[p]))
<1> DEFINE t == View(p)
           c == call[p]
           x == c.res
           n == c.n
           u == Settled(t, c)
<1>1. x \in ResIds /\ t.res \in [ResIds -> ResRow] /\ c.op \in {"reserve", "commit", "release", "upgrade"}
  BY DEF Ready, Tables
<1>2. ASSUME \A y \in ResIds \ {x} : u.res[y] = t.res[y],
             \/ u.res[x].status = "active" /\ t.res[x].status = "active"
             \/ u.res[x].status = "active" /\ t.res[x].status = "none" /\ Room(t)
             \/ u.res[x].status \in {"committed", "released"} /\ t.res[x].status = "active"
      PROVE  Limited(u)
  <2> HIDE DEF c, x, n, u
  <2>1. CASE u.res[x].status = "active" /\ t.res[x].status = "active"
    <3>1. Active(u) = Active(t) /\ Committed(u) = Committed(t)
      BY <1>1, <1>2, <2>1 DEF Active, Committed
    <3> QED  BY <3>1 DEF Limited
  <2>2. CASE u.res[x].status = "active" /\ t.res[x].status = "none" /\ Room(t)
    <3>1. Active(u) \in SUBSET (Active(t) \cup {x}) /\ Committed(u) = Committed(t)
      BY <1>1, <1>2, <2>2 DEF Active, Committed
    <3> QED  BY <2>2, <3>1, LimitedReserve
  <2>3. CASE u.res[x].status = "committed" /\ t.res[x].status = "active"
    <3>1. x \in Active(t) /\ Active(u) = Active(t) \ {x} /\ Committed(u) = Committed(t) \cup {x}
      BY <1>1, <1>2, <2>3 DEF Active, Committed
    <3> QED  BY <3>1, LimitedCommit
  <2>4. CASE u.res[x].status = "released" /\ t.res[x].status = "active"
    <3>1. Active(u) \in SUBSET Active(t) /\ Committed(u) = Committed(t)
      BY <1>1, <1>2, <2>4 DEF Active, Committed
    <3> QED  BY <3>1, LimitedFewer
  <2> QED  BY <1>2, <2>1, <2>2, <2>3, <2>4
<1>3. ASSUME c.op = "reserve"
      PROVE  /\ \A y \in ResIds \ {x} : u.res[y] = t.res[y]
             /\ u.res[x].status = "active" /\ t.res[x].status = "none" /\ Room(t)
  BY <1>1, <1>3 DEF Settled, Tables, NewRow, Ready
<1>4. ASSUME c.op = "commit"
      PROVE  /\ \A y \in ResIds \ {x} : u.res[y] = t.res[y]
             /\ u.res[x].status = "committed" /\ t.res[x].status = "active"
  BY <1>1, <1>4, ZenonT(60) DEF Settled, Tables, ResRow, Ready
<1>5. ASSUME c.op = "release"
      PROVE  /\ \A y \in ResIds \ {x} : u.res[y] = t.res[y]
             /\ u.res[x].status = "released" /\ t.res[x].status = "active"
  BY <1>1, <1>5 DEF Settled, Tables, ResRow, Ready
<1>6. ASSUME c.op = "upgrade"
      PROVE  /\ \A y \in ResIds \ {x} : u.res[y] = t.res[y]
             /\ u.res[x].status = "active" /\ t.res[x].status = "active"
  BY <1>1, <1>6, ZenonT(60) DEF Settled, Tables, ResRow, Ready
<1> HIDE DEF t, c, x, n, u
<1>7. Limited(u)
  BY <1>1, <1>2, <1>3, <1>4, <1>5, <1>6
<1> QED  BY <1>7 DEF u, t, c

-----------------------------------------------------------------------------
\* The steps.

\* The invariant, of the next state.
LEMMA NextLimited ==
  ASSUME Limited(store'), Limited(pending'),
         \A p \in Processes : call'[p] # Idle /\ call'[p].op = "reserve" => Room(View(p)')
  PROVE  AttemptsInv'
BY DEF AttemptsInv, Limited, Active, Committed, Room

\* Every step keeps the limits: what a process that is about to reserve saw is what it
\* writes over.
LEMMA AttemptsStep ==
  ASSUME OneProcess, BudgetInv, AttemptsInv, [BudgetNext]_budgetVars
  PROVE  AttemptsInv'
<1>1. /\ call = [p \in Processes |-> call[p]]
      /\ store \in Tables /\ pending \in Tables /\ Limited(store) /\ Limited(pending)
  BY DEF BudgetInv, Sound, AttemptsInv
<1>2. ASSUME NEW p \in Processes
      PROVE  /\ View(p) \in Tables /\ Limited(View(p)) /\ Limited(ExpiredTables(View(p)))
             /\ call[p] # Idle /\ call[p].op = "reserve" => Room(View(p))
  BY <1>1, ExpiryLimited DEF View, AttemptsInv
<1>3. ASSUME NEW p \in Processes, Limited(store'), Limited(pending'),
             call' = [call EXCEPT ![p] = Idle] \/ (call' = call /\ call[p] = Idle)
      PROVE  AttemptsInv'
  <2>1. \A q \in Processes : call'[q] = Idle
    BY <1>1, <1>3 DEF OneProcess
  <2> QED  BY <1>3, <2>1, NextLimited
<1>4. ASSUME NEW p \in Processes, NEW op, op # "reserve", NEW x, NEW n, NEW seen,
             Called(p, op, x, n, seen), UNCHANGED <<store, pending, writer>>
      PROVE  AttemptsInv'
  <2>1. call'[p] = [op |-> op, res |-> x, n |-> n, seen |-> seen]
    BY <1>1, <1>4 DEF Called
  <2>2. call'[p].op # "reserve"
    BY <1>4, <2>1
  <2>3. \A q \in Processes : call'[q].op # "reserve"
    BY <2>2 DEF OneProcess
  <2> QED  BY <1>1, <1>4, <2>3, NextLimited
<1>5. ASSUME NEW p \in Processes, GetBudget(p) PROVE AttemptsInv'
  BY <1>1, <1>2, <1>3, <1>5 DEF GetBudget
<1>6. ASSUME NEW p \in Processes, ExpireStale(p) PROVE AttemptsInv'
  <2>1. store' = ExpiredTables(View(p)) /\ pending' = store' /\ call' = call /\ call[p] = Idle
    BY <1>6 DEF ExpireStale, Commits
  <2>2. Limited(store') /\ Limited(pending')
    BY <1>2, <2>1
  <2> QED  BY <1>3, <2>1, <2>2
<1>7. ASSUME NEW p \in Processes, RollBack(p) PROVE AttemptsInv'
  BY <1>1, <1>3, <1>7 DEF RollBack
<1>8. ASSUME NEW p \in Processes, Writes(p) PROVE AttemptsInv'
  <2>1. Ready(call[p], View(p)) /\ call[p] # Idle /\ Sound(View(p))
    BY <1>8, ViewSound DEF Writes, BudgetInv
  <2>2. Limited(Settled(View(p), call[p])) /\ ~ Duplicate(p)
    BY <1>2, <2>1, SettledLimited, SettledSound
  <2>3. store' = Settled(View(p), call[p]) /\ pending' = store' /\ call' = [call EXCEPT ![p] = Idle]
    BY <1>8, <2>2 DEF Writes, Commits
  <2>4. Limited(store') /\ Limited(pending')
    BY <2>2, <2>3
  <2> QED  BY <1>3, <2>3, <2>4
<1>9. ASSUME NEW p \in Processes, NEW x \in ResIds, NEW n \in Amounts, ReserveReads(p, x, n) PROVE AttemptsInv'
  <2> DEFINE t == ExpiredTables(View(p))
  <2>1. /\ store' = store /\ Room(t)
        /\ IF Stale(View(p)) = {} THEN UNCHANGED <<pending, writer>> ELSE pending' = t /\ writer' = p
    BY <1>9 DEF ReserveReads
  <2>2. View(p)' = t
    BY <2>1 DEF View, ExpiredTables
  <2>3. Limited(store') /\ Limited(pending')
    BY <1>1, <1>2, <2>1
  <2> HIDE DEF t
  <2>4. \A q \in Processes : Room(View(q)')
    BY <2>1, <2>2 DEF OneProcess
  <2> QED  BY <2>3, <2>4, NextLimited
<1>10. ASSUME NEW p \in Processes, NEW x \in ResIds, ReleaseReads(p, x) PROVE AttemptsInv'
  BY <1>4, <1>10 DEF ReleaseReads
<1>11. ASSUME NEW p \in Processes, NEW x \in ResIds, NEW n \in Amounts, CommitReads(p, x, n) \/ UpgradeReads(p, x, n)
       PROVE  AttemptsInv'
  BY <1>4, <1>11 DEF CommitReads, UpgradeReads
<1>12. CASE BudgetTick
  <2>1. Limited(store') /\ Limited(pending')
    BY <1>1, <1>12, AgedLimited DEF BudgetTick
  <2>2. \A p \in Processes : call'[p] = Idle
    BY <1>12 DEF BudgetTick
  <2> QED  BY <2>1, <2>2, NextLimited
<1>13. CASE UNCHANGED budgetVars
  <2>1. \A p \in Processes : View(p)' = View(p)
    BY <1>13 DEF budgetVars, View
  <2> QED  BY <1>2, <1>1, <1>13, <2>1, NextLimited DEF budgetVars
<1> QED  BY <1>5, <1>6, <1>7, <1>8, <1>9, <1>10, <1>11, <1>12, <1>13 DEF BudgetNext

\* Empty tables keep to the limits.
LEMMA AttemptsStart ==
  ASSUME BudgetInit
  PROVE  AttemptsInv
<1>1. \A x \in ResIds : EmptyTables.res[x].status = "none"
  BY DEF EmptyTables, NewRow
<1>2. Active(EmptyTables) = {} /\ Committed(EmptyTables) = {}
  BY <1>1 DEF Active, Committed
<1>3. Limited(EmptyTables)
  BY <1>2, Counts, FS_EmptySet DEF Limited
<1> QED  BY <1>3 DEF BudgetInit, AttemptsInv

\* Reservations are never more than may run at a time, and the attempts limit, which
\* reserve checks against those that are over, is passed by fewer than that.
THEOREM AttemptsBounded ==
  ASSUME OneProcess
  PROVE  BudgetSpec => []AttemptsNearLimit
<1>1. BudgetInit => AttemptsInv
  BY AttemptsStart
<1>2. BudgetInv /\ AttemptsInv /\ [BudgetNext]_budgetVars => AttemptsInv'
  BY AttemptsStep
<1>3. AttemptsInv => AttemptsNearLimit
  BY Counts DEF AttemptsInv, Limited, AttemptsNearLimit
<1> QED  BY <1>1, <1>2, <1>3, BudgetInvariance, PTL DEF BudgetSpec
=============================================================================
