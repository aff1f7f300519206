------------------------------ MODULE SumProofs ------------------------------
(***************************************************************************)
(* Laws of the sum of a function over a finite set.  Total is defined by   *)
(* recursion over the subsets of S, with the elements taken in the order   *)
(* of CHOOSE; the laws say that the order does not matter.  Each induction *)
(* is on the cardinality of a set, and is done by a smallest               *)
(* counterexample: the set of the cardinalities of counterexamples has a   *)
(* least element.                                                          *)
(***************************************************************************)
EXTENDS Integers, FiniteSets, Sums, FiniteSetTheorems, WellFoundedInduction, TLAPS

\* A set of natural numbers that is not empty has a least element.
LEMMA Least ==
  ASSUME NEW T \in SUBSET Nat, T # {}
  PROVE  \E m \in T : \A n \in T : m =< n
<1> DEFINE R == {ss \in Nat \X Nat : ss[1] < ss[2]}
<1>1. IsWellFoundedOn(R, Nat)
  BY NatLessThanWellFounded, Zenon DEF OpToRel
<1> HIDE DEF R
<1>2. PICK x \in T : \A y \in T : ~ (<<y, x>> \in R)
  BY <1>1, WFMin
<1>3. \A y \in T : ~ (y < x)
  BY <1>2 DEF R
<1> QED  BY <1>3

\* A set without one of its elements.
LEMMA Fewer ==
  ASSUME NEW s, IsFiniteSet(s), NEW x \in s, NEW k, Cardinality(s) = k
  PROVE  /\ IsFiniteSet(s \ {x})
         /\ Cardinality(s \ {x}) = k - 1 /\ k - 1 \in Nat
<1>1. IsFiniteSet(s \ {x}) /\ Cardinality(s \ {x}) = Cardinality(s) - 1
  BY FS_RemoveElement
<1>2. Cardinality(s \ {x}) \in Nat
  BY <1>1, FS_CardinalityType
<1> QED  BY <1>1, <1>2

\* An element of s, and what is left without it.
First(s) == CHOOSE x \in s : TRUE
Left(s)  == s \ {First(s)}

\* g satisfies the recursion of the sum on the subsets of S of at most n elements.
UpTo(g, f, S, n) ==
  /\ g \in [SUBSET S -> Int]
  /\ \A s \in SUBSET S : Cardinality(s) =< n => g[s] = IF s = {} THEN 0 ELSE f[First(s)] + g[Left(s)]

\* g satisfies it on all of them.
Adds(g, f, S) ==
  /\ g \in [SUBSET S -> Int]
  /\ \A s \in SUBSET S : g[s] = IF s = {} THEN 0 ELSE f[First(s)] + g[Left(s)]

\* h satisfies it, whatever its values are.
Solves(h, f, S) == \A s \in SUBSET S : h[s] = IF s = {} THEN 0 ELSE f[First(s)] + h[Left(s)]

\* Taking an element from a subset.
LEMMA Taken ==
  ASSUME NEW S, IsFiniteSet(S), NEW s \in SUBSET S, s # {}
  PROVE  /\ First(s) \in s /\ Left(s) \in SUBSET S
         /\ Cardinality(s) \in Nat /\ Cardinality(Left(s)) = Cardinality(s) - 1 /\ Cardinality(s) # 0
<1>1. First(s) \in s
  BY DEF First
<1>2. IsFiniteSet(s)
  BY FS_Subset
<1> QED  BY <1>1, <1>2, FS_RemoveElement, FS_CardinalityType, FS_EmptySet DEF Left

\* The recursion has a solution, for every number of elements.
LEMMA Approximated ==
  ASSUME NEW S, IsFiniteSet(S), NEW f, \A x \in S : f[x] \in Int, NEW n \in Nat
  PROVE  \E g : UpTo(g, f, S, n)
<1> DEFINE Bad == {k \in Nat : ~ \E g : UpTo(g, f, S, k)}
<1>1. ASSUME Bad # {} PROVE FALSE
  <2>1. PICK k \in Bad : \A i \in Bad : k =< i
    BY <1>1, Least
  <2>2. CASE k = 0
    <3> DEFINE g == [s \in SUBSET S |-> 0]
    <3>1. \A s \in SUBSET S : Cardinality(s) =< 0 => s = {}
      BY Taken
    <3>2. UpTo(g, f, S, 0)
      BY <3>1 DEF UpTo
    <3> QED  BY <2>2, <3>2
  <2>3. CASE k # 0
    <3>1. k - 1 \in Nat /\ k - 1 \notin Bad
      BY <2>1, <2>3
    <3>2. PICK g : UpTo(g, f, S, k - 1)
      BY <3>1
    <3> DEFINE h == [s \in SUBSET S |-> IF Cardinality(s) = k THEN f[First(s)] + g[Left(s)] ELSE g[s]]
    <3>3. \A s \in SUBSET S : Cardinality(s) = k => s # {}
      BY <2>3, FS_EmptySet
    <3>4. h \in [SUBSET S -> Int]
      BY <3>2, <3>3, Taken DEF UpTo
    <3>5. ASSUME NEW s \in SUBSET S, Cardinality(s) =< k
          PROVE  h[s] = IF s = {} THEN 0 ELSE f[First(s)] + h[Left(s)]
      <4>1. CASE s = {}
        <5>1. Cardinality(s) = 0
          BY <4>1, FS_EmptySet
        <5> QED  BY <2>1, <2>3, <3>2, <4>1, <5>1 DEF UpTo
      <4>2. CASE s # {}
        <5>1. /\ Left(s) \in SUBSET S /\ Cardinality(s) \in Nat
              /\ Cardinality(Left(s)) = Cardinality(s) - 1
          BY <4>2, Taken
        <5>2. h[Left(s)] = g[Left(s)]
          BY <2>1, <3>5, <5>1
        <5>3. CASE Cardinality(s) = k
          BY <4>2, <5>1, <5>2, <5>3
        <5>4. CASE Cardinality(s) # k
          <6>1. h[s] = g[s] /\ Cardinality(s) =< k - 1
            BY <2>1, <3>5, <5>1, <5>4
          <6> QED  BY <3>2, <4>2, <5>2, <6>1 DEF UpTo
        <5> QED  BY <5>3, <5>4
      <4> QED  BY <4>1, <4>2
    <3>6. UpTo(h, f, S, k)
      BY <3>4, <3>5 DEF UpTo
    <3> QED  BY <2>1, <3>6
  <2> QED  BY <2>2, <2>3
<1> QED  BY <1>1


\* Two solutions agree on the subsets that they share and on which the terms agree.
LEMMA Agree ==
  ASSUME NEW S, IsFiniteSet(S), NEW f, NEW g, Adds(g, f, S),
         NEW T, IsFiniteSet(T), NEW e, NEW h, Solves(h, e, T),
         NEW A, A \subseteq S, A \subseteq T, \A x \in A : f[x] = e[x]
  PROVE  g[A] = h[A]
<1> DEFINE Bad == {k \in Nat : \E s \in SUBSET A : Cardinality(s) = k /\ g[s] # h[s]}
<1>1. ASSUME Bad # {} PROVE FALSE
  <2>1. PICK k \in Bad : \A i \in Bad : k =< i
    BY <1>1, Least
  <2>2. PICK s \in SUBSET A : Cardinality(s) = k /\ g[s] # h[s]
    BY <2>1
  <2>3. s \in SUBSET S /\ s \in SUBSET T
    OBVIOUS
  <2>4. s # {}
    BY <2>2, <2>3 DEF Adds, Solves
  <2>5. /\ First(s) \in s /\ Left(s) \in SUBSET A
        /\ Cardinality(Left(s)) \in Nat /\ Cardinality(Left(s)) < k
    BY <2>2, <2>3, <2>4, Taken, FS_Subset, FS_CardinalityType DEF Left
  <2>6. g[Left(s)] = h[Left(s)]
    BY <2>1, <2>5
  <2>7. g[s] = f[First(s)] + g[Left(s)] /\ h[s] = e[First(s)] + h[Left(s)]
    BY <2>3, <2>4 DEF Adds, Solves
  <2> QED  BY <2>2, <2>5, <2>6, <2>7
<1>2. Cardinality(A) \in Nat
  BY FS_Subset, FS_CardinalityType
<1> QED  BY <1>1, <1>2

\* So Total is the value of a solution with integer values.
LEMMA TotalSums ==
  ASSUME NEW S, IsFiniteSet(S), NEW f, \A x \in S : f[x] \in Int
  PROVE  \E g : Adds(g, f, S) /\ Total(f, S) = g[S]
<1> DEFINE Rec(g) == g = [s \in SUBSET S |-> IF s = {} THEN 0
                                             ELSE f[CHOOSE x \in s : TRUE] + g[s \ {CHOOSE x \in s : TRUE}]]
<1>1. Cardinality(S) \in Nat
  BY FS_CardinalityType
<1>2. PICK g : UpTo(g, f, S, Cardinality(S))
  BY <1>1, Approximated
<1>3. Adds(g, f, S)
  BY <1>2, FS_Subset DEF UpTo, Adds
<1>4. Rec(g)
  BY <1>3 DEF Adds, First, Left
<1>5. \E h : Rec(h) /\ Total(f, S) = h[S]
  BY <1>4 DEF Total, MapThenSumSet, MapThenFoldSet
<1>6. PICK h : Rec(h) /\ Total(f, S) = h[S]
  BY <1>5
<1>7. Solves(h, f, S)
  BY <1>6 DEF Solves, First, Left
<1>8. g[S] = h[S]
  BY <1>3, <1>7, Agree
<1> QED  BY <1>3, <1>6, <1>8

\* A solution on a set is one on its subsets: each value of it is a total.
LEMMA PartTotals ==
  ASSUME NEW S, IsFiniteSet(S), NEW f, \A x \in S : f[x] \in Int, NEW g, Adds(g, f, S), NEW A \in SUBSET S
  PROVE  Total(f, A) = g[A]
<1>1. IsFiniteSet(A)
  BY FS_Subset
<1>2. PICK h : Adds(h, f, A) /\ Total(f, A) = h[A]
  BY <1>1, TotalSums
<1>3. Solves(h, f, A)
  BY <1>2 DEF Adds, Solves
<1> QED  BY <1>1, <1>2, <1>3, Agree

\* A solution may take any element first.
LEMMA AnyFirst ==
  ASSUME NEW S, IsFiniteSet(S), NEW f, \A x \in S : f[x] \in Int, NEW g, Adds(g, f, S)
  PROVE  \A s \in SUBSET S : \A x \in s : g[s] = f[x] + g[s \ {x}]
<1> DEFINE Bad == {k \in Nat : \E s \in SUBSET S : Cardinality(s) = k /\ \E x \in s : g[s] # f[x] + g[s \ {x}]}
<1>1. ASSUME Bad # {} PROVE FALSE
  <2>1. PICK k \in Bad : \A i \in Bad : k =< i
    BY <1>1, Least
  <2>2. PICK s \in SUBSET S : Cardinality(s) = k /\ \E x \in s : g[s] # f[x] + g[s \ {x}]
    BY <2>1
  <2>10. PICK x \in s : g[s] # f[x] + g[s \ {x}]
    BY <2>2
  <2> DEFINE c == First(s)
  <2>3. c \in s /\ g[s] = f[c] + g[s \ {c}] /\ IsFiniteSet(s)
    BY <2>2, Taken, FS_Subset DEF Adds, Left
  <2>4. c # x
    BY <2>10, <2>3
  <2> HIDE DEF c
  <2>5. /\ Cardinality(s \ {c}) = k - 1 /\ Cardinality(s \ {x}) = k - 1
        /\ k - 1 \in Nat
    BY <2>2, <2>10, <2>3, Fewer
  <2>6. k - 1 \notin Bad
    BY <2>1, <2>5
  <2>7. /\ g[s \ {c}] = f[x] + g[(s \ {c}) \ {x}]
        /\ g[s \ {x}] = f[c] + g[(s \ {x}) \ {c}]
    BY <2>3, <2>4, <2>5, <2>6, <2>10
  <2>8. (s \ {c}) \ {x} = (s \ {x}) \ {c} /\ (s \ {c}) \ {x} \in SUBSET S
    OBVIOUS
  <2>9. g[(s \ {c}) \ {x}] \in Int /\ f[x] \in Int /\ f[c] \in Int
    BY <2>3, <2>8, <2>10 DEF Adds
  <2> DEFINE rest == g[(s \ {c}) \ {x}]
  <2>11. /\ g[s \ {c}] = f[x] + rest /\ g[s \ {x}] = f[c] + rest
    BY <2>7, <2>8
  <2> HIDE DEF rest
  <2>12. g[s] = f[c] + (f[x] + rest) /\ g[s] # f[x] + (f[c] + rest) /\ rest \in Int
    BY <2>3, <2>9, <2>10, <2>11 DEF rest
  <2> QED  BY <2>9, <2>12
<1>2. \A s \in SUBSET S : Cardinality(s) \in Nat
  BY FS_Subset, FS_CardinalityType
<1> QED  BY <1>1, <1>2

-----------------------------------------------------------------------------
\* The laws.

\* The empty sum.
LEMMA TotalEmpty == ASSUME NEW f PROVE Total(f, {}) = 0
<1>1. PICK g : Adds(g, f, {}) /\ Total(f, {}) = g[{}]
  BY TotalSums, FS_EmptySet
<1> QED  BY <1>1 DEF Adds

\* A sum is any one term and the sum of the others.
LEMMA TotalTake ==
  ASSUME NEW S, IsFiniteSet(S), NEW f, \A x \in S : f[x] \in Int, NEW x \in S
  PROVE  Total(f, S) = f[x] + Total(f, S \ {x})
<1>1. PICK g : Adds(g, f, S)
  BY TotalSums
<1>2. Total(f, S) = g[S] /\ Total(f, S \ {x}) = g[S \ {x}]
  BY <1>1, PartTotals
<1> QED  BY <1>1, <1>2, AnyFirst

\* A sum of integers is an integer.
LEMMA TotalInt ==
  ASSUME NEW S, IsFiniteSet(S), NEW f, \A x \in S : f[x] \in Int
  PROVE  Total(f, S) \in Int
<1>1. PICK g : Adds(g, f, S) /\ Total(f, S) = g[S]
  BY TotalSums
<1> QED  BY <1>1 DEF Adds

\* A sum depends on its terms alone.
LEMMA TotalSame ==
  ASSUME NEW S, IsFiniteSet(S), NEW f, NEW e, \A x \in S : f[x] \in Int /\ f[x] = e[x]
  PROVE  Total(f, S) = Total(e, S)
<1>1. PICK g : Adds(g, f, S) /\ Total(f, S) = g[S]
  BY TotalSums
<1>2. PICK h : Adds(h, e, S) /\ Total(e, S) = h[S]
  BY TotalSums
<1>3. Solves(h, e, S)
  BY <1>2 DEF Adds, Solves
<1> QED  BY <1>1, <1>2, <1>3, Agree

\* A set without x and the set with it.
LEMMA TotalAdd ==
  ASSUME NEW S, IsFiniteSet(S), NEW x, x \notin S, NEW f, \A y \in S \cup {x} : f[y] \in Int
  PROVE  Total(f, S \cup {x}) = Total(f, S) + f[x]
<1>1. IsFiniteSet(S \cup {x}) /\ (S \cup {x}) \ {x} = S
  BY FS_AddElement
<1>2. Total(f, S \cup {x}) = f[x] + Total(f, S)
  BY <1>1, TotalTake
<1>3. Total(f, S) \in Int /\ f[x] \in Int
  BY TotalInt
<1> QED  BY <1>2, <1>3

\* Changing one term.
LEMMA TotalChange ==
  ASSUME NEW S, IsFiniteSet(S), NEW x \in S, NEW f, NEW e,
         \A y \in S : f[y] \in Int /\ e[y] \in Int, \A y \in S \ {x} : f[y] = e[y]
  PROVE  Total(e, S) = Total(f, S) + e[x] - f[x]
<1>1. Total(f, S) = f[x] + Total(f, S \ {x}) /\ Total(e, S) = e[x] + Total(e, S \ {x})
  BY TotalTake
<1>2. IsFiniteSet(S \ {x})
  BY FS_RemoveElement
<1>3. Total(f, S \ {x}) = Total(e, S \ {x}) /\ Total(f, S \ {x}) \in Int
  BY <1>2, TotalSame, TotalInt
<1> QED  BY <1>1, <1>3

\* Smaller terms make a smaller sum.
LEMMA TotalAtMost ==
  ASSUME NEW S, IsFiniteSet(S), NEW f, NEW e, \A x \in S : f[x] \in Int /\ e[x] \in Int /\ f[x] =< e[x]
  PROVE  Total(f, S) =< Total(e, S)
<1> DEFINE Bad == {k \in Nat : \E s \in SUBSET S : Cardinality(s) = k /\ ~ (Total(f, s) =< Total(e, s))}
<1>1. ASSUME Bad # {} PROVE FALSE
  <2>1. PICK k \in Bad : \A i \in Bad : k =< i
    BY <1>1, Least
  <2>2. PICK s \in SUBSET S : Cardinality(s) = k /\ ~ (Total(f, s) =< Total(e, s))
    BY <2>1
  <2>3. s # {}
    BY <2>2, TotalEmpty
  <2>4. PICK x \in s : TRUE
    BY <2>3
  <2>5. IsFiniteSet(s) /\ IsFiniteSet(s \ {x})
    BY FS_Subset
  <2>6. /\ Total(f, s) = f[x] + Total(f, s \ {x}) /\ Total(f, s \ {x}) \in Int
        /\ Total(e, s) = e[x] + Total(e, s \ {x}) /\ Total(e, s \ {x}) \in Int
    BY <2>5, TotalTake, TotalInt
  <2>7. Cardinality(s \ {x}) = k - 1 /\ k - 1 \in Nat
    BY <2>2, <2>4, <2>5, Fewer
  <2>8. Total(f, s \ {x}) =< Total(e, s \ {x})
    BY <2>1, <2>7
  <2> QED  BY <2>2, <2>6, <2>8
<1>2. Cardinality(S) \in Nat
  BY FS_CardinalityType
<1> QED  BY <1>1, <1>2

\* Terms that are not negative have a sum that is not negative.
LEMMA TotalNat ==
  ASSUME NEW S, IsFiniteSet(S), NEW f, \A x \in S : f[x] \in Nat
  PROVE  Total(f, S) \in Nat
<1> DEFINE zero == [x \in S |-> 0]
<1>1. Total(zero, S) =< Total(f, S) /\ Total(f, S) \in Int
  BY TotalAtMost, TotalInt
<1>2. Total(zero, S) = 0
  <2> DEFINE Bad == {k \in Nat : \E s \in SUBSET S : Cardinality(s) = k /\ Total(zero, s) # 0}
  <2>1. ASSUME Bad # {} PROVE FALSE
    <3>1. PICK k \in Bad : \A i \in Bad : k =< i
      BY <2>1, Least
    <3>2. PICK s \in SUBSET S : Cardinality(s) = k /\ Total(zero, s) # 0
      BY <3>1
    <3>3. s # {}
      BY <3>2, TotalEmpty
    <3>4. PICK x \in s : TRUE
      BY <3>3
    <3>5. IsFiniteSet(s)
      BY FS_Subset
    <3>6. Total(zero, s) = 0 + Total(zero, s \ {x})
      BY <3>5, TotalTake
    <3>7. Cardinality(s \ {x}) = k - 1 /\ k - 1 \in Nat
      BY <3>2, <3>4, <3>5, Fewer
    <3>8. Total(zero, s \ {x}) = 0
      BY <3>1, <3>7
    <3> QED  BY <3>2, <3>6, <3>8
  <2>2. Cardinality(S) \in Nat
    BY FS_CardinalityType
  <2> QED  BY <2>1, <2>2
<1> QED  BY <1>1, <1>2

\* A sum over two sets that do not meet.
LEMMA TotalSplit ==
  ASSUME NEW S, IsFiniteSet(S), NEW T \in SUBSET S, NEW f, \A x \in S : f[x] \in Int
  PROVE  Total(f, S) = Total(f, T) + Total(f, S \ T)
<1> DEFINE Bad == {k \in Nat : \E U \in SUBSET S : /\ Cardinality(U) = k
                                                   /\ Total(f, S) # Total(f, U) + Total(f, S \ U)}
<1>1. ASSUME Bad # {} PROVE FALSE
  <2>1. PICK k \in Bad : \A i \in Bad : k =< i
    BY <1>1, Least
  <2>2. PICK U \in SUBSET S : Cardinality(U) = k /\ Total(f, S) # Total(f, U) + Total(f, S \ U)
    BY <2>1
  <2>3. IsFiniteSet(U) /\ IsFiniteSet(S \ U)
    BY FS_Subset
  <2>4. U # {}
    <3> SUFFICES ASSUME U = {} PROVE FALSE
      OBVIOUS
    <3>1. Total(f, U) = 0 /\ S \ U = S /\ Total(f, S) \in Int
      BY TotalEmpty, TotalInt
    <3> QED  BY <2>2, <3>1
  <2>5. PICK x \in U : TRUE
    BY <2>4
  <2> DEFINE V == U \ {x}
  <2>6. Cardinality(V) = k - 1 /\ k - 1 \in Nat /\ IsFiniteSet(V)
    BY <2>2, <2>3, <2>5, Fewer
  <2>7. Total(f, S) = Total(f, V) + Total(f, S \ V)
    <3>1. V \in SUBSET S /\ k - 1 \notin Bad
      BY <2>1, <2>6
    <3> HIDE DEF V
    <3> QED  BY <2>6, <3>1
  <2>8. Total(f, U) = f[x] + Total(f, V) /\ Total(f, V) \in Int
    BY <2>3, <2>6, TotalTake, TotalInt
  <2>9. S \ V = (S \ U) \cup {x} /\ x \notin S \ U
    BY <2>5
  <2>10. Total(f, S \ V) = Total(f, S \ U) + f[x] /\ Total(f, S \ U) \in Int
    <3> HIDE DEF V
    <3> QED  BY <2>3, <2>5, <2>9, TotalAdd, TotalInt
  <2>11. f[x] \in Int
    BY <2>5
  <2> QED  BY <2>2, <2>7, <2>8, <2>10, <2>11
<1>2. Cardinality(T) \in Nat
  BY FS_Subset, FS_CardinalityType
<1> QED  BY <1>1, <1>2

\* A part of a sum of natural numbers is at most the sum.
LEMMA TotalPart ==
  ASSUME NEW S, IsFiniteSet(S), NEW T \in SUBSET S, NEW f, \A x \in S : f[x] \in Nat
  PROVE  Total(f, T) =< Total(f, S)
<1>1. Total(f, S) = Total(f, T) + Total(f, S \ T)
  BY TotalSplit
<1>2. IsFiniteSet(T) /\ IsFiniteSet(S \ T)
  BY FS_Subset
<1>3. Total(f, T) \in Nat /\ Total(f, S \ T) \in Nat
  BY <1>2, TotalNat
<1> QED  BY <1>1, <1>3
=============================================================================
