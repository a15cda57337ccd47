------------------------------ MODULE Extrema ------------------------------
(***************************************************************************)
(* Least and largest elements of sets of natural numbers, and induction as  *)
(* the least counterexample: what the proofs about Exchange and Duration    *)
(* need of the maxima that those modules choose.                            *)
(***************************************************************************)
EXTENDS Integers, Sequences, WellFoundedInduction, TLAPS

Below == {p \in Nat \X Nat : p[1] < p[2]}

\* The order of the natural numbers is well-founded.
LEMMA BelowIsWellFounded == IsWellFoundedOn(Below, Nat)
<1>1. IsWellFoundedOn(OpToRel(<, Nat), Nat)
  BY NatLessThanWellFounded
<1>2. OpToRel(<, Nat) = Below
  BY DEF OpToRel, Below
<1> QED BY <1>1, <1>2

\* A set of natural numbers that is not empty has a least element.
LEMMA Least ==
  ASSUME NEW T, T \subseteq Nat, T # {}
  PROVE \E x \in T : \A y \in T : x <= y
<1>1. \E x \in T : \A y \in T : ~(<<y, x>> \in Below)
  BY BelowIsWellFounded, WFMin
<1>2. PICK x \in T : \A y \in T : ~(<<y, x>> \in Below)
  BY <1>1
<1>3. \A y \in T : x <= y
  <2> TAKE y \in T
  <2>1. /\ x \in Nat /\ y \in Nat
        /\ ~(<<y, x>> \in Below)
    BY <1>2
  <2>2. ~(y < x)
    BY <2>1 DEF Below
  <2> QED BY ONLY <2>1, <2>2, SMT
<1> QED BY <1>3

\* A set of natural numbers that is not empty and has a bound has a largest element.
LEMMA Largest ==
  ASSUME NEW S, S \subseteq Nat, S # {}, NEW b \in Nat, \A m \in S : m <= b
  PROVE \E x \in S : \A y \in S : y <= x
<1> DEFINE T == {n \in Nat : \A m \in S : m <= n}
<1>1. PICK n \in T : \A y \in T : n <= y
  <2>1. b \in T
    OBVIOUS
  <2>2. T \subseteq Nat
    OBVIOUS
  <2> HIDE DEF T
  <2> QED BY <2>1, <2>2, Least
<1>2. PICK e \in S : e \in Nat
  OBVIOUS
<1>3. n \in S
  <2>1. n \in Nat /\ e <= n
    BY <1>1, <1>2
  <2>2. SUFFICES ASSUME n \notin S PROVE FALSE
    OBVIOUS
  <2>3. \A m \in S : m \in Nat /\ m <= n /\ m # n
    BY <1>1, <2>2
  <2>4. n - 1 \in Nat /\ \A m \in S : m <= n - 1
    BY <2>1, <2>3, <1>2
  <2>5. n - 1 \in T
    BY <2>4
  <2>6. n <= n - 1
    BY <1>1, <2>5
  <2> QED BY ONLY <2>1, <2>6, SMT
<1>4. QED BY <1>1, <1>3

\* Finitely many natural numbers have a bound: the least number of them without one is neither 0
\* nor the successor of another.
LEMMA FinitelyManyAreBounded ==
  ASSUME NEW N \in Nat, NEW f, \A i \in 1 .. N : f[i] \in Nat
  PROVE \E b \in Nat : \A i \in 1 .. N : f[i] <= b
<1> DEFINE Bad == {k \in Nat : k <= N /\ ~\E b \in Nat : \A i \in 1 .. k : f[i] <= b}
<1>1. SUFFICES ASSUME Bad # {} PROVE FALSE
  <2>1. N \notin Bad
    BY <1>1
  <2> QED BY <2>1
<1>2. PICK k \in Bad : \A j \in Bad : k <= j
  <2>1. Bad \subseteq Nat
    OBVIOUS
  <2> HIDE DEF Bad
  <2> QED BY <1>1, <2>1, Least
<1>3. k \in Nat /\ k <= N /\ ~\E b \in Nat : \A i \in 1 .. k : f[i] <= b
  BY <1>2
<1>4. CASE k = 0
  <2>1. \A i \in 1 .. 0 : f[i] <= 0
    OBVIOUS
  <2> QED BY <1>3, <1>4, <2>1
<1>5. CASE k # 0
  <2>1. k - 1 \in Nat /\ k - 1 <= N /\ ~(k <= k - 1)
    BY <1>3, <1>5
  <2>2. k - 1 \notin Bad
    BY <1>2, <2>1
  <2>3. PICK b \in Nat : \A i \in 1 .. (k - 1) : f[i] <= b
    BY <2>1, <2>2
  <2>4. f[k] \in Nat
    BY <1>3, <1>5
  <2>5. PICK c \in Nat : b <= c /\ f[k] <= c
    <3>1. CASE b <= f[k] BY <3>1, <2>4
    <3>2. CASE ~(b <= f[k]) BY <3>2, <2>4
    <3> QED BY <3>1, <3>2
  <2>6. \A i \in 1 .. k : f[i] <= c
    <3> TAKE i \in 1 .. k
    <3>1. CASE i = k BY <3>1, <2>5
    <3>2. CASE i # k
      <4>1. i \in 1 .. (k - 1) BY <3>2, <1>3
      <4>2. f[i] <= b /\ f[i] \in Nat BY <4>1, <2>3, <1>3
      <4> QED BY <4>2, <2>5
    <3> QED BY <3>1, <3>2
  <2> QED BY <1>3, <2>6
<1> QED BY <1>4, <1>5

\* So they have a largest one.
LEMMA LargestOfFinitelyMany ==
  ASSUME NEW N \in Nat \ {0}, NEW f, \A i \in 1 .. N : f[i] \in Nat
  PROVE  \E i \in 1 .. N : \A j \in 1 .. N : f[j] <= f[i]
<1> DEFINE S == {f[i] : i \in 1 .. N}
<1>1. PICK b \in Nat : \A i \in 1 .. N : f[i] <= b
  BY FinitelyManyAreBounded
<1>2. S \subseteq Nat /\ \A m \in S : m <= b
  BY <1>1
<1>3. f[1] \in S
  OBVIOUS
<1>4. \E m \in S : \A k \in S : k <= m
  <2> HIDE DEF S
  <2> QED BY <1>2, <1>3, Largest
<1>5. PICK m \in S : \A k \in S : k <= m
  BY <1>4
<1>6. PICK i \in 1 .. N : m = f[i]
  BY <1>5
<1>7. \A j \in 1 .. N : f[j] <= f[i]
  BY <1>5, <1>6
<1> QED BY <1>7
=============================================================================
