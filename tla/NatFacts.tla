------------------------------ MODULE NatFacts ------------------------------
(***************************************************************************)
(* Facts about natural numbers that the proofs of several components use:  *)
(* a set of numbers has a least element, induction over the elements of a  *)
(* set, and the existence of functions defined by recursion.               *)
(***************************************************************************)
EXTENDS Integers, FiniteSetsExt, WellFoundedInduction, TLAPS

LEMMA MinIsLeast ==
    ASSUME NEW T, T \subseteq Nat, T # {}
    PROVE  Min(T) \in T /\ \A y \in T : Min(T) <= y
<1>1. PICK x \in T : \A y \in T : ~(<<y, x>> \in OpToRel(<, Nat))
  BY NatLessThanWellFounded, WFMin, Zenon
<1>2. ASSUME NEW y \in T PROVE x <= y
  <2>1. ~(y < x)
    BY <1>1 DEF OpToRel
  <2> QED  BY <2>1
<1> QED  BY <1>2 DEF Min

(* A set that holds 0 and with every number below n the next one holds all  *)
(* numbers up to n.                                                         *)
LEMMA CountUp ==
    ASSUME NEW n \in Nat, NEW T, 0 \in T, \A k \in 0 .. n - 1 : k \in T => k + 1 \in T
    PROVE  0 .. n \subseteq T
<1> DEFINE Missing == (0 .. n) \ T
<1> SUFFICES ASSUME Missing # {} PROVE FALSE
  OBVIOUS
<1> DEFINE m == Min(Missing)
<1>1. Missing \subseteq Nat
  OBVIOUS
<1>2. m \in Missing /\ \A y \in Missing : m <= y
  BY <1>1, MinIsLeast, Zenon
<1> HIDE DEF m
<1>3. m \in 1 .. n /\ m - 1 \in 0 .. n - 1
  BY <1>2
<1>4. m - 1 \in T
  BY <1>2, <1>3
<1> QED  BY <1>2, <1>3, <1>4

(* f starts with a, and g computes each value from its place and the value  *)
(* before.                                                                  *)
Follows(f, n, a, g) == f[0] = a /\ \A k \in 1 .. n : f[k] = g[<<k, f[k - 1]>>]

LEMMA RecursionExists ==
    ASSUME NEW n \in Nat, NEW S, NEW a \in S, NEW g \in [(1 .. n) \X S -> S]
    PROVE  \E f \in [0 .. n -> S] : Follows(f, n, a, g)
<1> DEFINE Good(m, f) == f[0] = a /\ \A k \in 1 .. m : f[k] = g[<<k, f[k - 1]>>]
<1> DEFINE T == {m \in 0 .. n : \E f \in [0 .. m -> S] : Good(m, f)}
<1>1. 0 \in T
  <2> DEFINE f0 == [k \in 0 .. 0 |-> a]
  <2>1. f0 \in [0 .. 0 -> S] /\ Good(0, f0)
    OBVIOUS
  <2>2. 0 \in 0 .. n
    OBVIOUS
  <2> HIDE DEF f0, Good
  <2> QED  BY <2>1, <2>2
<1>2. ASSUME NEW m \in 0 .. n - 1, m \in T PROVE m + 1 \in T
  <2>1. PICK f \in [0 .. m -> S] : Good(m, f)
    BY <1>2
  <2> DEFINE v  == g[<<m + 1, f[m]>>]
  <2> DEFINE f2 == [k \in 0 .. m + 1 |-> IF k = m + 1 THEN v ELSE f[k]]
  <2>2. v \in S
    OBVIOUS
  <2>3. f2 \in [0 .. m + 1 -> S] /\ f2[0] = a
    BY <2>1, <2>2
  <2>4. ASSUME NEW k \in 1 .. m + 1 PROVE f2[k] = g[<<k, f2[k - 1]>>]
    <3>1. CASE k = m + 1
      <4>1. k - 1 = m /\ f2[k] = v /\ f2[m] = f[m]
        BY <3>1
      <4> QED  BY <3>1, <4>1
    <3>2. CASE k # m + 1
      <4>1. k \in 1 .. m /\ f2[k] = f[k] /\ f2[k - 1] = f[k - 1]
        BY <3>2
      <4> QED  BY <2>1, <4>1
    <3> QED  BY <3>1, <3>2
  <2> HIDE DEF f2
  <2>5. Good(m + 1, f2) /\ m + 1 \in 0 .. n
    BY <2>3, <2>4
  <2> HIDE DEF Good
  <2> QED  BY <2>3, <2>5
<1> HIDE DEF T
<1>3. n \in T
  BY <1>1, <1>2, CountUp
<1> QED  BY <1>3 DEF T, Follows
=============================================================================
