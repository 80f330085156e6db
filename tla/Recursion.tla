---- MODULE Recursion ----
(***************************************************************************)
(* What the proofs need of numbers: induction, in the form of a set that   *)
(* holds all of them, least and greatest elements, and that a function     *)
(* defined by recursion exists.                                            *)
(***************************************************************************)
EXTENDS Naturals, TLAPS, FiniteSetTheorems

\* A set of numbers has a least element: initial segments are ordered by
\* inclusion, which is well founded on finite sets.
LEMMA LeastOfNaturals ==
    ASSUME NEW S \in SUBSET Nat, S # {}
    PROVE  \E x \in S : \A y \in S : x <= y
<1> DEFINE Below == {0 .. x : x \in S}
<1>1. Below \subseteq FiniteSubsetsOf(Nat) /\ Below # {}
  <2>1. \A x \in S : IsFiniteSet(0 .. x) /\ 0 .. x \in SUBSET Nat
    BY FS_Interval
  <2> QED
    BY <2>1 DEF FiniteSubsetsOf
<1>2. \E A \in Below : \A B \in Below : ~(<<B, A>> \in StrictSubsetOrdering(Nat))
  BY <1>1, WFMin, FS_StrictSubsetOrderingWellFounded
<1>3. PICK x \in S : \A y \in S : ~(<<0 .. y, 0 .. x>> \in StrictSubsetOrdering(Nat))
  BY <1>2
<1>4. ASSUME NEW y \in S
      PROVE  x <= y
  <2>1. x \in Nat /\ y \in Nat
    OBVIOUS
  <2> DEFINE A == 0 .. x
             B == 0 .. y
  <2>2. A \in SUBSET Nat /\ B \in SUBSET Nat
    BY <2>1
  <2>3. y < x => B \subseteq A /\ x \in A /\ x \notin B
    BY <2>1
  <2>4. <<B, A>> \notin StrictSubsetOrdering(Nat)
    BY <1>3
  <2> HIDE DEF A, B
  <2>5. ~(B \subseteq A /\ B # A)
    BY <2>2, <2>4 DEF StrictSubsetOrdering
  <2> QED
    BY <2>1, <2>3, <2>5
<1> QED
  BY <1>4

LEMMA GreatestOfBounded ==
    ASSUME NEW n \in Nat, NEW S \in SUBSET (0 .. n), S # {}
    PROVE  \E x \in S : \A y \in S : y <= x
<1> DEFINE M == {n - x : x \in S}
<1>1. M \in SUBSET Nat /\ M # {}
  <2>1. \A x \in S : x \in Nat /\ n - x \in Nat
    OBVIOUS
  <2> QED
    BY <2>1
<1>2. PICK m \in M : \A y \in M : m <= y
  BY <1>1, LeastOfNaturals
<1>3. PICK x \in S : m = n - x
  OBVIOUS
<1>4. ASSUME NEW y \in S
      PROVE  y <= x
  <2>1. n - y \in M
    OBVIOUS
  <2> HIDE DEF M
  <2>2. m <= n - y
    BY <1>2, <2>1
  <2>3. x \in Nat /\ y \in Nat
    OBVIOUS
  <2> QED
    BY <1>3, <2>2, <2>3
<1> QED
  BY <1>4

\* A set that holds 0 and with a number the next one holds every number.
LEMMA Induction ==
    ASSUME NEW S, 0 \in S, \A n \in Nat : n \in S => n + 1 \in S
    PROVE  Nat \subseteq S
<1> SUFFICES ASSUME Nat \ S # {} PROVE FALSE
  OBVIOUS
<1>1. PICK x \in Nat \ S : \A y \in Nat \ S : x <= y
  <2>1. Nat \ S \in SUBSET Nat
    OBVIOUS
  <2> QED
    BY <2>1, LeastOfNaturals
<1>2. x # 0 /\ x - 1 \in Nat /\ x = (x - 1) + 1 /\ ~(x <= x - 1)
  BY <1>1
<1>3. x - 1 \in S
  BY <1>1, <1>2
<1> QED
  BY <1>1, <1>2, <1>3

\* The same up to m.
LEMMA InductionUpTo ==
    ASSUME NEW m \in Nat, NEW S, 0 \in S,
           \A n \in 1 .. m : n - 1 \in S => n \in S
    PROVE  0 .. m \subseteq S
<1> DEFINE T == {n \in Nat : n <= m => n \in S}
<1>1. 0 \in T
  OBVIOUS
<1>2. \A n \in Nat : n \in T => n + 1 \in T
  <2> SUFFICES ASSUME NEW n \in Nat, n \in T, n + 1 <= m PROVE n + 1 \in S
    OBVIOUS
  <2>1. n \in S
    OBVIOUS
  <2>2. n + 1 \in 1 .. m /\ (n + 1) - 1 = n
    OBVIOUS
  <2> QED
    BY <2>1, <2>2
<1> HIDE DEF T
<1>3. Nat \subseteq T
  BY <1>1, <1>2, Induction
<1> QED
  BY <1>3 DEF T

\* A function on 0 .. m is defined by its first value and a step.
Recursive(f, m, V, first, step) ==
    /\ f \in [0 .. m -> V]
    /\ f[0] = first
    /\ \A n \in 1 .. m : f[n] = step[n][f[n - 1]]

LEMMA RecursionUpTo ==
    ASSUME NEW m \in Nat, NEW V, NEW first \in V, NEW step \in [1 .. m -> [V -> V]]
    PROVE  \E f : Recursive(f, m, V, first, step)
<1> DEFINE Is(f, k) == f \in [0 .. k -> V] /\ f[0] = first
                       /\ \A n \in 1 .. k : f[n] = step[n][f[n - 1]]
           S == {k \in 0 .. m : \E f : Is(f, k)}
<1>1. 0 \in S
  <2>1. Is([n \in 0 .. 0 |-> first], 0)
    OBVIOUS
  <2> HIDE DEF Is
  <2>2. \E f : Is(f, 0)
    BY <2>1, Zenon
  <2> QED
    BY <2>2
<1>2. ASSUME NEW n \in 1 .. m, n - 1 \in S
      PROVE  n \in S
  <2>1. PICK f : Is(f, n - 1)
    BY <1>2
  <2> DEFINE g == [i \in 0 .. n |-> IF i = n THEN step[n][f[n - 1]] ELSE f[i]]
  <2>2. f[n - 1] \in V
    BY <2>1
  <2>3. step[n][f[n - 1]] \in V
    BY <2>2
  <2>4. g \in [0 .. n -> V] /\ g[0] = first
    BY <2>1, <2>3
  <2>5. ASSUME NEW i \in 1 .. n
        PROVE  g[i] = step[i][g[i - 1]]
    <3>1. g[i - 1] = f[i - 1]
      OBVIOUS
    <3>2. CASE i = n
      <4>1. g[i] = step[n][f[n - 1]]
        BY <3>2, <2>3
      <4> QED
        BY <4>1, <3>1, <3>2
    <3>3. CASE i # n
      BY <2>1, <3>1, <3>3
    <3> QED
      BY <3>2, <3>3
  <2>6. Is(g, n)
    BY <2>4, <2>5
  <2> HIDE DEF Is
  <2>7. \E h : Is(h, n)
    BY <2>6, Zenon
  <2> QED
    BY <2>7
<1> HIDE DEF S
<1>3. 0 .. m \subseteq S
  BY <1>1, <1>2, InductionUpTo
<1>4. PICK f : Is(f, m)
  <2>1. m \in S
    BY <1>3
  <2> QED
    BY <2>1 DEF S
<1>5. Recursive(f, m, V, first, step)
  BY <1>4 DEF Recursive
<1> QED
  BY <1>5, Zenon
====
