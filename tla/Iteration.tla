----------------------------- MODULE Iteration -----------------------------
(***************************************************************************)
(* Loops: what a function that is defined by recursion on 0 .. n satisfies, *)
(* from the least-number principle.  (The induction theorems of the        *)
(* library take the induction hypothesis as an operator; here it is a set.) *)
(***************************************************************************)
EXTENDS Integers, WellFoundedInduction, TLAPS

(* A set of numbers that is not empty has a least one.                     *)
LEMMA Least ==
  ASSUME NEW T \in SUBSET Nat, T # {}
  PROVE  \E x \in T : \A y \in T : x <= y
<1> DEFINE R == OpToRel(<, Nat)
<1>1. IsWellFoundedOn(R, Nat)
  BY NatLessThanWellFounded
<1>2. \A x, y \in Nat : x < y => <<x, y>> \in R
  BY DEF OpToRel
<1> HIDE DEF R
<1>3. PICK x \in T : \A y \in T : <<y, x>> \notin R
  BY <1>1, WFMin
<1>4. \A y \in T : x <= y
  <2> TAKE y \in T
  <2>1. x \in Nat /\ y \in Nat /\ ~(y < x)
    BY <1>2, <1>3
  <2> QED
    BY <2>1
<1> QED
  BY <1>4

(* A set of numbers with 0 and with the next of each has them all.         *)
LEMMA SetInduction ==
  ASSUME NEW T \in SUBSET Nat, 0 \in T, \A i \in T : i + 1 \in T
  PROVE  T = Nat
<1> SUFFICES ASSUME NEW k \in Nat, k \notin T PROVE FALSE
  OBVIOUS
<1>1. PICK x \in Nat \ T : \A y \in Nat \ T : x <= y
  BY Least
<1>2. x # 0 /\ x - 1 \in Nat
  BY <1>1
<1>3. x - 1 \in T
  BY <1>1, <1>2
<1> QED
  BY <1>1, <1>2, <1>3

(* A step that keeps S can be done n times, beginning with b.              *)
IsRun(g, b, F, n) == g = [i \in 0 .. n |-> IF i = 0 THEN b ELSE F[<<i, g[i - 1]>>]]
LEMMA Recursion ==
  ASSUME NEW S, NEW n \in Nat, NEW b \in S, NEW F \in [(1 .. n) \X S -> S]
  PROVE  \E g \in [0 .. n -> S] : IsRun(g, b, F, n)
<1> DEFINE Runs(k, g) == g[0] = b /\ \A i \in 1 .. k : g[i] = F[<<i, g[i - 1]>>]
           T == {k \in Nat : k <= n => \E g \in [0 .. k -> S] : Runs(k, g)}
<1>1. 0 \in T
  <2>1. [i \in 0 .. 0 |-> b] \in [0 .. 0 -> S] /\ Runs(0, [i \in 0 .. 0 |-> b])
    OBVIOUS
  <2> QED
    BY <2>1
<1>2. ASSUME NEW k \in T PROVE k + 1 \in T
  <2> SUFFICES ASSUME k + 1 <= n PROVE \E g \in [0 .. k + 1 -> S] : Runs(k + 1, g)
    OBVIOUS
  <2>1. PICK g \in [0 .. k -> S] : Runs(k, g)
    OBVIOUS
  <2> DEFINE h == [i \in 0 .. k + 1 |-> IF i = k + 1 THEN F[<<k + 1, g[k]>>] ELSE g[i]]
  <2>2. k + 1 \in 1 .. n /\ k \in 0 .. k
    OBVIOUS
  <2>3. F[<<k + 1, g[k]>>] \in S
    BY <2>2
  <2>4. h \in [0 .. k + 1 -> S]
    BY <2>3
  <2>5. \A i \in 0 .. k : h[i] = g[i]
    OBVIOUS
  <2>6. h[k + 1] = F[<<k + 1, g[k]>>]
    OBVIOUS
  <2> HIDE DEF h
  <2>7. Runs(k + 1, h)
    <3>1. h[0] = b
      BY <2>1, <2>5
    <3>2. ASSUME NEW i \in 1 .. k + 1 PROVE h[i] = F[<<i, h[i - 1]>>]
      <4>1. CASE i = k + 1
        BY <2>5, <2>6, <4>1
      <4>2. CASE i \in 1 .. k
        <5>1. i - 1 \in 0 .. k /\ i \in 0 .. k
          BY <4>2
        <5> QED
          BY <2>1, <2>5, <4>2, <5>1
      <4> QED
        BY <4>1, <4>2
    <3> QED
      BY <3>1, <3>2
  <2> QED
    BY <2>4, <2>7
<1> HIDE DEF T
<1>3. T = Nat
  <2>1. T \in SUBSET Nat
    BY DEF T
  <2> QED
    BY <1>1, <1>2, <2>1, SetInduction
<1>4. PICK g \in [0 .. n -> S] : Runs(n, g)
  <2>1. n \in T /\ n <= n
    BY <1>3
  <2> QED
    BY <2>1 DEF T
<1>5. \A i \in 0 .. n : g[i] = IF i = 0 THEN b ELSE F[<<i, g[i - 1]>>]
  <2> TAKE i \in 0 .. n
  <2>1. CASE i = 0
    BY <1>4, <2>1
  <2>2. CASE i \in 1 .. n
    BY <1>4, <2>2
  <2> QED BY <2>1, <2>2
<1> QED
  BY <1>5 DEF IsRun

(* What holds at the beginning and is kept by each step, numbered as the   *)
(* steps are, holds after each of them.                                    *)
LEMMA KeptByEach ==
  ASSUME NEW G, NEW n \in Nat, NEW f, <<0, f[0]>> \in G,
         \A i \in 1 .. n : <<i - 1, f[i - 1]>> \in G => <<i, f[i]>> \in G
  PROVE  \A i \in 0 .. n : <<i, f[i]>> \in G
<1> DEFINE T == {k \in Nat : k <= n => <<k, f[k]>> \in G}
<1>1. 0 \in T /\ \A k \in T : k + 1 \in T
  <2> SUFFICES ASSUME NEW k \in T, k + 1 <= n PROVE <<k + 1, f[k + 1]>> \in G
    OBVIOUS
  <2>1. k + 1 \in 1 .. n /\ (k + 1) - 1 = k
    OBVIOUS
  <2> QED
    BY <2>1
<1> HIDE DEF T
<1>2. T = Nat
  <2>1. T \in SUBSET Nat
    BY DEF T
  <2> QED
    BY <1>1, <2>1, SetInduction
<1> QED
  BY <1>2 DEF T

LEMMA StaysIn ==
  ASSUME NEW S, NEW n \in Nat, NEW f, f[0] \in S, \A i \in 1 .. n : f[i - 1] \in S => f[i] \in S
  PROVE  f[n] \in S
<1> DEFINE G == Nat \X S
<1>1. <<0, f[0]>> \in G
  OBVIOUS
<1>2. \A i \in 1 .. n : <<i - 1, f[i - 1]>> \in G => <<i, f[i]>> \in G
  OBVIOUS
<1> HIDE DEF G
<1>3. \A i \in 0 .. n : <<i, f[i]>> \in G
  BY <1>1, <1>2, KeptByEach
<1>4. <<n, f[n]>> \in G
  BY <1>3
<1> QED BY <1>4 DEF G
=============================================================================
