-------------------------- MODULE IterationTheorems --------------------------
(***************************************************************************)
(* Induction over a number and over the runs of a loop, in a form that     *)
(* takes sets and functions: what a loop keeps true is a set of numbers of *)
(* turns, and its body a function on the values that it goes through.      *)
(***************************************************************************)
EXTENDS Integers, WellFoundedInduction, TLAPS

\* Induction: a set that holds 0 and with each number the next holds them all.
LEMMA NatSet ==
    ASSUME NEW S, 0 \in S, \A n \in Nat : n \in S => n + 1 \in S
    PROVE  Nat \subseteq S
<1> DEFINE R == {ss \in Nat \X Nat : ss[1] < ss[2]}
           T == Nat \ S
<1>1. IsWellFoundedOn(R, Nat)
  BY NatLessThanWellFounded DEF OpToRel
<1>2. SUFFICES ASSUME T # {} PROVE FALSE
  OBVIOUS
<1>3. PICK x \in T : \A y \in T : ~ (<<y, x>> \in R)
  <2> HIDE DEF R, T
  <2>1. T \subseteq Nat BY DEF T
  <2> QED BY <1>1, <1>2, <2>1, WFMin
<1>4. x # 0 /\ x \in Nat /\ x - 1 \in Nat
  BY <1>3
<1>5. x - 1 \notin T
  <2>1. <<x - 1, x>> \in R  BY <1>4
  <2> HIDE DEF R
  <2> QED BY <1>3, <2>1
<1> QED BY <1>3, <1>4, <1>5

\* A set of naturals that is not empty has a least element.
LEMMA Least ==
    ASSUME NEW T \in SUBSET Nat, T # {}
    PROVE  \E k \in T : \A l \in T : k <= l
<1> DEFINE R == {ss \in Nat \X Nat : ss[1] < ss[2]}
<1>1. IsWellFoundedOn(R, Nat)
  BY NatLessThanWellFounded DEF OpToRel
<1>2. PICK k \in T : \A l \in T : ~ (<<l, k>> \in R)
  <2> HIDE DEF R
  <2> QED BY <1>1, WFMin
<1>3. ASSUME NEW l \in T PROVE k <= l
  <2>1. k \in Nat /\ l \in Nat /\ ~ (<<l, k>> \in R)
    <3> HIDE DEF R
    <3> QED BY <1>2
  <2>2. l < k => <<l, k>> \in R
    BY <2>1
  <2> HIDE DEF R
  <2> QED BY <2>1, <2>2
<1> QED BY <1>3

\* f starts at a and goes on by the steps.
Iterates(f, S, a, step) ==
    f \in [Nat -> S] /\ f[0] = a /\ \A k \in Nat : f[k + 1] = step[k + 1][f[k]]

\* A function on the naturals is given by its first value and its steps.
LEMMA Iterated ==
    ASSUME NEW S, NEW a \in S, NEW step \in [Nat -> [S -> S]]
    PROVE  \E f : Iterates(f, S, a, step)
<1> DEFINE Upto(n, g) == /\ g \in [0..n -> S] /\ g[0] = a
                         /\ \A k \in 1..n : g[k] = step[k][g[k - 1]]
           T == {n \in Nat : \E g : Upto(n, g)}
<1>1. Nat \subseteq T
  <2>1. 0 \in T
    <3>1. Upto(0, [k \in 0..0 |-> a])  OBVIOUS
    <3> QED BY <3>1
  <2>2. ASSUME NEW n \in Nat, n \in T PROVE n + 1 \in T
    <3>1. PICK g : Upto(n, g)  BY <2>2
    <3> DEFINE h == [k \in 0..(n + 1) |-> IF k = n + 1 THEN step[n + 1][g[n]] ELSE g[k]]
    <3>2. h \in [0..(n + 1) -> S]  BY <3>1
    <3>3. h[0] = a  BY <3>1
    <3>4. ASSUME NEW k \in 1..(n + 1) PROVE h[k] = step[k][h[k - 1]]
      <4>1. CASE k = n + 1  BY <3>1, <4>1
      <4>2. CASE k # n + 1  BY <3>1, <4>2
      <4> QED BY <4>1, <4>2
    <3>5. Upto(n + 1, h)  BY <3>2, <3>3, <3>4
    <3> HIDE DEF h, Upto
    <3> QED BY <3>5
  <2> HIDE DEF T
  <2> QED BY <2>1, <2>2, NatSet
<1>2. ASSUME NEW m \in Nat, NEW n \in Nat, m <= n, NEW g, NEW h, Upto(m, g), Upto(n, h)
      PROVE  \A k \in 0..m : g[k] = h[k]
  <2> DEFINE A == {k \in Nat : k <= m => g[k] = h[k]}
  <2>1. 0 \in A  BY <1>2
  <2>2. ASSUME NEW k \in Nat, k \in A PROVE k + 1 \in A
    <3>1. CASE k + 1 <= m
      <4>1. g[k + 1] = step[k + 1][g[k]] /\ h[k + 1] = step[k + 1][h[k]]
        BY <1>2, <3>1
      <4> QED BY <2>2, <3>1, <4>1
    <3> QED BY <3>1
  <2>3. Nat \subseteq A
    <3> HIDE DEF A
    <3> QED BY <2>1, <2>2, NatSet
  <2> QED BY <2>3
<1> DEFINE G(n) == CHOOSE g : Upto(n, g)
           f == [n \in Nat |-> G(n)[n]]
<1>3. \A n \in Nat : Upto(n, G(n))
  BY <1>1
<1>4. f \in [Nat -> S]
  <2> SUFFICES ASSUME NEW n \in Nat PROVE G(n)[n] \in S  OBVIOUS
  <2> HIDE DEF G
  <2> QED BY <1>3
<1>5. ASSUME NEW k \in Nat
      PROVE  f[k] = IF k = 0 THEN a ELSE step[k][f[k - 1]]
  <2>1. CASE k = 0
    <3>1. Upto(0, G(0))  BY <1>3
    <3> HIDE DEF G
    <3> QED BY <2>1, <3>1
  <2>2. CASE k # 0
    <3>1. k - 1 \in Nat /\ k - 1 <= k  BY <2>2
    <3>2. Upto(k, G(k)) /\ Upto(k - 1, G(k - 1))  BY <1>3, <3>1
    <3>3. G(k - 1)[k - 1] = G(k)[k - 1]
      <4>1. \A i \in 0..(k - 1) : G(k - 1)[i] = G(k)[i]
        <5> HIDE DEF G, Upto
        <5> QED BY <1>2, <3>1, <3>2
      <4> HIDE DEF G, Upto
      <4> QED BY <3>1, <4>1
    <3>4. G(k)[k] = step[k][G(k)[k - 1]]
      <4> HIDE DEF G
      <4> QED BY <2>2, <3>2
    <3> HIDE DEF G, Upto
    <3> QED BY <2>2, <3>1, <3>3, <3>4
  <2> QED BY <2>1, <2>2
<1>6. f[0] = a /\ \A k \in Nat : f[k + 1] = step[k + 1][f[k]]
  <2> HIDE DEF f
  <2> QED BY <1>5
<1> HIDE DEF f
<1> QED BY <1>4, <1>6 DEF Iterates

\* The same up to a bound.
LEMMA UpToSet ==
    ASSUME NEW N \in Nat, NEW S, 0 \in S, \A n \in 1..N : n - 1 \in S => n \in S
    PROVE  0..N \subseteq S
<1> DEFINE T == {n \in Nat : n <= N => n \in S}
<1>1. 0 \in T  OBVIOUS
<1>2. ASSUME NEW n \in Nat, n \in T PROVE n + 1 \in T
  <2> SUFFICES ASSUME n + 1 <= N PROVE n + 1 \in S  OBVIOUS
  <2>1. n + 1 \in 1..N /\ (n + 1) - 1 = n /\ n \in S  BY <1>2
  <2> QED BY <2>1
<1>3. Nat \subseteq T
  <2> HIDE DEF T
  <2> QED BY <1>1, <1>2, NatSet
<1> QED BY <1>3

\* A loop of N turns, turn n of which takes a value x to step[n][x].
Loops(f, N, S, a, step) ==
    f \in [0..N -> S] /\ f[0] = a /\ \A n \in 1..N : f[n] = step[n][f[n - 1]]

LEMMA Loop ==
    ASSUME NEW N \in Nat, NEW S, NEW a \in S, NEW step \in [1..N -> [S -> S]]
    PROVE  \E f : Loops(f, N, S, a, step)
<1> DEFINE go == [k \in Nat |-> IF k \in 1..N THEN step[k] ELSE [x \in S |-> x]]
<1>1. go \in [Nat -> [S -> S]]
  <2>1. [x \in S |-> x] \in [S -> S]  OBVIOUS
  <2> QED BY <2>1
<1>2. PICK h : Iterates(h, S, a, go)
  <2> HIDE DEF go
  <2> QED BY <1>1, Iterated
<1>3. h \in [Nat -> S] /\ h[0] = a /\ \A k \in Nat : h[k + 1] = go[k + 1][h[k]]
  BY <1>2 DEF Iterates
<1> DEFINE f == [n \in 0..N |-> h[n]]
<1>4. f \in [0..N -> S] /\ f[0] = a
  BY <1>3
<1>5. ASSUME NEW n \in 1..N PROVE f[n] = step[n][f[n - 1]]
  <2>1. n - 1 \in Nat /\ (n - 1) + 1 = n /\ n \in Nat /\ n \in 0..N /\ n - 1 \in 0..N
    OBVIOUS
  <2>2. h[n] = go[n][h[n - 1]]
    <3> HIDE DEF go
    <3> QED BY <1>3, <2>1
  <2>3. go[n] = step[n]  BY <2>1
  <2> HIDE DEF go
  <2> QED BY <2>1, <2>2, <2>3
<1> HIDE DEF f
<1> QED BY <1>4, <1>5 DEF Loops

\* Whatever goes on as such a loop does stays within the values of the loop.
GoesOn(h, N, S, a, step) ==
    /\ h = [n \in 0..N |-> h[n]] /\ h[0] = a
    /\ \A n \in 1..N : h[n - 1] \in S => h[n] = step[n][h[n - 1]]

LEMMA LoopStays ==
    ASSUME NEW N \in Nat, NEW S, NEW a \in S, NEW step \in [1..N -> [S -> S]],
           NEW h, GoesOn(h, N, S, a, step)
    PROVE  h \in [0..N -> S]
<1> DEFINE T == {n \in 0..N : h[n] \in S}
<1>1. 0 \in T  BY DEF GoesOn
<1>2. ASSUME NEW n \in 1..N, n - 1 \in T PROVE n \in T
  <2>1. h[n - 1] \in S /\ n \in 0..N  BY <1>2
  <2>2. h[n] = step[n][h[n - 1]]  BY <2>1 DEF GoesOn
  <2>3. step[n] \in [S -> S]  OBVIOUS
  <2>4. step[n][h[n - 1]] \in S
    BY <2>1, <2>3, Zenon
  <2> QED BY <2>1, <2>2, <2>4
<1>3. 0..N \subseteq T
  <2> HIDE DEF T
  <2> QED BY <1>1, <1>2, UpToSet
<1>4. \A n \in 0..N : h[n] \in S  BY <1>3
<1> QED BY <1>4 DEF GoesOn
=============================================================================
