----------------------------- MODULE Arithmetic -----------------------------
(***************************************************************************)
(* What several proofs need to know about numbers: division, and the       *)
(* induction that a recursive definition over numbers asks for, and sums.  *)
(* The library's induction theorems take a predicate; here a set of        *)
(* numbers takes its place, so that it can be instantiated.                *)
(***************************************************************************)
EXTENDS Integers, Functions, FiniteSetTheorems, WellFoundedInduction, TLAPS

(* a \div u is the number of times that u goes into a.                      *)
LEMMA Division ==
  ASSUME NEW a \in Int, NEW u \in Nat \ {0}
  PROVE  a \div u \in Int /\ (a \div u) * u <= a /\ a < (a \div u) * u + u
BY SMT

LEMMA Products ==
  ASSUME NEW a \in Int, NEW b \in Int, NEW u \in Nat
  PROVE  /\ a * u \in Int /\ b * u \in Int
         /\ (a + b) * u = a * u + b * u /\ (a - b) * u = a * u - b * u
         /\ (a + 1) * u = a * u + u
         /\ a <= b => a * u <= b * u
BY SMT

LEMMA Quotient ==
  ASSUME NEW a \in Int, NEW u \in Nat \ {0}, NEW q \in Int, q * u <= a, a < q * u + u
  PROVE  a \div u = q
<1>1. PICK d \in Int : d = a \div u /\ d * u <= a /\ a < d * u + u
  BY Zenon, Division
<1>2. CASE d < q
  <2>1. (d + 1) * u <= q * u /\ (d + 1) * u = d * u + u /\ d * u \in Int /\ q * u \in Int
    BY SMT, <1>1, <1>2, Products
  <2> QED
    BY SMT, <1>1, <2>1
<1>3. CASE q < d
  <2>1. (q + 1) * u <= d * u /\ (q + 1) * u = q * u + u /\ d * u \in Int /\ q * u \in Int
    BY SMT, <1>1, <1>3, Products
  <2> QED
    BY SMT, <1>1, <2>1
<1> QED
  BY SMT, <1>1, <1>2, <1>3

-----------------------------------------------------------------------------
(* A set of numbers that is not empty has a least one.                     *)
LEMMA Least ==
  ASSUME NEW T \in SUBSET Nat, T # {}
  PROVE  \E x \in T : \A y \in T : x <= y
<1> DEFINE R == OpToRel(<, Nat)
<1>1. IsWellFoundedOn(R, Nat)
  BY Zenon, NatLessThanWellFounded
<1>2. PICK x \in T : \A y \in T : ~(<<y, x>> \in R)
  <2> HIDE DEF R
  <2> QED
    BY Zenon, <1>1, WFMin
<1>3. ASSUME NEW y \in T PROVE x <= y
  <2>1. ~(<<y, x>> \in {pair \in Nat \X Nat : pair[1] < pair[2]})
    BY Zenon, <1>2 DEF OpToRel
  <2> HIDE DEF R
  <2>2. x \in Nat /\ y \in Nat
    OBVIOUS
  <2> QED
    BY SMT, <2>1, <2>2
<1> QED
  BY Zenon, <1>3

LEMMA Induction ==
  ASSUME NEW S \in SUBSET Nat, 0 \in S, \A n \in S : n + 1 \in S
  PROVE  S = Nat
<1> SUFFICES ASSUME Nat \ S # {} PROVE FALSE
  BY Zenon
<1>1. PICK x \in Nat \ S : \A y \in Nat \ S : x <= y
  BY Zenon, Least
<1>2. x - 1 \in Nat /\ x - 1 \in S
  BY SMT, <1>1
<1> QED
  BY SMT, <1>1, <1>2

(* A recursive definition over the numbers of K, 0 to n or all: the value  *)
(* of a number is made from that of the one before.                        *)
Closed(D, step, K) == \A d \in D : \A k \in K : k # 0 => step[<<d, k>>] \in D
IsLoop(f, first, step, K) ==
  f = [k \in K |-> IF k = 0 THEN first ELSE step[<<f[k - 1], k>>]]

LEMMA LoopExists ==
  ASSUME NEW D, NEW first \in D, NEW n \in Nat, NEW step, Closed(D, step, 0 .. n)
  PROVE  \E f \in [0 .. n -> D] : IsLoop(f, first, step, 0 .. n)
<1> DEFINE Eq(f, m) == /\ f \in [0 .. m -> D] /\ f[0] = first
                       /\ \A k \in 1 .. m : f[k] = step[<<f[k - 1], k>>]
           S == {m \in Nat : m <= n => \E f : Eq(f, m)}
<1>1. 0 \in S
  <2> DEFINE f == [k \in 0 .. 0 |-> first]
  <2>1. /\ f \in [0 .. 0 -> D] /\ f[0] = first
        /\ \A k \in 1 .. 0 : FALSE
    BY SMT
  <2> HIDE DEF f
  <2>2. Eq(f, 0)
    BY Zenon, <2>1
  <2> HIDE DEF Eq
  <2> QED
    BY Zenon, <2>2
<1>2. ASSUME NEW m \in S PROVE m + 1 \in S
  <2>0. m \in Nat /\ m + 1 \in Nat
    BY SMT
  <2>1. SUFFICES ASSUME m + 1 <= n PROVE \E f : Eq(f, m + 1)
    BY Zenon, <2>0
  <2>2. m <= n /\ m + 1 \in 1 .. n
    BY SMT, <2>0, <2>1
  <2>3. PICK f : Eq(f, m)
    <3> HIDE DEF Eq
    <3> QED
      BY Zenon, <2>2
  <2>4. step[<<f[m], m + 1>>] \in D
    <3>1. f[m] \in D
      BY SMT, <2>0, <2>3
    <3>2. m + 1 \in 0 .. n /\ m + 1 # 0
      BY SMT, <2>2
    <3> QED
      BY Zenon, <3>1, <3>2 DEF Closed
  <2> DEFINE g == [k \in 0 .. m + 1 |-> IF k = m + 1 THEN step[<<f[m], m + 1>>] ELSE f[k]]
  <2>5. /\ g \in [0 .. m + 1 -> D] /\ g[0] = first
        /\ g[m + 1] = step[<<f[m], m + 1>>]
        /\ \A k \in 0 .. m : g[k] = f[k]
    BY SMT, <2>0, <2>3, <2>4
  <2> HIDE DEF g
  <2>6. ASSUME NEW k \in 1 .. m + 1 PROVE g[k] = step[<<g[k - 1], k>>]
    <3>1. CASE k = m + 1
      <4>1. k - 1 = m /\ m \in 0 .. m
        BY SMT, <2>0, <3>1
      <4> QED
        BY Zenon, <2>5, <3>1, <4>1
    <3>2. CASE k # m + 1
      <4>1. k \in 1 .. m /\ k \in 0 .. m /\ k - 1 \in 0 .. m
        BY SMT, <2>0, <3>2
      <4> QED
        BY Zenon, <2>3, <2>5, <4>1
    <3> QED
      BY Zenon, <3>1, <3>2
  <2>7. Eq(g, m + 1)
    BY Zenon, <2>5, <2>6
  <2> HIDE DEF Eq
  <2> QED
    BY Zenon, <2>7
<1>3. PICK f : Eq(f, n)
  <2>1. S \in SUBSET Nat
    BY Zenon
  <2> HIDE DEF S
  <2>2. S = Nat
    BY Zenon, <1>1, <1>2, <2>1, Induction
  <2>3. n <= n
    BY SMT
  <2>4. n \in S
    BY Zenon, <2>2
  <2> HIDE DEF Eq
  <2> QED
    BY Zenon, <2>3, <2>4 DEF S
<1>4. f = [k \in 0 .. n |-> IF k = 0 THEN first ELSE step[<<f[k - 1], k>>]]
  <2>1. ASSUME NEW k \in 0 .. n
        PROVE  f[k] = IF k = 0 THEN first ELSE step[<<f[k - 1], k>>]
    <3>1. k = 0 \/ k \in 1 .. n
      BY SMT
    <3> QED
      BY Zenon, <1>3, <3>1
  <2>2. f = [k \in 0 .. n |-> f[k]]
    BY Zenon, <1>3
  <2> QED
    BY Zenon, <2>1, <2>2
<1> QED
  BY Zenon, <1>3, <1>4 DEF IsLoop

(* What holds of the first value, and of every one if of that before.      *)
LEMMA Along ==
  ASSUME NEW n \in Nat, NEW S, 0 \in S, \A k \in 1 .. n : k - 1 \in S => k \in S
  PROVE  0 .. n \subseteq S
<1> DEFINE T == {m \in Nat : m <= n => m \in S}
<1>1. T \in SUBSET Nat /\ 0 \in T
  BY Zenon
<1>2. ASSUME NEW m \in T PROVE m + 1 \in T
  <2>1. m + 1 <= n => m + 1 \in 1 .. n /\ m <= n /\ (m + 1) - 1 = m
    BY SMT
  <2>2. m + 1 \in Nat
    BY SMT
  <2>3. ASSUME m + 1 <= n PROVE m + 1 \in S
    <3>1. m \in S
      BY Zenon, <2>1, <2>3
    <3> QED
      BY Zenon, <2>1, <2>3, <3>1
  <2> QED
    BY Zenon, <2>2, <2>3
<1>3. T = Nat
  <2> HIDE DEF T
  <2> QED
    BY Zenon, <1>1, <1>2, Induction
<1>4. ASSUME NEW m \in 0 .. n PROVE m \in S
  <2>1. m \in Nat /\ m <= n
    BY SMT
  <2> QED
    BY Zenon, <1>3, <2>1
<1> QED
  BY Zenon, <1>4

LEMMA Indices ==
  ASSUME NEW n \in Nat
  PROVE  /\ 0 \in 0 .. n /\ n \in 0 .. n
         /\ \A k \in 1 .. n : k \in 0 .. n /\ k # 0 /\ k - 1 \in 0 .. n
         /\ \A k \in 0 .. n : k # 0 => k \in 1 .. n
BY SMT

LEMMA Stays ==
  ASSUME NEW n \in Nat, NEW D, NEW f, f[0] \in D,
         \A k \in 1 .. n : f[k - 1] \in D => f[k] \in D
  PROVE  \A k \in 0 .. n : f[k] \in D
<1> DEFINE S == {k \in 0 .. n : f[k] \in D}
<1>1. 0 \in S
  BY Zenon, Indices
<1>2. ASSUME NEW k \in 1 .. n, k - 1 \in S PROVE k \in S
  BY Zenon, <1>2, Indices
<1>3. 0 .. n \subseteq S
  <2> HIDE DEF S
  <2> QED
    BY Zenon, <1>1, <1>2, Along
<1> QED
  BY Zenon, <1>3

LEMMA RecursionExists ==
  ASSUME NEW D, NEW first \in D, NEW step, Closed(D, step, Nat)
  PROVE  \E f \in [Nat -> D] : IsLoop(f, first, step, Nat)
<1> DEFINE g(m) == CHOOSE f : f \in [0 .. m -> D] /\ IsLoop(f, first, step, 0 .. m)
           h == [m \in Nat |-> g(m)[m]]
<1>1. ASSUME NEW m \in Nat
      PROVE  /\ g(m) \in [0 .. m -> D] /\ g(m)[0] = first
             /\ \A k \in 1 .. m : g(m)[k] = step[<<g(m)[k - 1], k>>]
  <2>1. Closed(D, step, 0 .. m)
    <3>1. \A k \in 0 .. m : k \in Nat
      BY SMT
    <3> QED
      BY Zenon, <3>1 DEF Closed
  <2>2. \E f \in [0 .. m -> D] : IsLoop(f, first, step, 0 .. m)
    BY Zenon, <2>1, LoopExists
  <2>3. g(m) \in [0 .. m -> D] /\ IsLoop(g(m), first, step, 0 .. m)
    BY Zenon, <2>2
  <2> HIDE DEF g
  <2>4. 0 \in 0 .. m /\ \A k \in 1 .. m : k \in 0 .. m /\ k # 0
    BY SMT
  <2>5. \A k \in 0 .. m : g(m)[k] = IF k = 0 THEN first ELSE step[<<g(m)[k - 1], k>>]
    BY Zenon, <2>3 DEF IsLoop
  <2> QED
    BY Zenon, <2>3, <2>4, <2>5
<1> HIDE DEF g
<1>2. ASSUME NEW m \in Nat PROVE g(m + 1)[m] = g(m)[m]
  <2> DEFINE S == {k \in 0 .. m : g(m + 1)[k] = g(m)[k]}
  <2>1. m + 1 \in Nat /\ 0 \in 0 .. m /\ m \in 0 .. m
    BY SMT
  <2>2. 0 \in S
    BY Zenon, <1>1, <2>1
  <2>3. ASSUME NEW k \in 1 .. m, k - 1 \in S PROVE k \in S
    <3>1. k \in 0 .. m /\ k \in 1 .. m + 1
      BY SMT
    <3>2. g(m + 1)[k - 1] = g(m)[k - 1]
      BY Zenon, <2>3
    <3> QED
      BY ZenonT(30), <1>1, <2>1, <3>1, <3>2
  <2>4. 0 .. m \subseteq S
    <3> HIDE DEF S
    <3> QED
      BY Zenon, <2>2, <2>3, Along
  <2> QED
    BY Zenon, <2>1, <2>4
<1>3. h \in [Nat -> D]
  <2>1. ASSUME NEW m \in Nat PROVE g(m)[m] \in D
    <3>1. m \in 0 .. m
      BY SMT
    <3> QED
      BY Zenon, <1>1, <3>1
  <2> QED
    BY Zenon, <2>1
<1>4. ASSUME NEW m \in Nat
      PROVE  h[m] = IF m = 0 THEN first ELSE step[<<h[m - 1], m>>]
  <2>1. CASE m = 0
    BY Zenon, <1>1, <2>1
  <2>2. CASE m # 0
    <3>1. m - 1 \in Nat /\ (m - 1) + 1 = m /\ m \in 1 .. m
      BY SMT, <2>2
    <3>2. g(m)[m - 1] = g(m - 1)[m - 1]
      BY Zenon, <1>2, <3>1
    <3>3. g(m)[m] = step[<<g(m)[m - 1], m>>]
      BY Zenon, <1>1, <3>1
    <3> QED
      BY Zenon, <2>2, <3>1, <3>2, <3>3
  <2> QED
    BY Zenon, <2>1, <2>2
<1>5. h = [k \in Nat |-> IF k = 0 THEN first ELSE step[<<h[k - 1], k>>]]
  <2>1. h = [k \in Nat |-> h[k]]
    BY Zenon
  <2> HIDE DEF h
  <2> QED
    BY Zenon, <1>4, <2>1
<1> HIDE DEF h
<1> QED
  BY Zenon, <1>3, <1>5 DEF IsLoop

-----------------------------------------------------------------------------
(* Sums.  FoldFunction takes the indices in an order that is not known, by *)
(* a function on all sets of them, a sum for each.                         *)

Total(f) == FoldFunction(+, 0, f)

Some(s) == CHOOSE x \in s : TRUE
PartOf(f, h, s) == IF s = {} THEN 0 ELSE f[Some(s)] + h[s \ {Some(s)}]
Partial(f, S, h) == h = [s \in SUBSET S |-> PartOf(f, h, s)]

(* The sums of the sets of up to k indices are right after k passes.       *)
LEMMA PartialExists ==
  ASSUME NEW S, IsFiniteSet(S), NEW f \in [S -> Int]
  PROVE  \E h \in [SUBSET S -> Int] : Partial(f, S, h)
<1> DEFINE D == [SUBSET S -> Int]
           n == Cardinality(S)
           N == n + 1
           first == [s \in SUBSET S |-> 0]
           better(h) == [s \in SUBSET S |-> PartOf(f, h, s)]
           step == [x \in D \X (0 .. N) |-> better(x[1])]
<1>1. n \in Nat /\ N \in Nat /\ \A s \in SUBSET S : IsFiniteSet(s) /\ Cardinality(s) \in Nat
  <2>1. n \in Nat
    BY Zenon, FS_CardinalityType
  <2>2. \A s \in SUBSET S : IsFiniteSet(s) /\ Cardinality(s) \in Nat
    BY Zenon, FS_Subset, FS_CardinalityType
  <2> QED
    BY SMT, <2>1, <2>2
<1>2. ASSUME NEW s \in SUBSET S, s # {}
      PROVE  /\ Some(s) \in S /\ s \ {Some(s)} \in SUBSET S
             /\ Cardinality(s \ {Some(s)}) = Cardinality(s) - 1
  <2>1. Some(s) \in s
    BY Zenon, <1>2 DEF Some
  <2>2. Cardinality(s \ {Some(s)}) = Cardinality(s) - 1
    BY Zenon, <1>1, <2>1, FS_RemoveElement
  <2> QED
    BY Zenon, <2>1, <2>2
<1> HIDE DEF n
<1>3. ASSUME NEW h \in D PROVE better(h) \in D
  <2>1. ASSUME NEW s \in SUBSET S PROVE PartOf(f, h, s) \in Int
    <3>1. CASE s = {}
      BY SMT, <3>1 DEF PartOf
    <3>2. CASE s # {}
      <4>1. f[Some(s)] \in Int /\ h[s \ {Some(s)}] \in Int
        BY Zenon, <1>2, <3>2
      <4> QED
        BY SMT, <3>2, <4>1 DEF PartOf
    <3> QED
      BY Zenon, <3>1, <3>2
  <2> QED
    BY Zenon, <2>1
<1>4. first \in D
  BY SMT
<1> HIDE DEF N
<1>5. ASSUME NEW h \in D, NEW k \in 0 .. N PROVE step[<<h, k>>] = better(h)
  BY Zenon
<1> HIDE DEF D, first, step
<1>6. PICK g \in [0 .. N -> D] : IsLoop(g, first, step, 0 .. N)
  <2>1. Closed(D, step, 0 .. N)
    <3> HIDE DEF better
    <3> QED
      BY Zenon, <1>3, <1>5 DEF Closed
  <2> QED
    BY Zenon, <1>1, <1>4, <2>1, LoopExists
<1> HIDE DEF better
<1>7. g[0] = first /\ \A k \in 1 .. N : g[k] = better(g[k - 1])
  <2>1. ASSUME NEW k \in 1 .. N PROVE g[k] = better(g[k - 1])
    <3>1. k \in 0 .. N /\ k # 0 /\ k - 1 \in 0 .. N
      BY Zenon, <1>1, Indices
    <3>2. g[k] = step[<<g[k - 1], k>>]
      BY Zenon, <1>6, <3>1 DEF IsLoop
    <3> QED
      BY Zenon, <1>5, <1>6, <3>1, <3>2
  <2>2. g[0] = first
    BY Zenon, <1>1, <1>6, Indices DEF IsLoop
  <2> QED
    BY Zenon, <2>1, <2>2
<1> DEFINE Right(k) == \A s \in SUBSET S : Cardinality(s) <= k => better(g[k])[s] = g[k][s]
           T == {k \in 0 .. n : Right(k)}
<1>8. 0 \in T
  <2>1. ASSUME NEW s \in SUBSET S, Cardinality(s) <= 0 PROVE better(g[0])[s] = g[0][s]
    <3>1. Cardinality(s) = 0
      BY SMT, <1>1, <2>1
    <3>2. s = {}
      BY Zenon, <1>1, <3>1, FS_EmptySet
    <3> QED
      BY Zenon, <1>7, <3>2 DEF better, PartOf, first
  <2> QED
    BY Zenon, <1>1, <2>1, Indices
<1>9. ASSUME NEW k \in 1 .. n, k - 1 \in T PROVE k \in T
  <2>0. k \in 1 .. N /\ k \in 0 .. n /\ k \in Nat
    BY SMT, <1>1 DEF N
  <2>1. ASSUME NEW s \in SUBSET S, Cardinality(s) <= k PROVE better(g[k])[s] = g[k][s]
    <3>1. g[k][s] = PartOf(f, g[k - 1], s) /\ better(g[k])[s] = PartOf(f, g[k], s)
      BY Zenon, <1>7, <2>0 DEF better
    <3>2. CASE s = {}
      BY Zenon, <3>1, <3>2 DEF PartOf
    <3>3. CASE s # {}
      <4> DEFINE r == s \ {Some(s)}
      <4>1. r \in SUBSET S /\ Cardinality(r) = Cardinality(s) - 1
        BY Zenon, <1>2, <3>3
      <4>2. Cardinality(r) <= k - 1
        <5>1. Cardinality(s) \in Nat
          BY Zenon, <1>1
        <5> HIDE DEF r
        <5> QED
          BY SMT, <2>0, <2>1, <4>1, <5>1
      <4>3. better(g[k - 1])[r] = g[k - 1][r]
        BY Zenon, <1>9, <4>1, <4>2
      <4>4. g[k][r] = g[k - 1][r]
        BY Zenon, <1>7, <2>0, <4>3
      <4> QED
        BY Zenon, <3>1, <3>3, <4>4 DEF PartOf
    <3> QED
      BY Zenon, <3>2, <3>3
  <2> QED
    BY Zenon, <2>0, <2>1
<1>10. n \in T
  <2>1. 0 .. n \subseteq T
    <3> HIDE DEF T
    <3> QED
      BY Zenon, <1>1, <1>8, <1>9, Along
  <2> QED
    BY Zenon, <1>1, <2>1, Indices
<1>11. n \in 0 .. N
  BY SMT, <1>1 DEF N
<1>12. ASSUME NEW s \in SUBSET S PROVE PartOf(f, g[n], s) = g[n][s]
  <2>1. Cardinality(s) <= n
    BY Zenon, FS_Subset DEF n
  <2> QED
    BY Zenon, <1>10, <2>1 DEF better
<1>13. g[n] \in [SUBSET S -> Int]
  BY Zenon, <1>6, <1>11 DEF D
<1>14. g[n] = [s \in SUBSET S |-> g[n][s]]
  BY Zenon, <1>13
<1>15. Partial(f, S, g[n])
  BY Zenon, <1>12, <1>14 DEF Partial
<1> QED
  BY Zenon, <1>13, <1>15

(* What a sum is.                                                          *)
Parts(f, S, h) ==
  /\ h[{}] = 0
  /\ \A s \in SUBSET S : s # {} => h[s] = f[Some(s)] + h[s \ {Some(s)}]

LEMMA TotalIs ==
  ASSUME NEW S, IsFiniteSet(S), NEW f \in [S -> Int]
  PROVE  \E h : Parts(f, S, h) /\ Total(f) = h[S]
<1>1. PICK h : Partial(f, S, h) /\ Total(f) = h[S]
  <2>1. Total(f) = (CHOOSE h : Partial(f, S, h))[S]
    BY Zenon DEF Total, FoldFunction, FoldFunctionOnSet, MapThenFoldSet, Partial, PartOf, Some
  <2>2. \E h : Partial(f, S, h)
    BY Zenon, PartialExists
  <2> QED
    BY Zenon, <2>1, <2>2
<1>2. \A s \in SUBSET S : h[s] = PartOf(f, h, s)
  BY Zenon, <1>1 DEF Partial
<1>3. {} \in SUBSET S
  BY Zenon
<1> QED
  BY Zenon, <1>1, <1>2, <1>3 DEF Parts, PartOf

(* What holds of no indices, and of some if it does without one of them.   *)
LEMMA BySubsets ==
  ASSUME NEW S, IsFiniteSet(S), NEW Q, {} \in Q,
         \A s \in SUBSET S : s # {} /\ s \ {Some(s)} \in Q => s \in Q
  PROVE  S \in Q
<1> DEFINE n == Cardinality(S)
           T == {k \in 0 .. n : \A s \in SUBSET S : Cardinality(s) = k => s \in Q}
<1>1. n \in Nat /\ \A s \in SUBSET S : IsFiniteSet(s) /\ Cardinality(s) \in Nat
  BY Zenon, FS_Subset, FS_CardinalityType
<1> HIDE DEF n
<1>2. 0 \in T
  <2>1. \A s \in SUBSET S : Cardinality(s) = 0 => s = {}
    BY Zenon, <1>1, FS_EmptySet
  <2> QED
    BY Zenon, <1>1, <2>1, Indices
<1>3. ASSUME NEW k \in 1 .. n, k - 1 \in T PROVE k \in T
  <2>1. k \in 0 .. n /\ k # 0
    BY Zenon, <1>1, Indices
  <2>2. ASSUME NEW s \in SUBSET S, Cardinality(s) = k PROVE s \in Q
    <3>1. s # {}
      BY Zenon, <2>1, <2>2, FS_EmptySet
    <3>2. Some(s) \in s
      BY Zenon, <3>1 DEF Some
    <3>3. s \ {Some(s)} \in SUBSET S /\ Cardinality(s \ {Some(s)}) = k - 1
      BY Zenon, <1>1, <2>2, <3>2, FS_RemoveElement
    <3> QED
      BY Zenon, <1>3, <3>1, <3>3
  <2> QED
    BY Zenon, <2>1, <2>2
<1>4. 0 .. n \subseteq T
  <2> HIDE DEF T
  <2> QED
    BY Zenon, <1>1, <1>2, <1>3, Along
<1>5. n \in T
  BY Zenon, <1>1, <1>4, Indices
<1> QED
  BY Zenon, <1>5 DEF n

LEMMA TotalOfNothing ==
  ASSUME NEW S, IsFiniteSet(S), NEW f \in [S -> Int], \A x \in S : f[x] = 0
  PROVE  Total(f) = 0
<1>1. PICK h : Parts(f, S, h) /\ Total(f) = h[S]
  BY Zenon, TotalIs
<1> DEFINE Q == {s \in SUBSET S : h[s] = 0}
<1>2. {} \in Q
  BY Zenon, <1>1 DEF Parts
<1>3. ASSUME NEW s \in SUBSET S, s # {}, s \ {Some(s)} \in Q PROVE s \in Q
  <2>1. Some(s) \in s
    BY Zenon, <1>3 DEF Some
  <2>2. h[s] = 0 + 0
    BY Zenon, <1>1, <1>3, <2>1 DEF Parts
  <2> QED
    BY SMT, <2>2
<1>4. S \in Q
  <2> HIDE DEF Q
  <2> QED
    BY Zenon, <1>2, <1>3, BySubsets
<1> QED
  BY Zenon, <1>1, <1>4

(* One more at an index is one more in all.                                *)
MoreAt(e, f, S, t, d) ==
  /\ IsFiniteSet(S) /\ e \in [S -> Int] /\ f \in [S -> Int] /\ t \in S /\ d \in Int
  /\ e[t] = f[t] + d
  /\ \A x \in S : x # t => e[x] = f[x]

LEMMA TotalMoves ==
  ASSUME NEW e, NEW f, NEW S, NEW t, NEW d, MoreAt(e, f, S, t, d)
  PROVE  Total(f) \in Int /\ Total(e) = Total(f) + d
<1> USE DEF MoreAt
<1>1. PICK h : Parts(f, S, h) /\ Total(f) = h[S]
  BY Zenon, TotalIs
<1>2. PICK g : Parts(e, S, g) /\ Total(e) = g[S]
  BY Zenon, TotalIs
<1> DEFINE Q == {s \in SUBSET S : h[s] \in Int /\ g[s] = h[s] + (IF t \in s THEN d ELSE 0)}
<1>3. {} \in Q
  <2>1. h[{}] = 0 /\ g[{}] = 0
    BY Zenon, <1>1, <1>2 DEF Parts
  <2> QED
    BY SMT, <2>1
<1>4. ASSUME NEW s \in SUBSET S, s # {}, s \ {Some(s)} \in Q PROVE s \in Q
  <2> DEFINE x == Some(s)
             r == s \ {x}
  <2>1. x \in s /\ x \in S
    BY Zenon, <1>4 DEF Some
  <2>2. h[s] = f[x] + h[r] /\ g[s] = e[x] + g[r]
    BY Zenon, <1>1, <1>2, <1>4 DEF Parts
  <2>3. h[r] \in Int /\ g[r] = h[r] + (IF t \in r THEN d ELSE 0)
    BY Zenon, <1>4
  <2>4. t \in s <=> x = t \/ t \in r
    BY Zenon, <2>1
  <2>5. x = t => t \notin r
    BY Zenon
  <2> HIDE DEF x, r
  <2>6. f[x] \in Int /\ e[x] = f[x] + (IF x = t THEN d ELSE 0)
    <3>1. CASE x = t
      BY SMT, <2>1, <3>1
    <3>2. CASE x # t
      BY SMT, <2>1, <3>2
    <3> QED
      BY Zenon, <3>1, <3>2
  <2> QED
    BY SMT, <2>2, <2>3, <2>4, <2>5, <2>6
<1>5. S \in Q
  <2> HIDE DEF Q
  <2> QED
    BY Zenon, <1>3, <1>4, BySubsets
<1> QED
  BY Zenon, <1>1, <1>2, <1>5

=============================================================================
