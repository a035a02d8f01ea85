--------------------------- MODULE InductionLemmas ---------------------------
(***************************************************************************)
(* Facts that the proofs share: induction as the principle of the least    *)
(* number, recursive functions on an interval, and what they compute.      *)
(***************************************************************************)
EXTENDS WellFoundedInduction, SequenceTheorems, TLAPS

(* The leaves go to SMT, and to Zenon where they name it.                  *)
USE SMTT(30)

(* Every nonempty set of natural numbers has a least element.  A proof by  *)
(* induction takes the least number for which a claim fails.               *)
LEMMA LeastNat ==
    ASSUME NEW T \in SUBSET Nat, T # {}
    PROVE  \E n \in T : \A m \in T : n <= m
<1> DEFINE R == OpToRel(<, Nat)
<1>1. IsWellFoundedOn(R, Nat)
  BY Zenon, NatLessThanWellFounded
<1>2. \A x, y \in Nat : y < x => <<y, x>> \in R
  BY DEF OpToRel
<1> HIDE DEF R
<1>3. PICK n \in T : \A m \in T : ~(<<m, n>> \in R)
  BY Zenon, <1>1, WFMin
<1>4. \A m \in T : ~(m < n)
  BY Zenon, <1>2, <1>3
<1> QED BY <1>4

(* A set that holds 0 and is closed under the successor up to n holds all  *)
(* of 0..n.                                                                *)
LEMMA IntervalInduction ==
    ASSUME NEW n \in Nat, NEW P, 0 \in P,
           \A i \in 1..n : i - 1 \in P => i \in P
    PROVE  0..n \subseteq P
<1> SUFFICES ASSUME NEW x \in 0..n, x \notin P PROVE FALSE
  OBVIOUS
<1> DEFINE T == {i \in 0..n : i \notin P}
<1>1. T \in SUBSET Nat /\ T # {}
  OBVIOUS
<1>2. PICK m \in T : \A k \in T : m <= k
  BY Zenon, <1>1, LeastNat
<1>3. m \in 1..n /\ m \notin P /\ m - 1 \in 0..n
  BY <1>2
<1>4. m - 1 \notin T
  BY <1>2, <1>3
<1> QED BY <1>3, <1>4

(* The recursion over 0..n from base with the given steps.                 *)
Recursion(f, n, base, step) == f[0] = base /\ \A i \in 1..n : f[i] = step[i][f[i - 1]]

(* A recursion with values in X defines a function.                        *)
LEMMA RecursionExists ==
    ASSUME NEW n \in Nat, NEW X, NEW base \in X, NEW step \in [1..n -> [X -> X]]
    PROVE  \E f \in [0..n -> X] : Recursion(f, n, base, step)
<1> DEFINE Upto(m, f) == /\ f \in [0..m -> X] /\ f[0] = base
                         /\ \A i \in 1..m : f[i] = step[i][f[i - 1]]
           P == {m \in 0..n : \E f : Upto(m, f)}
<1>1. 0 \in P
  <2>1. Upto(0, [i \in 0..0 |-> base])
    OBVIOUS
  <2> HIDE DEF Upto
  <2> QED BY <2>1
<1>2. ASSUME NEW m \in 1..n, m - 1 \in P PROVE m \in P
  <2>1. PICK f : Upto(m - 1, f)
    BY <1>2
  <2>2. /\ m - 1 \in 0..(m - 1)
        /\ f \in [0..(m - 1) -> X] /\ f[0] = base
        /\ \A i \in 1..(m - 1) : f[i] = step[i][f[i - 1]]
    BY <2>1
  <2> DEFINE v == step[m][f[m - 1]]
             g == [i \in 0..m |-> IF i = m THEN v ELSE f[i]]
  <2>3. v \in X
    BY <2>2
  <2> HIDE DEF v
  <2>4. g \in [0..m -> X]
    <3>1. ASSUME NEW i \in 0..m, i # m PROVE i \in 0..(m - 1)
      BY <3>1
    <3> QED BY <2>2, <2>3, <3>1
  <2>5. g[0] = base
    BY <2>2
  <2>6. ASSUME NEW i \in 1..m PROVE g[i] = step[i][g[i - 1]]
    <3>1. i - 1 \in 0..m /\ i - 1 # m /\ g[i - 1] = f[i - 1]
      OBVIOUS
    <3>2. CASE i = m
      BY <3>1, <3>2 DEF v
    <3>3. CASE i # m
      <4>1. i \in 1..(m - 1) /\ g[i] = f[i]
        BY <3>3
      <4> HIDE DEF g
      <4> QED BY <2>2, <3>1, <4>1
    <3> QED BY <3>2, <3>3
  <2> HIDE DEF g
  <2>7. Upto(m, g)
    BY <2>4, <2>5, <2>6
  <2> HIDE DEF Upto
  <2> QED BY <2>7
<1> HIDE DEF P
<1>3. n \in P
  <2>1. 0..n \subseteq P
    BY Zenon, <1>1, <1>2, IntervalInduction
  <2> QED BY <2>1
<1>4. PICK f : Upto(n, f)
  BY <1>3 DEF P
<1>5. Recursion(f, n, base, step)
  BY <1>4 DEF Recursion
<1> QED BY <1>4, <1>5

-----------------------------------------------------------------------------
(* f[i] is the sum of the first i of n numbers w.                          *)
PartialSums(f, n, w) == f = [i \in 0..n |-> IF i = 0 THEN 0 ELSE f[i - 1] + w[i]]

(* The partial sums of w exist.                                            *)
LEMMA SumsExist ==
    ASSUME NEW n \in Nat, NEW w \in [1..n -> Nat]
    PROVE  \E f \in [0..n -> Nat] : PartialSums(f, n, w)
<1> DEFINE step == [i \in 1..n |-> [v \in Nat |-> v + w[i]]]
<1>1. step \in [1..n -> [Nat -> Nat]]
  OBVIOUS
<1>2. \A i \in 1..n, v \in Nat : step[i][v] = v + w[i]
  OBVIOUS
<1> HIDE DEF step
<1>3. PICK f \in [0..n -> Nat] : Recursion(f, n, 0, step)
  BY Zenon, <1>1, RecursionExists
<1>4. ASSUME NEW i \in 0..n PROVE f[i] = IF i = 0 THEN 0 ELSE f[i - 1] + w[i]
  <2>1. CASE i = 0
    BY <1>3, <2>1 DEF Recursion
  <2>2. CASE i # 0
    <3>1. i \in 1..n /\ i - 1 \in 0..n /\ f[i - 1] \in Nat
      BY <2>2
    <3>2. f[i] = step[i][f[i - 1]]
      BY <1>3, <3>1 DEF Recursion
    <3> QED BY Zenon, <1>2, <2>2, <3>1, <3>2
  <2> QED BY <2>1, <2>2
<1>5. f = [i \in 0..n |-> IF i = 0 THEN 0 ELSE f[i - 1] + w[i]]
  BY <1>4
<1> QED BY <1>5 DEF PartialSums

(* v and w have the same first n numbers.                                  *)
Alike(n, v, w) == \A i \in 1..n : v[i] = w[i]

(* The sums of a prefix are the first sums.                                *)
LEMMA SumsOfPrefix ==
    ASSUME NEW n \in Nat, NEW m \in Nat, n <= m, NEW f, NEW g, NEW v, NEW w,
           PartialSums(f, n, v), PartialSums(g, m, w), Alike(n, v, w)
    PROVE  f[0] = g[0] /\ Alike(n, f, g)
<1> DEFINE P == {i \in 0..n : f[i] = g[i]}
<1>1. 0 \in P
  BY DEF PartialSums
<1>2. ASSUME NEW i \in 1..n, i - 1 \in P PROVE i \in P
  <2>1. i \in 0..n /\ i \in 0..m /\ i # 0 /\ f[i - 1] = g[i - 1]
    BY <1>2
  <2>2. f[i] = f[i - 1] + v[i] /\ g[i] = g[i - 1] + w[i]
    BY <2>1 DEF PartialSums
  <2> QED BY <2>1, <2>2 DEF Alike
<1> HIDE DEF P
<1>3. 0..n \subseteq P
  BY <1>1, <1>2, IntervalInduction
<1> QED BY <1>3 DEF P, Alike

(* The sums of what follows the first number.                              *)
LEMMA SumsOfRest ==
    ASSUME NEW n \in Nat, NEW f \in [0..(n + 1) -> Nat], NEW g \in [0..n -> Nat], NEW v,
           NEW w \in [1..(n + 1) -> Nat],
           PartialSums(f, n + 1, w), PartialSums(g, n, v), \A i \in 1..n : v[i] = w[i + 1]
    PROVE  \A i \in 0..n : f[i + 1] = g[i] + w[1]
<1> DEFINE P == {i \in 0..n : f[i + 1] = g[i] + w[1]}
<1>0. \A i \in 0..(n + 1) : f[i] = IF i = 0 THEN 0 ELSE f[i - 1] + w[i]
  BY DEF PartialSums
<1>00. \A i \in 0..n : g[i] = IF i = 0 THEN 0 ELSE g[i - 1] + v[i]
  BY DEF PartialSums
<1>1. 0 \in P
  <2>1. f[0] = 0 /\ f[1] = f[1 - 1] + w[1] /\ g[0] = 0 /\ w[1] \in Nat
    BY <1>0, <1>00
  <2> QED BY <2>1
<1>2. ASSUME NEW i \in 1..n, i - 1 \in P PROVE i \in P
  <2>1. f[i] = g[i - 1] + w[1] /\ f[i] \in Nat /\ g[i - 1] \in Nat /\ w[1] \in Nat
    BY <1>2
  <2>2. f[i + 1] = f[i] + w[i + 1]
    BY <1>0
  <2>3. i \in 0..n /\ i # 0 /\ i + 1 \in 1..(n + 1) /\ v[i] = w[i + 1]
    OBVIOUS
  <2>4. g[i] = g[i - 1] + v[i] /\ w[i + 1] \in Nat
    BY <1>00, <2>3
  <2>5. g[i] = g[i - 1] + w[i + 1]
    BY <2>3, <2>4
  <2>6. ASSUME NEW a \in Nat, NEW b \in Nat, NEW c \in Nat
        PROVE  (a + b) + c = (a + c) + b
    OBVIOUS
  <2>7. f[i + 1] = g[i] + w[1]
    <3> HIDE DEF P
    <3>1. f[i + 1] = (g[i - 1] + w[1]) + w[i + 1]
      BY <2>1, <2>2
    <3>2. (g[i - 1] + w[1]) + w[i + 1] = (g[i - 1] + w[i + 1]) + w[1]
      BY Zenon, <2>1, <2>4, <2>6
    <3> QED BY <2>5, <3>1, <3>2
  <2> QED BY <2>3, <2>7
<1> HIDE DEF P
<1>3. 0..n \subseteq P
  BY Zenon, <1>1, <1>2, IntervalInduction
<1> QED BY <1>3 DEF P
=============================================================================
