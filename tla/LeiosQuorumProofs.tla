------------------------- MODULE LeiosQuorumProofs --------------------------
(***************************************************************************)
(* The quorum of an election is exact, for every committee and every order *)
(* of votes.                                                               *)
(***************************************************************************)
EXTENDS LeiosNodeProofs, InductionLemmas, FiniteSetTheorems

(* The leaves go to Zenon, and to SMT where they name it.                  *)
USE Zenon

-----------------------------------------------------------------------------
(* Sums over a finite set, whose members are chosen one after the other.   *)
Pick(T) == CHOOSE x \in T : TRUE

AfterPick(g, S, w) ==
    [T \in SUBSET S |-> IF T = {} THEN 0 ELSE w[Pick(T)] + g[T \ {Pick(T)}]]

SetSums(g, S, w) == g = AfterPick(g, S, w)

(* The chosen member is one, and the rest is a subset.                     *)
LEMMA PickProperties ==
    ASSUME NEW S, IsFiniteSet(S), NEW T \in SUBSET S, T # {}
    PROVE  /\ Pick(T) \in T /\ Pick(T) \in S /\ T \ {Pick(T)} \in SUBSET S
<1>1. Pick(T) \in T
  BY DEF Pick
<1> QED BY <1>1

(* Every subset of a finite set has a size, and one less without a member. *)
LEMMA SubsetSize ==
    ASSUME NEW S, IsFiniteSet(S), NEW T \in SUBSET S
    PROVE  /\ IsFiniteSet(T) /\ Cardinality(T) \in 0..Cardinality(S)
           /\ Cardinality(S) \in Nat
           /\ Cardinality(T) = 0 <=> T = {}
           /\ \A x \in T : Cardinality(T \ {x}) = Cardinality(T) - 1
<1>1. IsFiniteSet(T) /\ Cardinality(T) <= Cardinality(S) /\ Cardinality(S) \in Nat /\ Cardinality(T) \in Nat
  BY FS_Subset, FS_CardinalityType
<1>2. Cardinality(T) = 0 <=> T = {}
  BY <1>1, FS_EmptySet
<1>3. \A x \in T : Cardinality(T \ {x}) = Cardinality(T) - 1
  BY <1>1, FS_RemoveElement
<1> QED BY SMTT(30), <1>1, <1>2, <1>3

(* The sums over the subsets of a finite set exist ...                     *)
LEMMA SetSumsExist ==
    ASSUME NEW S, IsFiniteSet(S), NEW w \in [S -> Nat]
    PROVE  \E g \in [SUBSET S -> Nat] : SetSums(g, S, w)
<1> DEFINE n == Cardinality(S)
           X == [SUBSET S -> Nat]
           step == [i \in 1..n |-> [g \in X |-> AfterPick(g, S, w)]]
           base == [T \in SUBSET S |-> 0]
<1>1. n \in Nat /\ base \in X
  BY SubsetSize
<1>2. ASSUME NEW g \in X PROVE AfterPick(g, S, w) \in X
  <2>1. ASSUME NEW T \in SUBSET S, T # {}
        PROVE  w[Pick(T)] + g[T \ {Pick(T)}] \in Nat
    <3>1. Pick(T) \in S /\ T \ {Pick(T)} \in SUBSET S
      BY <2>1, PickProperties
    <3>2. w[Pick(T)] \in Nat /\ g[T \ {Pick(T)}] \in Nat
      BY <3>1
    <3> QED BY SMTT(30), <3>2
  <2> QED BY <2>1 DEF AfterPick
<1>3. step \in [1..n -> [X -> X]]
  BY <1>2
<1> HIDE DEF X, base
<1>4. PICK f \in [0..n -> X] : Recursion(f, n, base, step)
  <2> HIDE DEF step, n
  <2> QED BY <1>1, <1>3, RecursionExists
<1>5. f[0] = base /\ \A i \in 1..n : i - 1 \in 0..n /\ f[i] = AfterPick(f[i - 1], S, w)
  <2>1. f[0] = base /\ \A i \in 1..n : f[i] = step[i][f[i - 1]]
    BY <1>4 DEF Recursion
  <2>2. \A i \in 1..n : i - 1 \in 0..n
    BY SMTT(30), <1>1
  <2> QED BY <1>4, <2>1, <2>2
<1> HIDE DEF step
<1> DEFINE Fixed(i, T) == AfterPick(f[i], S, w)[T] = f[i][T]
           P == {i \in 0..n : \A T \in SUBSET S : Cardinality(T) <= i => Fixed(i, T)}
<1>6. 0 \in P
  <2>1. ASSUME NEW T \in SUBSET S, Cardinality(T) <= 0 PROVE Fixed(0, T)
    <3>1. T = {}
      BY SMTT(30), <2>1, SubsetSize
    <3> QED BY <1>5, <3>1 DEF AfterPick, base
  <2> HIDE DEF Fixed
  <2> QED BY SMTT(30), <1>1, <2>1
<1>7. ASSUME NEW i \in 1..n, i - 1 \in P PROVE i \in P
  <2>1. ASSUME NEW T \in SUBSET S, Cardinality(T) <= i PROVE Fixed(i, T)
    <3>1. f[i] = AfterPick(f[i - 1], S, w)
      BY <1>5
    <3>2. CASE T = {}
      BY <3>1, <3>2 DEF AfterPick
    <3>3. CASE T # {}
      <4> DEFINE R == T \ {Pick(T)}
      <4>1. Pick(T) \in T /\ R \in SUBSET S
        BY <3>3, PickProperties
      <4>2. Cardinality(R) = Cardinality(T) - 1 /\ Cardinality(T) \in Nat
        BY <4>1, SubsetSize
      <4>3. Cardinality(R) <= i - 1
        BY SMTT(30), <2>1, <4>2
      <4>4. Fixed(i - 1, R)
        <5> HIDE DEF Fixed, R
        <5> QED BY <1>7, <4>1, <4>3
      <4>5. f[i][R] = f[i - 1][R]
        BY <3>1, <4>4
      <4>6. AfterPick(f[i], S, w)[T] = w[Pick(T)] + f[i][R]
        BY <3>3 DEF AfterPick
      <4>7. f[i][T] = w[Pick(T)] + f[i - 1][R]
        BY <3>1, <3>3 DEF AfterPick
      <4> QED BY <4>5, <4>6, <4>7
    <3> QED BY <3>2, <3>3
  <2> HIDE DEF Fixed
  <2> QED BY SMTT(30), <1>1, <2>1
<1> HIDE DEF P
<1>8. n \in P
  <2> HIDE DEF n
  <2>1. 0..n \subseteq P
    BY <1>1, <1>6, <1>7, IntervalInduction
  <2> QED BY SMTT(30), <1>1, <2>1
<1>9. \A T \in SUBSET S : AfterPick(f[n], S, w)[T] = f[n][T]
  <2>1. \A T \in SUBSET S : Cardinality(T) <= n
    BY SMTT(30), SubsetSize
  <2> HIDE DEF n
  <2> QED BY <1>8, <2>1 DEF P
<1>10. f[n] \in [SUBSET S -> Nat]
  <2> HIDE DEF n
  <2> QED BY SMTT(30), <1>1, <1>4 DEF X
<1>11. f[n] = AfterPick(f[n], S, w)
  <2> HIDE DEF n
  <2> QED BY <1>9, <1>10 DEF AfterPick
<1> HIDE DEF n
<1> QED BY <1>10, <1>11 DEF SetSums

(* Any member may be taken first.                                          *)
SplitsAnywhere(g, S, w) ==
    \A T \in SUBSET S : g[T] \in Nat /\ \A x \in T : g[T] = w[x] + g[T \ {x}]

(* ... and do not depend on the order in which members are chosen.         *)
LEMMA SetSumsSplit ==
    ASSUME NEW S, IsFiniteSet(S), NEW w \in [S -> Nat], NEW g, SetSums(g, S, w)
    PROVE  SplitsAnywhere(g, S, w)
<1> DEFINE n == Cardinality(S)
           Splits(T) == g[T] \in Nat /\ \A x \in T : g[T] = w[x] + g[T \ {x}]
           P == {i \in 0..n : \A T \in SUBSET S : Cardinality(T) <= i => Splits(T)}
<1>1. n \in Nat /\ \A T \in SUBSET S : Cardinality(T) <= n
  BY SMTT(30), SubsetSize
<1>2. g[{}] = 0
  BY DEF SetSums, AfterPick
<1>3. ASSUME NEW T \in SUBSET S, T # {}
      PROVE  g[T] = w[Pick(T)] + g[T \ {Pick(T)}]
  BY <1>3 DEF SetSums, AfterPick
<1>4. 0 \in P
  <2>1. ASSUME NEW T \in SUBSET S, Cardinality(T) <= 0 PROVE Splits(T)
    <3>1. T = {}
      BY SMTT(30), <2>1, SubsetSize
    <3> QED BY SMTT(30), <1>2, <3>1
  <2> HIDE DEF Splits
  <2> QED BY SMTT(30), <1>1, <2>1
<1>5. ASSUME NEW i \in 1..n, i - 1 \in P PROVE i \in P
  <2>0. \A R \in SUBSET S : Cardinality(R) <= i - 1 => Splits(R)
    <3> HIDE DEF Splits
    <3> QED BY <1>5
  <2>1. ASSUME NEW T \in SUBSET S, Cardinality(T) <= i PROVE Splits(T)
    <3>1. CASE T = {}
      BY SMTT(30), <1>2, <3>1
    <3>2. CASE T # {}
      <4> DEFINE c == Pick(T)
                 R == T \ {c}
      <4>1. c \in T /\ c \in S /\ R \in SUBSET S
        BY <3>2, PickProperties
      <4>2. \A x \in T : Cardinality(T \ {x}) <= i - 1
        BY SMTT(30), <2>1, SubsetSize
      <4>3. Splits(R)
        <5> HIDE DEF Splits
        <5> QED BY <2>0, <4>1, <4>2
      <4>4. g[T] = w[c] + g[R]
        BY <1>3, <3>2
      <4>5. w[c] \in Nat /\ g[R] \in Nat /\ g[T] \in Nat
        BY SMTT(30), <4>1, <4>3, <4>4
      <4>6. ASSUME NEW x \in T PROVE g[T] = w[x] + g[T \ {x}]
        <5>1. CASE x = c
          BY <4>4, <5>1
        <5>2. CASE x # c
          <6> DEFINE A == T \ {x}
                     B == R \ {x}
          <6> HIDE DEF c
          <6>1. x \in R /\ c \in A /\ A \in SUBSET S /\ A \ {c} = B /\ x \in S /\ B \in SUBSET S
            BY <4>1, <5>2
          <6>2. Splits(A)
            <7> HIDE DEF Splits
            <7> QED BY <2>0, <4>2, <6>1
          <6>3. g[R] = w[x] + g[B]
            BY <4>3, <6>1
          <6>4. g[A] = w[c] + g[B]
            BY <6>1, <6>2
          <6>5. Splits(B)
            <7>1. Cardinality(B) = Cardinality(R) - 1 /\ Cardinality(R) <= i - 1 /\ Cardinality(R) \in Nat
              BY <4>1, <4>2, <6>1, SubsetSize
            <7>2. Cardinality(B) <= i - 1
              BY SMTT(30), <7>1
            <7> HIDE DEF Splits, B
            <7> QED BY <2>0, <6>1, <7>2
          <6>6. w[x] \in Nat /\ w[c] \in Nat /\ g[B] \in Nat
            BY <4>5, <6>1, <6>5
          <6> HIDE DEF A, B, R, Splits
          <6>7. g[T] = w[x] + g[A]
            BY SMTT(30), <4>4, <6>3, <6>4, <6>6
          <6> QED BY <6>7 DEF A
        <5> QED BY <5>1, <5>2
      <4> QED BY <4>5, <4>6
    <3> QED BY <3>1, <3>2
  <2> HIDE DEF Splits
  <2> QED BY SMTT(30), <1>1, <2>1
<1> HIDE DEF P
<1>6. n \in P
  <2> HIDE DEF n
  <2>1. 0..n \subseteq P
    BY <1>1, <1>4, <1>5, IntervalInduction
  <2> QED BY SMTT(30), <1>1, <2>1
<1>7. \A T \in SUBSET S : Splits(T)
  <2> HIDE DEF Splits, n
  <2> QED BY <1>1, <1>6 DEF P
<1> QED BY <1>7 DEF SplitsAnywhere

(* Renaming the members changes no sum.                                    *)
LEMMA SetSumsImage ==
    ASSUME NEW S, IsFiniteSet(S), NEW w \in [S -> Nat], NEW g, SetSums(g, S, w),
           NEW R, IsFiniteSet(R), NEW v \in [R -> Nat], NEW h, SetSums(h, R, v),
           NEW pi \in [S -> R], \A x, y \in S : pi[x] = pi[y] => x = y,
           \A x \in S : w[x] = v[pi[x]]
    PROVE  \A T \in SUBSET S : g[T] = h[{pi[x] : x \in T}]
<1>0. SplitsAnywhere(g, S, w) /\ SplitsAnywhere(h, R, v)
  BY SetSumsSplit
<1> DEFINE n == Cardinality(S)
           Image(T) == {pi[x] : x \in T}
           P == {i \in 0..n : \A T \in SUBSET S : Cardinality(T) <= i => g[T] = h[Image(T)]}
<1>1. n \in Nat /\ \A T \in SUBSET S : Cardinality(T) <= n
  BY SMTT(30), SubsetSize
<1>2. g[{}] = 0 /\ h[{}] = 0
  BY DEF SetSums, AfterPick
<1>3. ASSUME NEW T \in SUBSET S, T = {} PROVE g[T] = h[Image(T)]
  <2>1. Image(T) = {}
    BY <1>3
  <2> HIDE DEF Image
  <2> QED BY <1>2, <1>3, <2>1
<1>4. 0 \in P
  <2>1. \A T \in SUBSET S : Cardinality(T) <= 0 => T = {}
    BY SMTT(30), SubsetSize
  <2> HIDE DEF Image
  <2> QED BY SMTT(30), <1>1, <1>3, <2>1
<1>5. ASSUME NEW i \in 1..n, i - 1 \in P PROVE i \in P
  <2>1. ASSUME NEW T \in SUBSET S, Cardinality(T) <= i, T # {} PROVE g[T] = h[Image(T)]
    <3>1. PICK x \in T : TRUE
      BY <2>1
    <3> DEFINE A == T \ {x}
    <3>2. A \in SUBSET S /\ Cardinality(A) <= i - 1
      BY SMTT(30), <2>1, SubsetSize
    <3>3. g[A] = h[Image(A)]
      <4> HIDE DEF Image, A
      <4> QED BY <1>5, <3>2
    <3>4. Image(T) \in SUBSET R /\ pi[x] \in Image(T) /\ Image(T) \ {pi[x]} = Image(A)
      BY SMTT(30)
    <3>5. g[T] = w[x] + g[A]
      BY <1>0 DEF SplitsAnywhere
    <3> HIDE DEF A, Image
    <3>6. h[Image(T)] = v[pi[x]] + h[Image(A)]
      BY SMTT(30), <1>0, <3>4 DEF SplitsAnywhere
    <3>7. w[x] = v[pi[x]]
      OBVIOUS
    <3> QED BY <3>3, <3>5, <3>6, <3>7
  <2> HIDE DEF Image
  <2> QED BY SMTT(30), <1>1, <1>3, <2>1
<1> HIDE DEF P
<1>6. n \in P
  <2> HIDE DEF n
  <2>1. 0..n \subseteq P
    BY <1>1, <1>4, <1>5, IntervalInduction
  <2> QED BY SMTT(30), <1>1, <2>1
<1>7. \A T \in SUBSET S : g[T] = h[Image(T)]
  <2> HIDE DEF Image, n
  <2> QED BY <1>1, <1>6 DEF P
<1> QED BY <1>7

-----------------------------------------------------------------------------
(* The weights of ballots and of voters, as such sums.                     *)
LEMMA WeightType ==
    ASSUME NEW b \in Ballot
    PROVE  BallotWeight(b) \in Nat
BY CommitteeAssumption DEF Ballot, BallotWeight, WeightFor, PV, NPV

(* The weight of a voter is a number.                                      *)
LEMMA VoterWeightType ==
    ASSUME NEW v \in Voter
    PROVE  VoterWeight(v) \in Nat
BY CommitteeAssumption DEF VoterWeight

(* A ballot that counts weighs what its voter weighs, and has the voter's  *)
(* only tag.                                                               *)
LEMMA BallotOfVoter ==
    ASSUME NEW b \in Ballot, NEW c \in Ballot, BallotWeight(b) # 0, BallotWeight(c) # 0, b[1] = c[1]
    PROVE  b = c /\ BallotWeight(b) = VoterWeight(b[1])
BY SMTT(30) DEF Ballot, BallotWeight, WeightFor, VoterWeight, PV, NPV

BallotWeights(S) == [b \in S |-> BallotWeight(b)]
VoterWeights(S) == [v \in S |-> VoterWeight(v)]

(* The library's sums are the sums of the lemmas.                          *)
LEMMA BallotSums ==
    ASSUME NEW S \in SUBSET Ballot, IsFiniteSet(S)
    PROVE  \E g : SetSums(g, S, BallotWeights(S)) /\ MapThenSumSet(BallotWeight, S) = g[S]
<1> DEFINE IsSum(g) == g = [T \in SUBSET S |-> IF T = {} THEN 0
                              ELSE BallotWeight(CHOOSE x \in T : TRUE) + g[T \ {CHOOSE x \in T : TRUE}]]
           sum == CHOOSE g : IsSum(g)
           w == BallotWeights(S)
<1>1. w \in [S -> Nat]
  BY WeightType DEF BallotWeights
<1>2. PICK f \in [SUBSET S -> Nat] : SetSums(f, S, w)
  BY <1>1, SetSumsExist
<1>3. ASSUME NEW g PROVE IsSum(g) <=> SetSums(g, S, w)
  <2>1. \A T \in SUBSET S : T # {} => BallotWeight(Pick(T)) = w[Pick(T)]
    BY SMTT(30) DEF BallotWeights, Pick
  <2>2. [T \in SUBSET S |-> IF T = {} THEN 0 ELSE BallotWeight(Pick(T)) + g[T \ {Pick(T)}]]
          = [T \in SUBSET S |-> IF T = {} THEN 0 ELSE w[Pick(T)] + g[T \ {Pick(T)}]]
    BY <2>1
  <2> HIDE DEF w
  <2> QED BY <2>2 DEF SetSums, AfterPick, Pick
<1>4. MapThenSumSet(BallotWeight, S) = sum[S]
  BY DEF MapThenSumSet, MapThenFoldSet
<1> HIDE DEF IsSum, w
<1>5. IsSum(sum)
  BY <1>2, <1>3
<1> HIDE DEF sum
<1> QED BY <1>3, <1>4, <1>5 DEF w

(* The weight of a set of voters is such a sum.                            *)
LEMMA VoterSums ==
    ASSUME NEW S \in SUBSET Voter, IsFiniteSet(S)
    PROVE  \E g : SetSums(g, S, VoterWeights(S)) /\ MapThenSumSet(VoterWeight, S) = g[S]
<1> DEFINE IsSum(g) == g = [T \in SUBSET S |-> IF T = {} THEN 0
                              ELSE VoterWeight(CHOOSE x \in T : TRUE) + g[T \ {CHOOSE x \in T : TRUE}]]
           sum == CHOOSE g : IsSum(g)
           w == VoterWeights(S)
<1>1. w \in [S -> Nat]
  BY VoterWeightType DEF VoterWeights
<1>2. PICK f \in [SUBSET S -> Nat] : SetSums(f, S, w)
  BY <1>1, SetSumsExist
<1>3. ASSUME NEW g PROVE IsSum(g) <=> SetSums(g, S, w)
  <2>1. \A T \in SUBSET S : T # {} => VoterWeight(Pick(T)) = w[Pick(T)]
    BY SMTT(30) DEF VoterWeights, Pick
  <2>2. [T \in SUBSET S |-> IF T = {} THEN 0 ELSE VoterWeight(Pick(T)) + g[T \ {Pick(T)}]]
          = [T \in SUBSET S |-> IF T = {} THEN 0 ELSE w[Pick(T)] + g[T \ {Pick(T)}]]
    BY <2>1
  <2> HIDE DEF w
  <2> QED BY <2>2 DEF SetSums, AfterPick, Pick
<1>4. MapThenSumSet(VoterWeight, S) = sum[S]
  BY DEF MapThenSumSet, MapThenFoldSet
<1> HIDE DEF IsSum, w
<1>5. IsSum(sum)
  BY <1>2, <1>3
<1> HIDE DEF sum
<1> QED BY <1>3, <1>4, <1>5 DEF w

(* A further ballot takes nothing away.                                    *)
LEMMA WeightGrows ==
    ASSUME NEW S \in SUBSET Ballot, IsFiniteSet(S), NEW b \in Ballot
    PROVE  /\ IsFiniteSet(S \cup {b})
           /\ Weight(S) \in Nat /\ Weight(S \cup {b}) \in Nat
           /\ Weight(S) <= Weight(S \cup {b})
<1> DEFINE U == S \cup {b}
<1>1. IsFiniteSet(U) /\ U \in SUBSET Ballot
  BY FS_AddElement
<1> HIDE DEF U
<1>2. PICK g : SetSums(g, S, BallotWeights(S)) /\ Weight(S) = g[S]
  BY BallotSums DEF Weight
<1>3. PICK h : SetSums(h, U, BallotWeights(U)) /\ Weight(U) = h[U]
  BY <1>1, BallotSums DEF Weight
<1>4. BallotWeights(S) \in [S -> Nat] /\ BallotWeights(U) \in [U -> Nat]
  BY <1>1, WeightType DEF BallotWeights
<1>5. SplitsAnywhere(g, S, BallotWeights(S)) /\ SplitsAnywhere(h, U, BallotWeights(U))
  BY <1>1, <1>2, <1>3, <1>4, SetSumsSplit
<1>6. S \in SUBSET U /\ b \in U
  BY DEF U
<1>7. g[S] \in Nat /\ h[U] \in Nat /\ h[S] \in Nat
  BY <1>5, <1>6 DEF SplitsAnywhere
<1>8. g[S] = h[S]
  <2> DEFINE id == [x \in S |-> x]
  <2>1. /\ id \in [S -> U] /\ \A x, y \in S : id[x] = id[y] => x = y
        /\ \A x \in S : BallotWeights(S)[x] = BallotWeights(U)[id[x]]
    BY <1>6 DEF BallotWeights
  <2>2. {id[x] : x \in S} = S
    OBVIOUS
  <2> HIDE DEF id
  <2>3. \A T \in SUBSET S : g[T] = h[{id[x] : x \in T}]
    BY SMTT(30), <1>1, <1>2, <1>3, <1>4, <2>1, SetSumsImage
  <2> QED BY <2>2, <2>3
<1>9. h[S] <= h[U]
  <2>1. CASE b \in S
    <3>1. U = S
      BY <2>1 DEF U
    <3> QED BY SMTT(30), <1>7, <3>1
  <2>2. CASE b \notin S
    <3>1. U \ {b} = S
      BY <2>2 DEF U
    <3>2. h[U] = BallotWeights(U)[b] + h[S]
      BY <1>5, <1>6, <3>1 DEF SplitsAnywhere
    <3>3. BallotWeights(U)[b] \in Nat
      BY <1>4, <1>6
    <3> QED BY SMTT(30), <1>7, <3>2, <3>3
  <2> QED BY <2>1, <2>2
<1> QED BY <1>1, <1>2, <1>3, <1>7, <1>8, <1>9 DEF U

(* When every ballot counts, the ballots weigh what their voters weigh.    *)
LEMMA WeightOfVoters ==
    ASSUME NEW S \in SUBSET Ballot, IsFiniteSet(S), \A b \in S : BallotWeight(b) # 0
    PROVE  Weight(S) = MapThenSumSet(VoterWeight, {b[1] : b \in S})
<1> DEFINE R == {b[1] : b \in S}
           pi == [b \in S |-> b[1]]
<1>1. R \in SUBSET Voter
  BY DEF Ballot
<1>2. IsFiniteSet(R)
  <2>1. pi \in Surjection(S, R)
    BY DEF Surjection
  <2> HIDE DEF pi, R
  <2> QED BY <2>1, FS_Surjection
<1>3. {pi[b] : b \in S} = R
  OBVIOUS
<1>4. pi \in [S -> R] /\ \A x, y \in S : pi[x] = pi[y] => x = y
  BY BallotOfVoter
<1>5. \A x \in S : BallotWeights(S)[x] = VoterWeights(R)[pi[x]]
  BY BallotOfVoter DEF BallotWeights, VoterWeights
<1> HIDE DEF R, pi
<1>6. PICK g : SetSums(g, S, BallotWeights(S)) /\ Weight(S) = g[S]
  BY BallotSums DEF Weight
<1>7. PICK h : SetSums(h, R, VoterWeights(R)) /\ MapThenSumSet(VoterWeight, R) = h[R]
  BY <1>1, <1>2, VoterSums
<1>8. BallotWeights(S) \in [S -> Nat] /\ VoterWeights(R) \in [R -> Nat]
  BY <1>1, WeightType, VoterWeightType DEF BallotWeights, VoterWeights
<1>9. \A T \in SUBSET S : g[T] = h[{pi[x] : x \in T}]
  BY SMTT(30), <1>2, <1>4, <1>5, <1>6, <1>7, <1>8, SetSumsImage
<1>10. g[S] = h[R]
  BY <1>3, <1>9
<1> QED BY <1>6, <1>7, <1>10 DEF R

(* The threshold is the fraction of the total, rounded up.                 *)
LEMMA Ceiling ==
    ASSUME NEW x \in Nat
    PROVE  x >= Threshold <=> x * QuorumDen >= QuorumNum * ExpectedWeight
<1> DEFINE a == QuorumNum * ExpectedWeight
           d == QuorumDen
           q == (a + d - 1) \div d
<1>1. a \in Nat /\ d \in Nat /\ d > 0
  BY SMTT(30), CommitteeAssumption
<1>2. Threshold = q
  BY DEF Threshold
<1> HIDE DEF a, d
<1>3. q \in Int /\ d * q <= a + d - 1 /\ a + d - 1 < d * q + d
  BY SMTT(30), <1>1
<1> HIDE DEF q
<1>4. ASSUME x >= q PROVE x * d >= a
  BY SMTT(30), <1>1, <1>3, <1>4
<1>5. ASSUME ~(x >= q) PROVE ~(x * d >= a)
  BY SMTT(30), <1>1, <1>3, <1>5
<1> QED BY <1>2, <1>4, <1>5 DEF a, d

-----------------------------------------------------------------------------
(* The quorum flag is exact: every counted ballot has weight, and the flag *)
(* is up as soon as, and only when, the ballots reach the threshold.       *)
CountOK(e) ==
    /\ e.ballots \in SUBSET Ballot /\ IsFiniteSet(e.ballots)
    /\ \A b \in e.ballots : BallotWeight(b) # 0
    /\ e.quorum <=> e.ballots # {} /\ Weight(e.ballots) >= Threshold

CountsOK(es) == \A h \in DOMAIN es : CountOK(es[h])

(* An election with the same ballots has the same count.                   *)
LEMMA SameCount == ASSUME NEW e, NEW d, CountOK(d), SameBut(e, d) PROVE CountOK(e)
BY DEF CountOK, SameBut

(* The count of an election without ballots is in order.                   *)
LEMMA NewCount == ASSUME NEW e, IsNew(e) PROVE CountOK(e)
BY FS_EmptySet DEF CountOK, IsNew

(* Recording a vote keeps the counts in order.                             *)
LEMMA RecordCount ==
    ASSUME NEW es, ElectionsOK(es), CountsOK(es), NEW h \in DOMAIN es,
           NEW voter \in Voter, NEW tag \in {PV, NPV}
    PROVE  CountsOK(RecordVote(es, h, voter, tag))
<1> DEFINE after == RecordVote(es, h, voter, tag)
           S == es[h].ballots
           b == <<voter, tag>>
<1>1. /\ DOMAIN after = DOMAIN es
      /\ \A r \in DOMAIN es \ {h} : after[r] = es[r]
      /\ \/ after = es
         \/ /\ WeightFor(voter, tag) # 0
            /\ after[h].ballots = S \cup {b}
            /\ after[h].quorum = (es[h].quorum \/ Weight(after[h].ballots) >= Threshold)
  BY SMTT(30), RecordFields
<1>2. b \in Ballot /\ BallotWeight(b) = WeightFor(voter, tag)
  BY DEF Ballot, BallotWeight
<1>3. /\ S \in SUBSET Ballot /\ IsFiniteSet(S) /\ \A x \in S : BallotWeight(x) # 0
      /\ es[h].quorum <=> S # {} /\ Weight(S) >= Threshold
  BY DEF CountsOK, CountOK
<1> HIDE DEF S, b, after
<1>4. IsFiniteSet(S \cup {b}) /\ Weight(S) \in Nat /\ Weight(S \cup {b}) \in Nat
      /\ Weight(S) <= Weight(S \cup {b})
  BY <1>2, <1>3, WeightGrows
<1>5. Threshold \in Int
  BY SMTT(30), CommitteeAssumption DEF Threshold
<1>6. ASSUME after # es PROVE CountOK(after[h])
  <2>1. /\ after[h].ballots = S \cup {b}
        /\ after[h].quorum <=> es[h].quorum \/ Weight(S \cup {b}) >= Threshold
    BY <1>1, <1>6
  <2>2. \A x \in S \cup {b} : BallotWeight(x) # 0
    BY <1>1, <1>2, <1>3, <1>6
  <2>3. es[h].quorum => Weight(S \cup {b}) >= Threshold
    BY SMTT(30), <1>3, <1>4, <1>5
  <2> QED BY <1>2, <1>3, <1>4, <2>1, <2>2, <2>3 DEF CountOK
<1>7. CountsOK(after)
  BY <1>1, <1>6 DEF CountsOK
<1> QED BY <1>7 DEF after

(* So does the seeding of an election,                                     *)
LEMMA AtTipCounts ==
    ASSUME NEW es, ElectionsOK(es), CountsOK(es), NEW h \in Hash \cup {None}, slot \in Nat
    PROVE  CountsOK(ElectionsAtTip(es, h))
<1>1. AtTip(es, h, ElectionsAtTip(es, h))
  BY AtTipFields
<1> QED BY <1>1, SameCount, NewCount DEF AtTip, CountsOK

(* the pass of a slot,                                                     *)
LEMMA SlotPassCounts ==
    ASSUME NEW es, ElectionsOK(es), CountsOK(es), NEW ctx, NEW now, NEW parent, NEW load,
           OnSlot(es, ctx, now, parent, load)
    PROVE  CountsOK(elections')
<1>1. Passed(es, ctx, now, elections')
  BY SlotPassFields DEF OnSlot, EndOfSlot
<1> QED BY <1>1, SameCount DEF Passed, CountsOK

(* and therefore every step.                                               *)
LEMMA NextCounts == Inv /\ CountsOK(elections) /\ [Next]_vars => CountsOK(elections')
<1> SUFFICES ASSUME Inv, CountsOK(elections), [Next]_vars PROVE CountsOK(elections')
  OBVIOUS
<1>0. ElectionsOK(elections) /\ slot \in Nat /\ adopted \in Hash \cup {None}
      /\ applied \subseteq Hash /\ DOMAIN validated \subseteq bodies
  BY DEF Inv, ChainOK
<1>1. ASSUME NEW h \in Hash, Apply(h) PROVE CountsOK(elections')
  BY <1>0, <1>1, AtTipCounts DEF Apply
<1>2. ASSUME NEW h \in Hash, ValidatedEb(h) PROVE CountsOK(elections')
  <2>1. elections' = MarkBodyValidated(elections, Announced[h])
    BY <1>2 DEF ValidatedEb
  <2>2. /\ DOMAIN elections' = DOMAIN elections
        /\ \A r \in DOMAIN elections : SameBut(elections'[r], elections[r])
    BY <1>0, <2>1, MarkFields
  <2> QED BY <2>2, SameCount DEF CountsOK
<1>3. ASSUME NEW h \in Hash, NEW voter \in Voter, NEW tag \in {PV, NPV},
             ReceiveVote(h, voter, tag)
      PROVE  CountsOK(elections')
  <2>1. h \in DOMAIN elections /\ elections' = RecordVote(elections, h, voter, tag)
    BY <1>3 DEF ReceiveVote
  <2> QED BY <1>0, <2>1, RecordCount
<1>4. ASSUME NEW load, Tick(load) PROVE CountsOK(elections')
  <2>1. OnSlot(elections, tip, slot + 1, adopted, load)
    BY <1>4 DEF Tick
  <2> QED BY <1>0, <2>1, SlotPassCounts
<1>5. ASSUME NEW h \in applied, NEW load, TickReorg(h, load) PROVE CountsOK(elections')
  <2> DEFINE es == ElectionsAtTip(elections, h)
             ctx == TipContext(h, seen)
  <2>1. OnSlot(es, ctx, slot + 1, h, load)
    BY <1>5 DEF TickReorg
  <2>2. h \in Hash \cup {None}
    BY <1>0
  <2>3. ElectionsOK(es) /\ CountsOK(es)
    BY <1>0, <2>2, AtTipOK, AtTipCounts
  <2> HIDE DEF es, ctx
  <2> QED BY <2>1, <2>3, SlotPassCounts
<1>6. ASSUME UNCHANGED elections PROVE CountsOK(elections')
  BY <1>6
<1>7. ASSUME \/ \E h \in Hash : Receive(h)
             \/ \E h \in Hash, complete \in BOOLEAN : ReceiveManifest(h, complete)
             \/ \E eb \in EB : TransactionsArrive(eb)
             \/ UNCHANGED vars
      PROVE  UNCHANGED elections
  BY <1>7 DEF Receive, ReceiveManifest, TransactionsArrive, vars
<1> QED BY <1>1, <1>2, <1>3, <1>4, <1>5, <1>6, <1>7 DEF Next

(* Counts in order make the quorum exact.                                  *)
LEMMA CountsSound == Inv /\ CountsOK(elections) => QuorumSound
<1> SUFFICES ASSUME Inv, CountsOK(elections), NEW h \in DOMAIN elections
             PROVE  LET voters == {b[1] : b \in elections[h].ballots}
                    IN  elections[h].quorum <=>
                            voters # {} /\ MapThenSumSet(VoterWeight, voters) * QuorumDen
                                            >= QuorumNum * ExpectedWeight
  BY DEF QuorumSound
<1> DEFINE S == elections[h].ballots
           voters == {b[1] : b \in S}
<1>1. /\ S \in SUBSET Ballot /\ IsFiniteSet(S) /\ \A b \in S : BallotWeight(b) # 0
      /\ elections[h].quorum <=> S # {} /\ Weight(S) >= Threshold
  BY DEF CountsOK, CountOK
<1>2. Weight(S) = MapThenSumSet(VoterWeight, voters)
  BY <1>1, WeightOfVoters
<1>3. voters # {} <=> S # {}
  OBVIOUS
<1> HIDE DEF S
<1>4. PICK g : SetSums(g, S, BallotWeights(S)) /\ Weight(S) = g[S]
  BY <1>1, BallotSums DEF Weight
<1>5. BallotWeights(S) \in [S -> Nat]
  BY <1>1, WeightType DEF BallotWeights
<1>6. SplitsAnywhere(g, S, BallotWeights(S))
  BY <1>1, <1>4, <1>5, SetSumsSplit
<1>7. Weight(S) \in Nat
  BY <1>4, <1>6 DEF SplitsAnywhere
<1> HIDE DEF voters
<1>8. Weight(S) >= Threshold <=> Weight(S) * QuorumDen >= QuorumNum * ExpectedWeight
  BY <1>7, Ceiling
<1> QED BY <1>1, <1>2, <1>3, <1>8 DEF S, voters

(* A quorum in `Elections` is what it says, however votes arrive late,     *)
(* twice or from voters without weight: distinct voters whose weights      *)
(* reach the fraction of the total, and the flag is up whenever they do.   *)
THEOREM QuorumAlwaysSound == Spec => []QuorumSound
<1>1. Init => CountsOK(elections)
  BY DEF Init, CountsOK, Empty
<1>2. Inv /\ CountsOK(elections) /\ [Next]_vars => CountsOK(elections)'
  BY NextCounts
<1>3. Inv /\ CountsOK(elections) => QuorumSound
  BY CountsSound
<1> QED BY <1>1, <1>2, <1>3, LeiosInvariant, PTL DEF Spec
=============================================================================
