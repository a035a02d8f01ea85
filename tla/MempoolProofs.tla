--------------------------- MODULE MempoolProofs ----------------------------
(***************************************************************************)
(* For every set of transactions, peers and EBs and all limits: the books  *)
(* of the pool and of its peers are in order, the closure of a retained EB *)
(* is kept, and the bodies of an own EB can be served.  The inductive      *)
(* invariant IInv is put together from one part for each piece of state.   *)
(***************************************************************************)
EXTENDS Mempool, InductionLemmas, FiniteSetTheorems

(* The leaves go to Zenon, and to SMT where they name it.                  *)
USE Zenon

-----------------------------------------------------------------------------
(* How many members of K are not above i.                                  *)
Rank(K, i) == Cardinality({j \in K : j <= i})

(* The ranks number the members of K in their order.                       *)
LEMMA Ranks ==
    ASSUME NEW n \in Nat, NEW K \in SUBSET (1..n)
    PROVE  /\ Cardinality(K) \in 0..n
           /\ \A i \in K : Rank(K, i) \in 1..Cardinality(K)
           /\ \A i, j \in K : i < j => Rank(K, i) < Rank(K, j)
           /\ \A k \in 1..Cardinality(K) : \E i \in K : Rank(K, i) = k
<1>1. IsFiniteSet(1..n) /\ Cardinality(1..n) = n
  BY SMTT(30), FS_Interval
<1>2. IsFiniteSet(K) /\ Cardinality(K) \in Nat /\ Cardinality(K) <= n
  BY <1>1, FS_Subset, FS_CardinalityType
<1> DEFINE Upto(i) == {j \in K : j <= i}
<1>3. ASSUME NEW i \in K
      PROVE  /\ IsFiniteSet(Upto(i))
             /\ Cardinality(Upto(i)) \in 1..Cardinality(K)
  <2>1. IsFiniteSet(Upto(i)) /\ Cardinality(Upto(i)) <= Cardinality(K)
    BY <1>2, FS_Subset
  <2>2. i \in Upto(i)
    BY SMTT(30)
  <2>3. Cardinality(Upto(i)) \in Nat /\ Cardinality(Upto(i)) # 0
    <3> HIDE DEF Upto
    <3> QED BY <2>1, <2>2, FS_CardinalityType, FS_EmptySet
  <2> QED BY SMTT(30), <1>2, <2>1, <2>3
<1>4. ASSUME NEW i \in K, NEW j \in K, i < j
      PROVE  Cardinality(Upto(i)) < Cardinality(Upto(j))
  <2>0. \A x \in K : x \in Int /\ (x <= i => x <= j)
    BY SMTT(30), <1>4
  <2>1. Upto(i) \subseteq Upto(j) /\ j \in Upto(j) /\ j \notin Upto(i)
    <3>1. i \in Int /\ j \in Int /\ ~(j <= i) /\ j <= j
      BY SMTT(30), <1>4
    <3> QED BY <2>0, <3>1
  <2>2. IsFiniteSet(Upto(j)) /\ Cardinality(Upto(i)) \in Nat /\ Cardinality(Upto(j)) \in Nat
    BY SMTT(30), <1>2, <1>3
  <2> HIDE DEF Upto
  <2>3. Cardinality(Upto(i)) <= Cardinality(Upto(j)) /\ Cardinality(Upto(i)) # Cardinality(Upto(j))
    BY <2>1, <2>2, FS_Subset
  <2> QED BY SMTT(30), <2>2, <2>3
<1>5. ASSUME NEW k \in 1..Cardinality(K) PROVE \E i \in K : Cardinality(Upto(i)) = k
  <2> DEFINE c == Cardinality(K)
             r == [i \in K |-> Cardinality(Upto(i))]
  <2>1. r \in [K -> 1..c]
    BY <1>3
  <2>2. \A i, j \in K : r[i] = r[j] => i = j
    <3> SUFFICES ASSUME NEW i \in K, NEW j \in K, i < j PROVE r[i] # r[j]
      BY SMTT(30)
    <3> QED BY SMTT(30), <1>2, <1>3, <1>4
  <2> HIDE DEF r
  <2>3. r \in Injection(K, 1..c)
    BY <2>1, <2>2 DEF Injection, IsInjective
  <2>4. IsFiniteSet(1..c) /\ Cardinality(1..c) = c
    BY SMTT(30), <1>2, FS_Interval
  <2>5. r \in Surjection(K, 1..c)
    BY <2>3, <2>4, FS_Injection
  <2>6. \E i \in K : r[i] = k
    BY <2>5 DEF Surjection
  <2> QED BY <2>6 DEF r
<1> HIDE DEF Upto
<1>6. \A i : Rank(K, i) = Cardinality(Upto(i))
  BY DEF Rank, Upto
<1> QED BY SMTT(30), <1>2, <1>3, <1>4, <1>5, <1>6

-----------------------------------------------------------------------------
(* What the operators on sequences of transactions return.                 *)

(* The sizes of the transactions of s.                                     *)
Sizes(s) == [i \in 1..Len(s) |-> Size[s[i]]]

(* The sizes are natural numbers.                                          *)
LEMMA SizesType ==
    ASSUME NEW s \in Seq(Tx)
    PROVE  Sizes(s) \in [1..Len(s) -> Nat] /\ Len(s) \in Nat
<1>1. Len(s) \in Nat /\ \A i \in 1..Len(s) : s[i] \in Tx
  BY SMTT(30), ElementOfSeq
<1> QED BY <1>1, TxAssumption DEF Sizes

(* `Bytes` is the last of the partial sums.                                *)
LEMMA BytesDef ==
    ASSUME NEW s \in Seq(Tx)
    PROVE  \E f \in [0..Len(s) -> Nat] : PartialSums(f, Len(s), Sizes(s)) /\ Bytes(s) = f[Len(s)]
<1> DEFINE n == Len(s)
           IsSum(f) == f = [i \in 0..n |-> IF i = 0 THEN 0 ELSE f[i - 1] + Size[s[i]]]
           sum == CHOOSE f : IsSum(f)
<1>1. n \in Nat /\ Sizes(s) \in [1..n -> Nat]
  BY SizesType
<1>2. PICK f \in [0..n -> Nat] : PartialSums(f, n, Sizes(s))
  BY <1>1, SumsExist
<1>3. ASSUME NEW g PROVE IsSum(g) <=> PartialSums(g, n, Sizes(s))
  <2>1. [i \in 0..n |-> IF i = 0 THEN 0 ELSE g[i - 1] + Size[s[i]]]
          = [i \in 0..n |-> IF i = 0 THEN 0 ELSE g[i - 1] + Sizes(s)[i]]
    BY SMTT(30), <1>1 DEF Sizes
  <2> QED BY <2>1 DEF PartialSums
<1>4. Bytes(s) = sum[n]
  BY DEF Bytes
<1> HIDE DEF n, IsSum
<1>5. IsSum(sum)
  BY <1>2, <1>3
<1> HIDE DEF sum
<1>6. PartialSums(sum, n, Sizes(s))
  BY <1>3, <1>5
<1>7. \A i \in 0..n : f[i] = sum[i]
  BY SMTT(30), <1>1, <1>2, <1>6, SumsOfPrefix DEF Alike
<1> QED BY SMTT(30), <1>1, <1>2, <1>4, <1>7 DEF n

(* The bytes of a sequence are a natural number.                           *)
LEMMA BytesType == ASSUME NEW s \in Seq(Tx) PROVE Bytes(s) \in Nat
<1>1. PICK f \in [0..Len(s) -> Nat] : Bytes(s) = f[Len(s)]
  BY BytesDef
<1>2. Len(s) \in 0..Len(s)
  BY SMTT(30), LenProperties
<1> QED BY <1>1, <1>2

(* A transaction adds its size ...                                         *)
LEMMA BytesAppend ==
    ASSUME NEW s \in Seq(Tx), NEW t \in Tx
    PROVE  Bytes(Append(s, t)) = Bytes(s) + Size[t]
<1> DEFINE n == Len(s)
           a == Append(s, t)
<1>1. /\ a \in Seq(Tx) /\ Len(a) = n + 1 /\ n \in Nat
      /\ \A i \in 1..n : a[i] = s[i]
      /\ a[n + 1] = t
  BY SMTT(30), AppendProperties
<1> HIDE DEF a
<1>2. PICK f \in [0..n -> Nat] : PartialSums(f, n, Sizes(s)) /\ Bytes(s) = f[n]
  BY BytesDef
<1>3. PICK g \in [0..(n + 1) -> Nat] : PartialSums(g, n + 1, Sizes(a)) /\ Bytes(a) = g[n + 1]
  BY <1>1, BytesDef
<1>4. \A i \in 1..n : Sizes(s)[i] = Sizes(a)[i]
  BY SMTT(30), <1>1 DEF Sizes
<1>5. f[n] = g[n]
  <2> DEFINE m == n + 1
  <2>0. n \in Nat /\ m \in Nat /\ n <= m /\ PartialSums(g, m, Sizes(a))
    BY SMTT(30), <1>1, <1>3
  <2> HIDE DEF n, m
  <2>1. Alike(n, Sizes(s), Sizes(a))
    BY <1>4 DEF Alike
  <2>2. Alike(n, f, g)
    BY <1>2, <2>0, <2>1, SumsOfPrefix
  <2> QED BY SMTT(30), <1>1, <2>2 DEF Alike, n
<1>6. g[n + 1] = g[n] + Sizes(a)[n + 1] /\ Sizes(a)[n + 1] = Size[t]
  <2>1. n + 1 \in 0..(n + 1) /\ n + 1 # 0 /\ (n + 1) - 1 = n
    BY SMTT(30), <1>1
  <2>2. g[n + 1] = g[(n + 1) - 1] + Sizes(a)[n + 1]
    BY <1>3, <2>1 DEF PartialSums
  <2> QED BY SMTT(30), <1>1, <2>1, <2>2 DEF Sizes
<1> QED BY <1>1, <1>2, <1>3, <1>5, <1>6 DEF a

(* ... and the oldest one takes its size away.                             *)
LEMMA BytesTail ==
    ASSUME NEW s \in Seq(Tx), s # <<>>
    PROVE  Bytes(s) = Bytes(Tail(s)) + Size[Head(s)]
<1> DEFINE n == Len(s) - 1
           r == Tail(s)
<1>1. /\ r \in Seq(Tx) /\ Len(r) = n /\ n \in Nat /\ Len(s) = n + 1
      /\ \A i \in 1..n : r[i] = s[i + 1]
      /\ Head(s) = s[1] /\ 1 \in 1..(n + 1)
  BY SMTT(30), HeadTailProperties, EmptySeq, LenProperties
<1> HIDE DEF n, r
<1>2. PICK f \in [0..(n + 1) -> Nat] : PartialSums(f, n + 1, Sizes(s)) /\ Bytes(s) = f[n + 1]
  BY <1>1, BytesDef
<1>3. PICK g \in [0..n -> Nat] : PartialSums(g, n, Sizes(r)) /\ Bytes(r) = g[n]
  BY <1>1, BytesDef
<1>4. \A i \in 1..n : Sizes(r)[i] = Sizes(s)[i + 1]
  <2>1. Sizes(s) = [i \in 1..(n + 1) |-> Size[s[i]]] /\ Sizes(r) = [i \in 1..n |-> Size[r[i]]]
    BY <1>1 DEF Sizes
  <2>2. ASSUME NEW i \in 1..n PROVE Sizes(r)[i] = Sizes(s)[i + 1]
    <3>1. i + 1 \in 1..(n + 1)
      BY SMTT(30), <1>1
    <3>2. Sizes(r)[i] = Size[r[i]] /\ Sizes(s)[i + 1] = Size[s[i + 1]]
      BY <2>1, <3>1
    <3>3. r[i] = s[i + 1]
      BY <1>1
    <3> QED BY <3>2, <3>3
  <2> QED BY <2>2
<1>5. Sizes(s) \in [1..(n + 1) -> Nat] /\ Sizes(s)[1] = Size[s[1]]
  BY <1>1, SizesType DEF Sizes
<1>6. \A i \in 0..n : f[i + 1] = g[i] + Sizes(s)[1]
  BY <1>1, <1>2, <1>3, <1>4, <1>5, SumsOfRest
<1> QED BY SMTT(30), <1>1, <1>2, <1>3, <1>5, <1>6 DEF r

(* What `Without` leaves.                                                  *)
LEMMA WithoutProperties ==
    ASSUME NEW s \in Seq(Tx), NEW S
    PROVE  /\ Without(s, S) \in Seq(Tx)
           /\ Range(Without(s, S)) = Range(s) \ S
           /\ Len(Without(s, S)) <= Len(s)
           /\ IsInjective(s) => IsInjective(Without(s, S))
<1> DEFINE K == {i \in DOMAIN s : s[i] \notin S}
           c == Cardinality(K)
           At(n) == CHOOSE i \in K : Rank(K, i) = n
           w == [n \in 1..c |-> s[At(n)]]
<1>1. Len(s) \in Nat /\ DOMAIN s = 1..Len(s) /\ \A i \in 1..Len(s) : s[i] \in Tx
  BY ElementOfSeq, LenProperties
<1>2. K \in SUBSET (1..Len(s)) /\ \A i \in K : s[i] \notin S /\ s[i] \in Tx
  BY <1>1
<1>3. Without(s, S) = w
  BY DEF Without, Rank
<1>3a. Range(s) \ S = {s[i] : i \in K}
  BY DEF Range
<1>3b. K \subseteq DOMAIN s
  OBVIOUS
<1> HIDE DEF K
<1>4. /\ c \in 0..Len(s)
      /\ \A i \in K : Rank(K, i) \in 1..c
      /\ \A i, j \in K : i < j => Rank(K, i) < Rank(K, j)
      /\ \A k \in 1..c : \E i \in K : Rank(K, i) = k
  BY <1>1, <1>2, Ranks
<1> HIDE DEF c
<1>5. \A n \in 1..c : At(n) \in K /\ Rank(K, At(n)) = n
  BY <1>4
<1>6. \A i \in K : At(Rank(K, i)) = i
  <2> SUFFICES ASSUME NEW i \in K, NEW j \in K, Rank(K, j) = Rank(K, i) PROVE j = i
    BY <1>4, <1>5
  <2>1. i \in Int /\ j \in Int /\ ~(i < j) /\ ~(j < i)
    BY SMTT(30), <1>2, <1>4
  <2> QED BY SMTT(30), <2>1
<1> HIDE DEF At
<1>7. w \in [1..c -> Tx] /\ c \in Nat
  <2>1. \A n \in 1..c : s[At(n)] \in Tx
    BY <1>2, <1>5
  <2> QED BY SMTT(30), <1>1, <1>4, <2>1
<1>8. w \in Seq(Tx) /\ Len(w) = c
  BY SMTT(30), <1>7, IsASeq, LenProperties
<1>9. Range(w) = {s[i] : i \in K}
  <2>1. ASSUME NEW x \in Range(w) PROVE x \in {s[i] : i \in K}
    BY <1>5 DEF Range
  <2>2. ASSUME NEW i \in K PROVE s[i] \in Range(w)
    <3>1. Rank(K, i) \in 1..c /\ w[Rank(K, i)] = s[i]
      BY <1>4, <1>6
    <3> HIDE DEF w
    <3> QED BY <1>7, <3>1 DEF Range
  <2> HIDE DEF w
  <2> QED BY <2>1, <2>2
<1>10. ASSUME IsInjective(s) PROVE IsInjective(w)
  <2> SUFFICES ASSUME NEW m \in 1..c, NEW n \in 1..c, s[At(m)] = s[At(n)] PROVE m = n
    BY DEF IsInjective
  <2>1. At(m) = At(n)
    BY <1>3b, <1>5, <1>10 DEF IsInjective
  <2> QED BY <1>5, <2>1
<1> HIDE DEF w
<1> QED BY SMTT(30), <1>1, <1>3, <1>3a, <1>4, <1>8, <1>9, <1>10

(* What follows the first n.                                               *)
LEMMA FromProperties ==
    ASSUME NEW s \in Seq(Tx), NEW n \in 0..Len(s)
    PROVE  /\ From(s, n) \in Seq(Tx)
           /\ Len(From(s, n)) = Len(s) - n
           /\ Range(From(s, n)) \subseteq Range(s)
           /\ IsInjective(s) => IsInjective(From(s, n))
<1> DEFINE r == From(s, n)
           m == Len(s) - n
<1>1. Len(s) \in Nat /\ DOMAIN s = 1..Len(s) /\ n \in Nat /\ m \in Nat /\ n <= Len(s)
  BY SMTT(30), LenProperties
<1>2. /\ r \in Seq(Tx) /\ Len(r) = m /\ DOMAIN r = 1..m
      /\ \A i \in 1..m : r[i] = s[n + i] /\ n + i \in 1..Len(s)
  <2>1. n + 1 \in 1..(Len(s) + 1) /\ Len(s) \in n..Len(s) /\ \A i \in 1..m : n + i \in 1..Len(s)
    BY SMTT(30), <1>1
  <2>2. r \in Seq(Tx) /\ Len(r) = m
    <3>1. n + 1 \in Int /\ Len(s) \in Int /\ \A i \in (n + 1)..Len(s) : s[i] \in Tx
      BY SMTT(30), <1>1, ElementOfSeq
    <3>2. r \in Seq(Tx) /\ Len(r) = IF n + 1 <= Len(s) THEN Len(s) - (n + 1) + 1 ELSE 0
      BY <3>1, SubSeqProperties DEF From
    <3>3. (IF n + 1 <= Len(s) THEN Len(s) - (n + 1) + 1 ELSE 0) = m
      <4>1. \A a, b \in Nat : a <= b => (IF a + 1 <= b THEN b - (a + 1) + 1 ELSE 0) = b - a
        BY SMTT(30)
      <4> QED BY <1>1, <4>1
    <3> HIDE DEF r, m
    <3> QED BY <3>2, <3>3
  <2>3. \A i \in 1..m : r[i] = s[n + i]
    <3>1. n + 1 \in Int /\ Len(s) \in Int /\ \A i \in (n + 1)..Len(s) : s[i] \in Tx
      BY SMTT(30), <1>1, ElementOfSeq
    <3>2. \A i \in 1..(Len(s) - (n + 1) + 1) : r[i] = s[n + 1 + i - 1]
      <4> DEFINE a == n + 1
      <4>1. a \in Int /\ Len(s) \in Int /\ \A i \in a..Len(s) : s[i] \in Tx
        BY <3>1
      <4>2. r = SubSeq(s, a, Len(s))
        BY DEF From
      <4> HIDE DEF a, r
      <4>3. \A i \in 1..(Len(s) - a + 1) : SubSeq(s, a, Len(s))[i] = s[a + i - 1]
        BY SMTT(30), <4>1, SubSeqProperties
      <4> QED BY <4>2, <4>3 DEF a
    <3>3. Len(s) - (n + 1) + 1 = m /\ \A i \in 1..m : n + 1 + i - 1 = n + i
      BY SMTT(30), <1>1
    <3> HIDE DEF r, m
    <3> QED BY <3>2, <3>3
  <2> QED BY <1>1, <2>1, <2>2, <2>3, LenProperties
<1> HIDE DEF r
<1>3. Range(r) \subseteq Range(s)
  BY <1>1, <1>2 DEF Range
<1>4. ASSUME IsInjective(s) PROVE IsInjective(r)
  <2> SUFFICES ASSUME NEW i \in 1..m, NEW j \in 1..m, r[i] = r[j] PROVE i = j
    BY <1>2 DEF IsInjective
  <2>1. n + i = n + j
    BY <1>1, <1>2, <1>4 DEF IsInjective
  <2> QED BY SMTT(30), <1>1, <2>1
<1> QED BY <1>2, <1>3, <1>4 DEF r

(* The first n, when there are as many.                                    *)
LEMMA FirstProperties ==
    ASSUME NEW s \in Seq(Tx), NEW n \in 0..Len(s)
    PROVE  First(s, n) \in Seq(Tx) /\ Len(First(s, n)) = n /\ Range(First(s, n)) \subseteq Range(s)
<1>1. Len(s) \in Nat /\ DOMAIN s = 1..Len(s) /\ n \in Nat /\ n \in 0..Len(s) /\ 1 \in 1..(Len(s) + 1)
  BY SMTT(30), LenProperties
<1>2. First(s, n) \in Seq(Tx) /\ Len(First(s, n)) = n
  BY SMTT(30), <1>1, SubSeqProperties DEF First
<1>3. \A i \in 1..n : First(s, n)[i] = s[i] /\ i \in 1..Len(s)
  BY SMTT(30), <1>1, <1>2, SubSeqProperties DEF First
<1>4. DOMAIN First(s, n) = 1..n
  BY <1>2, LenProperties
<1> QED BY <1>1, <1>2, <1>3, <1>4 DEF Range

(* `Fit` counts some of the transactions.                                  *)
LEMMA FitType ==
    ASSUME NEW s \in Seq(Tx), NEW max
    PROVE  Fit(s, max) \in 0..Len(s)
<1> DEFINE F == {k \in 1..Len(s) : \/ k = 1
                                   \/ /\ Bytes(SubSeq(s, 1, k)) <= max
                                      /\ Bytes(SubSeq(s, 1, k - 1)) < max}
<1>1. Len(s) \in Nat /\ F \in SUBSET (1..Len(s))
  BY LenProperties
<1>2. Fit(s, max) = Cardinality(F)
  BY DEF Fit
<1> HIDE DEF F
<1> QED BY <1>1, <1>2, Ranks

(* Transactions of a block enter the replay filter one by one; the filter  *)
(* keeps to its bound and holds nothing but what it was told.              *)
Filters(order, included) ==
    {o \in Seq(Tx) : Len(o) <= AppliedBound /\ Range(o) \subseteq Range(order) \cup Range(included)}

(* Noting an id keeps the filter within its bound ...                      *)
LEMMA NoteAppliedType ==
    ASSUME NEW order \in Seq(Tx), Len(order) <= AppliedBound, NEW t \in Tx
    PROVE  /\ NoteApplied(order, t) \in Seq(Tx)
           /\ Len(NoteApplied(order, t)) <= AppliedBound
           /\ Range(NoteApplied(order, t)) \subseteq Range(order) \cup {t}
<1> DEFINE a == Append(order, t)
<1>1. /\ a \in Seq(Tx) /\ Len(order) \in Nat /\ Len(a) = Len(order) + 1
      /\ DOMAIN a = 1..(Len(order) + 1) /\ DOMAIN order = 1..Len(order)
      /\ \A i \in DOMAIN a : a[i] = order[i] \/ a[i] = t
      /\ \A i \in 1..Len(order) : a[i] = order[i]
      /\ a[Len(order) + 1] = t
  BY SMTT(30), AppendProperties, LenProperties
<1>2. Range(a) \subseteq Range(order) \cup {t}
  BY SMTT(30), <1>1 DEF Range
<1>3. a # <<>>
  BY SMTT(30), <1>1
<1> HIDE DEF a
<1>4. /\ Tail(a) \in Seq(Tx) /\ Len(Tail(a)) = Len(order)
      /\ DOMAIN Tail(a) = 1..Len(order)
      /\ \A i \in 1..Len(order) : Tail(a)[i] = a[i + 1] /\ i + 1 \in DOMAIN a
  BY SMTT(30), <1>1, <1>3, HeadTailProperties, LenProperties
<1>5. Range(Tail(a)) \subseteq Range(a)
  BY <1>4 DEF Range
<1>6. AppliedBound \in Nat
  BY LimitAssumption
<1>7. CASE t \in Range(order)
  BY <1>7 DEF NoteApplied
<1>8. CASE t \notin Range(order) /\ Len(order) >= AppliedBound
  <2>1. NoteApplied(order, t) = Tail(a)
    BY <1>8 DEF NoteApplied, a
  <2> QED BY <1>2, <1>4, <1>5, <2>1
<1>9. CASE t \notin Range(order) /\ ~(Len(order) >= AppliedBound)
  <2>1. NoteApplied(order, t) = a
    BY <1>9 DEF NoteApplied, a
  <2>2. Len(a) <= AppliedBound
    BY SMTT(30), <1>1, <1>6, <1>9
  <2> QED BY <1>1, <1>2, <2>1, <2>2
<1> QED BY <1>7, <1>8, <1>9

(* ... and so does noting those of a block.                                *)
LEMMA NoteAllAppliedType ==
    ASSUME NEW order \in Seq(Tx), Len(order) <= AppliedBound, NEW included \in Seq(Tx)
    PROVE  NoteAllApplied(order, included) \in Filters(order, included)
<1> DEFINE n == Len(included)
           F == Filters(order, included)
           step == [i \in 1..n |-> [o \in F |-> NoteApplied(o, included[i])]]
           Noting(f) == f = [i \in 0..n |->
                               IF i = 0 THEN order ELSE NoteApplied(f[i - 1], included[i])]
<1>1. n \in Nat /\ DOMAIN included = 1..n /\ order \in F
  BY LenProperties DEF Filters
<1>2. ASSUME NEW i \in 1..n, NEW o \in F PROVE NoteApplied(o, included[i]) \in F
  <2>1. included[i] \in Tx /\ included[i] \in Range(included)
    BY <1>1, ElementOfSeq DEF Range
  <2>2. o \in Seq(Tx) /\ Len(o) <= AppliedBound /\ Range(o) \subseteq Range(order) \cup Range(included)
    BY DEF Filters
  <2> DEFINE u == included[i]
             r == NoteApplied(o, u)
  <2>3. r \in Seq(Tx) /\ Len(r) <= AppliedBound /\ Range(r) \subseteq Range(o) \cup {u}
    BY <2>1, <2>2, NoteAppliedType
  <2> HIDE DEF u, r
  <2>4. r \in Filters(order, included)
    BY <2>1, <2>2, <2>3 DEF Filters, u
  <2> QED BY <2>4 DEF r, u
<1>3. step \in [1..n -> [F -> F]]
  BY <1>2
<1>4. PICK f \in [0..n -> F] : Recursion(f, n, order, step)
  <2> HIDE DEF F, step, n
  <2> QED BY <1>1, <1>3, RecursionExists
<1>5. Noting(f)
  <2>1. f[0] = order /\ \A i \in 1..n : f[i] = step[i][f[i - 1]]
    BY <1>4 DEF Recursion
  <2>2. \A i \in 1..n : i - 1 \in 0..n
    BY SMTT(30), <1>1
  <2>3. \A i \in 1..n : f[i] = NoteApplied(f[i - 1], included[i])
    BY <1>4, <2>1, <2>2
  <2>4. \A i \in 0..n : i # 0 => i \in 1..n
    BY SMTT(30), <1>1
  <2>5. \A i \in 0..n : f[i] = IF i = 0 THEN order ELSE NoteApplied(f[i - 1], included[i])
    BY <2>1, <2>3, <2>4
  <2> HIDE DEF F, step, n
  <2> QED BY <1>4, <2>5
<1>6. Noting(CHOOSE g : Noting(g))
  BY <1>5
<1> DEFINE noted == CHOOSE g : Noting(g)
           P == {i \in 0..n : noted[i] \in F}
<1>7. NoteAllApplied(order, included) = noted[n]
  BY DEF NoteAllApplied
<1>8. /\ noted[0] = order
      /\ \A i \in 1..n : i - 1 \in 0..n /\ noted[i] = NoteApplied(noted[i - 1], included[i])
  <2>1. noted = [i \in 0..n |-> IF i = 0 THEN order ELSE NoteApplied(noted[i - 1], included[i])]
    BY <1>6
  <2> HIDE DEF noted
  <2>2. 0 \in 0..n /\ \A i \in 1..n : i \in 0..n /\ i - 1 \in 0..n /\ i # 0
    BY SMTT(30), <1>1
  <2> HIDE DEF n
  <2> QED BY <2>1, <2>2
<1> HIDE DEF noted, F
<1>9. 0 \in P /\ \A i \in 1..n : i - 1 \in P => i \in P
  BY SMTT(30), <1>1, <1>2, <1>8
<1>10. 0..n \subseteq P
  <2> HIDE DEF P, n
  <2> QED BY <1>1, <1>9, IntervalInduction
<1> QED BY SMTT(30), <1>1, <1>7, <1>10 DEF F

(* The blocks that are applied.                                            *)
LEMMA IncludedType == ASSUME NEW included \in Included PROVE included \in Seq(Tx)
<1>1. CASE \E t \in Tx : included = <<t>>
  BY SMTT(30), <1>1
<1>2. CASE included \in Tx \X Tx
  <2>1. PICK t \in Tx, u \in Tx : included = <<t, u>>
    BY SMTT(30), <1>2
  <2> QED BY SMTT(30), <2>1
<1> QED BY <1>1, <1>2 DEF Included

-----------------------------------------------------------------------------
(* The pool.                                                               *)

PoolInv == txs \in Seq(Tx) /\ PoolConsistent

(* A pool whose books were rewritten from its sequence is in order.        *)
LEMMA PoolBecomes ==
    ASSUME NEW pool \in Seq(Tx), IsInjective(pool), Len(pool) <= MaxOf(Capacity, 1),
           txs' = pool, txIndex' = Range(pool), totalBytes' = Bytes(pool)
    PROVE  PoolInv'
BY DEF PoolInv, PoolConsistent, Bytes, MaxOf

(* The pool after some transactions have left it.                          *)
LEMMA LeavePool ==
    ASSUME PoolInv, NEW rest \in Seq(Tx), IsInjective(rest), Len(rest) <= Len(txs),
           txs' = rest, txIndex' = Range(rest), totalBytes' = Bytes(rest)
    PROVE  PoolInv'
<1>1. Len(rest) \in Nat /\ Len(txs) \in Nat /\ MaxOf(Capacity, 1) \in Nat
    BY LenProperties, LimitAssumption DEF PoolInv, MaxOf
<1>2. Len(rest) <= MaxOf(Capacity, 1)
    BY SMTT(30), <1>1 DEF PoolInv, PoolConsistent
<1> QED BY <1>2, PoolBecomes

(* `drain_up_to`: a suffix of the pool is left.                            *)
LEMMA DrainPool ==
    ASSUME PoolInv, NEW rest \in Seq(Tx), IsInjective(rest), Len(rest) <= Len(txs),
           Range(rest) \subseteq Range(txs), Drained(rest, Range(txs) \ Range(rest))
    PROVE  PoolInv'
<1>1. txIndex' = Range(rest)
    BY DEF Drained, PoolInv, PoolConsistent
<1>2. Bytes(txs) \in Nat /\ Bytes(rest) \in Nat
    BY BytesType DEF PoolInv
<1>3. totalBytes' = Bytes(rest)
    BY SMTT(30), <1>2 DEF Drained, PoolInv, PoolConsistent
<1> QED BY <1>1, <1>3, LeavePool DEF Drained

(* `on_block_applied` and `produce_selected_eb`: whatever is in S goes.    *)
LEMMA WithoutPool ==
    ASSUME PoolInv, NEW S, txs' = Without(txs, S), txIndex' = txIndex \ S,
           totalBytes' = Bytes(Without(txs, S))
    PROVE  PoolInv'
<1> DEFINE rest == Without(txs, S)
<1>1. /\ rest \in Seq(Tx) /\ IsInjective(rest) /\ Len(rest) <= Len(txs)
      /\ Range(rest) = Range(txs) \ S
    BY WithoutProperties DEF PoolInv, PoolConsistent
<1>2. txIndex' = Range(rest) /\ totalBytes' = Bytes(rest) /\ txs' = rest
    BY <1>1 DEF PoolInv, PoolConsistent
<1> HIDE DEF rest
<1> QED BY <1>1, <1>2, LeavePool

(* `admit_internal`: the new one comes last, after the oldest has gone.    *)
LEMMA AdmitPool ==
    ASSUME PoolInv, NEW t \in Tx, t \notin txIndex, AdmitInternal(t, Evicted)
    PROVE  PoolInv'
<1> DEFINE base == IF Evicted = {} THEN txs ELSE Tail(txs)
           gone == IF Evicted = {} THEN 0 ELSE Size[Head(txs)]
<1>1. /\ txs \in Seq(Tx) /\ Len(txs) \in Nat /\ DOMAIN txs = 1..Len(txs)
      /\ txIndex = Range(txs) /\ IsInjective(txs) /\ totalBytes = Bytes(txs)
      /\ Len(txs) <= MaxOf(Capacity, 1) /\ Capacity \in Nat /\ MaxOf(Capacity, 1) \in Nat
    BY LenProperties, LimitAssumption DEF PoolInv, PoolConsistent, MaxOf
<1>2. /\ base \in Seq(Tx) /\ IsInjective(base) /\ Range(base) = txIndex \ Evicted
      /\ Len(base) + 1 <= MaxOf(Capacity, 1) /\ Bytes(txs) = Bytes(base) + gone
      /\ gone \in Nat
    <2>1. CASE Evicted = {}
        <3>1. Bytes(txs) \in Nat
            BY <1>1, BytesType
        <3>2. ~(Len(txs) >= Capacity /\ txs # <<>>)
            BY <2>1 DEF Evicted
        <3>3. Len(txs) + 1 <= MaxOf(Capacity, 1)
            <4>1. CASE txs = <<>>
                BY SMTT(30), <1>1, <4>1 DEF MaxOf
            <4>2. CASE ~(Len(txs) >= Capacity)
                BY SMTT(30), <1>1, <4>2 DEF MaxOf
            <4> QED BY <3>2, <4>1, <4>2
        <3> QED BY SMTT(30), <1>1, <2>1, <3>1, <3>3
    <2>2. CASE Evicted # {}
        <3>1. txs # <<>> /\ Evicted = {Head(txs)}
            BY <2>2 DEF Evicted
        <3>2. /\ Tail(txs) \in Seq(Tx) /\ Len(Tail(txs)) = Len(txs) - 1 /\ Head(txs) \in Tx
              /\ Head(txs) = txs[1]
              /\ \A i \in 1..(Len(txs) - 1) : Tail(txs)[i] = txs[i + 1]
              /\ DOMAIN Tail(txs) = 1..(Len(txs) - 1)
            BY SMTT(30), <1>1, <3>1, HeadTailProperties, LenProperties
        <3>3. Len(txs) >= 1
            BY SMTT(30), <1>1, <3>1, EmptySeq
        <3>4. IsInjective(Tail(txs))
            BY SMTT(30), <1>1, <3>2, <3>3 DEF IsInjective
        <3>5. Range(Tail(txs)) = Range(txs) \ {Head(txs)}
            <4>1. ASSUME NEW i \in 1..(Len(txs) - 1)
                  PROVE  Tail(txs)[i] \in Range(txs) \ {Head(txs)}
                BY SMTT(30), <1>1, <3>2, <3>3, <4>1 DEF IsInjective, Range
            <4>2. ASSUME NEW i \in 1..Len(txs), txs[i] # Head(txs)
                  PROVE  txs[i] \in Range(Tail(txs))
                <5>1. i - 1 \in 1..(Len(txs) - 1) /\ (i - 1) + 1 = i
                    BY SMTT(30), <1>1, <3>2, <4>2
                <5> QED BY <3>2, <5>1 DEF Range
            <4> QED BY SMTT(30), <1>1, <3>2, <4>1, <4>2 DEF Range
        <3>6. Bytes(txs) = Bytes(Tail(txs)) + Size[Head(txs)]
            BY <1>1, <3>1, BytesTail
        <3>7. Size[Head(txs)] \in Nat
            BY <3>2, TxAssumption
        <3>8. Len(Tail(txs)) + 1 <= MaxOf(Capacity, 1)
            BY SMTT(30), <1>1, <3>2
        <3> QED BY <1>1, <2>2, <3>1, <3>2, <3>4, <3>5, <3>6, <3>7, <3>8
    <2> QED BY <2>1, <2>2
<1>3. /\ txs' = Append(base, t) /\ txIndex' = (txIndex \ Evicted) \cup {t}
      /\ totalBytes' = totalBytes - gone + Size[t]
    BY DEF AdmitInternal
<1> HIDE DEF base, gone
<1>4. /\ Append(base, t) \in Seq(Tx) /\ Len(Append(base, t)) = Len(base) + 1
      /\ Range(Append(base, t)) = Range(base) \cup {t}
      /\ IsInjective(Append(base, t))
    <2>1. /\ Append(base, t) \in Seq(Tx) /\ Len(Append(base, t)) = Len(base) + 1
          /\ Len(base) \in Nat /\ DOMAIN base = 1..Len(base)
          /\ DOMAIN Append(base, t) = 1..(Len(base) + 1)
          /\ \A i \in 1..Len(base) : Append(base, t)[i] = base[i]
          /\ Append(base, t)[Len(base) + 1] = t
        BY SMTT(30), <1>2, AppendProperties, LenProperties
    <2>2. \A i \in 1..Len(base) : i \in 1..(Len(base) + 1) /\ base[i] \in Range(base)
        BY SMTT(30), <2>1 DEF Range
    <2>3. \A i \in 1..(Len(base) + 1) : i \in 1..Len(base) \/ i = Len(base) + 1
        BY SMTT(30), <2>1
    <2>4. Len(base) + 1 \in 1..(Len(base) + 1) /\ Len(base) + 1 \notin 1..Len(base)
        BY SMTT(30), <2>1
    <2>5. t \notin Range(base)
        BY <1>2
    <2>6. Range(Append(base, t)) = Range(base) \cup {t}
        BY <2>1, <2>2, <2>3, <2>4 DEF Range
    <2>7. IsInjective(Append(base, t))
        BY SMTT(30), <1>2, <2>1, <2>2, <2>3, <2>4, <2>5 DEF IsInjective
    <2> QED BY <2>1, <2>6, <2>7
<1>5. Bytes(Append(base, t)) = Bytes(base) + Size[t] /\ Bytes(base) \in Nat /\ Size[t] \in Nat
    BY <1>2, BytesAppend, BytesType, TxAssumption
<1>6. totalBytes' = Bytes(Append(base, t))
    BY SMTT(30), <1>1, <1>2, <1>3, <1>5
<1>7. Len(Append(base, t)) <= MaxOf(Capacity, 1) /\ txIndex' = Range(Append(base, t))
    BY <1>2, <1>3, <1>4
<1> QED BY <1>3, <1>4, <1>6, <1>7, PoolBecomes

(* A step that leaves the pool alone keeps it in order.                    *)
LEMMA FramePool ==
    ASSUME PoolInv, UNCHANGED poolVars
    PROVE  PoolInv'
BY DEF PoolInv, PoolConsistent, poolVars, Bytes, MaxOf

(* What `BodyPath` leaves in the pool: a suffix of it.                     *)
LEMMA RestOfForge ==
    ASSUME PoolInv, NEW cert
    PROVE  LET pool == From(txs, InlineCount(cert))
           IN  /\ pool \in Seq(Tx) /\ IsInjective(pool) /\ Len(pool) <= Len(txs)
               /\ Range(pool) \subseteq Range(txs)
<1> DEFINE c == InlineCount(cert)
<1>1. txs \in Seq(Tx) /\ IsInjective(txs) /\ Len(txs) \in Nat
    BY LenProperties DEF PoolInv, PoolConsistent
<1>2. c \in 0..Len(txs)
    BY SMTT(30), <1>1, FitType DEF InlineCount
<1> HIDE DEF c
<1>3. Len(txs) - c <= Len(txs)
    BY SMTT(30), <1>1, <1>2
<1> QED BY <1>1, <1>2, <1>3, FromProperties DEF c

(* The manifest is a prefix of the candidates.                             *)
LEMMA ManifestPrefix ==
    ASSUME NEW candidates, NEW rest \in Seq(Tx)
    PROVE  LET m == ManifestOf(candidates, rest)
           IN  /\ m \in Seq(Tx) /\ Len(m) \in 0..Len(rest)
               /\ Range(m) \subseteq Range(rest)
               /\ m = First(rest, Len(m))
<1> DEFINE n == Fit(rest, EbMax)
<1>1. CASE Bytes(candidates) > RbMax
    <2>1. n \in 0..Len(rest)
        BY FitType
    <2> HIDE DEF n
    <2>2. First(rest, n) \in Seq(Tx) /\ Len(First(rest, n)) = n /\ Range(First(rest, n)) \subseteq Range(rest)
        BY <2>1, FirstProperties
    <2>3. ManifestOf(candidates, rest) = First(rest, n)
        BY <1>1 DEF ManifestOf, n
    <2> QED BY <2>1, <2>2, <2>3
<1>2. CASE ~(Bytes(candidates) > RbMax)
    <2>1. ManifestOf(candidates, rest) = <<>>
        BY <1>2 DEF ManifestOf
    <2>2. First(rest, 0) = <<>>
        BY SMTT(30), SubSeqEmpty DEF First
    <2>3. Len(rest) \in Nat
        BY LenProperties
    <2>4. <<>> \in Seq(Tx) /\ Len(<<>>) = 0 /\ Range(<<>>) = {}
        BY SMTT(30) DEF Range
    <2> QED BY SMTT(30), <2>1, <2>2, <2>3, <2>4
<1> QED BY <1>1, <1>2

(* Every step keeps the pool in order.                                     *)
LEMMA NextPool == PoolInv /\ [Next]_vars => PoolInv'
<1> SUFFICES ASSUME PoolInv, [Next]_vars PROVE PoolInv'
    OBVIOUS
<1>1. ASSUME NEW t \in Tx, AdmitValidated(t) PROVE PoolInv'
    BY <1>1, AdmitPool DEF AdmitValidated
<1>2. ASSUME NEW included \in Included, OnBlockApplied(included) PROVE PoolInv'
    <2>1. CASE Range(txs) \cap Range(included) = {}
        BY <1>2, <2>1, FramePool DEF OnBlockApplied
    <2>2. CASE Range(txs) \cap Range(included) # {}
        BY <1>2, <2>2, WithoutPool DEF OnBlockApplied
    <2> QED BY <2>1, <2>2
<1>3. ASSUME NEW eb \in OwnEB, NEW cert \in BOOLEAN, ForgeRb(eb, cert) PROVE PoolInv'
    <2> DEFINE pool == From(txs, InlineCount(cert))
               manifest == ManifestOf(txs, pool)
    <2>1. ForgeBody(eb, pool, manifest)
        BY <1>3 DEF ForgeRb
    <2>2. /\ pool \in Seq(Tx) /\ IsInjective(pool) /\ Len(pool) <= Len(txs)
          /\ Range(pool) \subseteq Range(txs)
        BY RestOfForge
    <2> HIDE DEF pool
    <2>3. Len(manifest) \in 0..Len(pool)
        BY <2>2, ManifestPrefix
    <2> HIDE DEF manifest
    <2>4. CASE manifest = <<>>
        BY <2>1, <2>2, <2>4, DrainPool DEF ForgeBody
    <2>5. CASE manifest # <<>>
        <3> DEFINE rest == From(pool, Len(manifest))
        <3>1. Drained(rest, Range(txs) \ Range(rest))
            BY <2>1, <2>5 DEF ForgeBody, ProduceEb
        <3>2. /\ rest \in Seq(Tx) /\ IsInjective(rest) /\ Len(rest) = Len(pool) - Len(manifest)
              /\ Range(rest) \subseteq Range(pool)
            BY <2>2, <2>3, FromProperties
        <3> HIDE DEF rest
        <3>3. Len(rest) <= Len(txs)
            <4>1. Len(pool) \in Nat /\ Len(txs) \in Nat
                BY <2>2, LenProperties DEF PoolInv
            <4> QED BY SMTT(30), <2>2, <2>3, <3>2, <4>1
        <3> QED BY <2>2, <3>1, <3>2, <3>3, DrainPool
    <2> QED BY <2>4, <2>5
<1>4. ASSUME NEW eb \in OwnEB, NEW e \in DOMAIN manifests, ForgeExcluding(eb, manifests[e])
      PROVE PoolInv'
    <2>1. PICK manifest : ProduceSelectedEb(eb, manifest)
        BY <1>4 DEF ForgeExcluding
    <2> QED BY <2>1, WithoutPool DEF ProduceSelectedEb
<1>5. ASSUME UNCHANGED poolVars PROVE PoolInv'
    BY <1>5, FramePool
<1>6. CASE Tick
    BY <1>5, <1>6 DEF Tick
<1>7. ASSUME NEW t \in Tx, MergeEbBody(t) PROVE PoolInv'
    BY <1>5, <1>7 DEF MergeEbBody
<1>8. ASSUME NEW p \in Peer,
             \/ ForgetPeer(p)
             \/ \E n \in Batches, withheld \in SUBSET Tx : PeekUnannouncedForPeer(p, n, withheld)
             \/ \E t \in Tx, passes \in BOOLEAN : MarkAnnouncedToPeer(p, t, passes)
      PROVE  PoolInv'
    BY <1>5, <1>8 DEF ForgetPeer, PeekUnannouncedForPeer, MarkAnnouncedToPeer
<1>9. ASSUME NEW eb \in RemoteEB, RecordEbManifest(eb) \/ PinEbTransactions(eb) PROVE PoolInv'
    BY <1>5, <1>9 DEF RecordEbManifest, PinEbTransactions
<1>10. ASSUME NEW eb \in EB \cup {None}, ProtectChainTipEb(eb) PROVE PoolInv'
    BY <1>5, <1>10 DEF ProtectChainTipEb
<1>11. CASE UNCHANGED vars
    BY <1>5, <1>11 DEF vars
<1> QED
    BY <1>1, <1>2, <1>3, <1>4, <1>6, <1>7, <1>8, <1>9, <1>10, <1>11 DEF Next

-----------------------------------------------------------------------------
(* The peers.                                                              *)

(* Both sets are maps over the peers.                                      *)
PeerMaps ==
    /\ unannounced = [p \in Peer |-> unannounced[p]]
    /\ advertised = [p \in Peer |-> advertised[p]]

PeerInv == PeerMaps /\ PeersPartition

(* The books of the peers are in order initially ...                       *)
LEMMA InitPeers == Init => PeerInv
BY DEF Init, PeerInv, PeerMaps, PeersPartition

(* Transactions that leave the index leave the sets of every peer.         *)
LEMMA LeavePeers ==
    ASSUME NEW S, PeerInv, PruneFromPeerSets(S), txIndex' = txIndex \ S,
           registered' = registered
    PROVE  PeerInv'
BY DEF PeerInv, PeerMaps, PeersPartition, PruneFromPeerSets

(* Only what is owed is moved to the advertised set, and a new peer is     *)
(* owed the whole pool.                                                    *)
LEMMA AdvertisePeers ==
    ASSUME NEW p \in Peer, NEW S, S \subseteq Owed(p), PeerInv, Advertise(p, S),
           txIndex' = txIndex
    PROVE  PeerInv'
BY DEF PeerInv, PeerMaps, PeersPartition, Advertise, Owed

(* The admitted transaction is new to every peer.                          *)
LEMMA AdmitPeers ==
    ASSUME NEW t, NEW old, PeerInv, AdmitInternal(t, old), t \notin txIndex,
           registered' = registered
    PROVE  PeerInv'
BY SMTT(30) DEF PeerInv, PeerMaps, PeersPartition, AdmitInternal

(* A step that touches neither the index nor the peers.                    *)
LEMMA FramePeers ==
    ASSUME PeerInv, UNCHANGED <<txIndex, peerVars>>
    PROVE  PeerInv'
BY DEF PeerInv, PeerMaps, PeersPartition, peerVars

(* ... and after every step.                                               *)
LEMMA NextPeers == PeerInv /\ [Next]_vars => PeerInv'
<1> SUFFICES ASSUME PeerInv, [Next]_vars PROVE PeerInv'
    OBVIOUS
<1>1. CASE Tick
    BY <1>1, FramePeers DEF Tick, poolVars
<1>2. ASSUME NEW t \in Tx, AdmitValidated(t) PROVE PeerInv'
    BY <1>2, AdmitPeers DEF AdmitValidated
<1>3. ASSUME NEW t \in Tx, MergeEbBody(t) PROVE PeerInv'
    BY <1>3, FramePeers DEF MergeEbBody, poolVars
<1>4. ASSUME NEW included \in Included, OnBlockApplied(included) PROVE PeerInv'
    <2>1. CASE Range(txs) \cap Range(included) = {}
        BY <1>4, <2>1, FramePeers DEF OnBlockApplied, poolVars, peerVars
    <2>2. CASE Range(txs) \cap Range(included) # {}
        BY <1>4, <2>2, LeavePeers DEF OnBlockApplied
    <2> QED BY <2>1, <2>2
<1>5. ASSUME NEW p \in Peer, ForgetPeer(p) PROVE PeerInv'
    BY <1>5 DEF ForgetPeer, PeerInv, PeerMaps, PeersPartition, poolVars
<1>6. ASSUME NEW p \in Peer, NEW n \in Batches, NEW withheld \in SUBSET Tx,
             PeekUnannouncedForPeer(p, n, withheld)
      PROVE PeerInv'
    <2>1. FirstOf(Owed(p) \ withheld, n) \subseteq Owed(p)
        BY DEF FirstOf
    <2> QED BY <1>6, <2>1, AdvertisePeers DEF PeekUnannouncedForPeer, poolVars
<1>7. ASSUME NEW p \in Peer, NEW t \in Tx, NEW passes \in BOOLEAN,
             MarkAnnouncedToPeer(p, t, passes)
      PROVE PeerInv'
    <2> DEFINE toSend == IF passes THEN Owed(p) \cap {t} ELSE {}
    <2>1. toSend \subseteq Owed(p)
        OBVIOUS
    <2>2. Advertise(p, toSend) /\ txIndex' = txIndex
        BY <1>7 DEF MarkAnnouncedToPeer, poolVars
    <2> QED BY <2>1, <2>2, AdvertisePeers
<1>8. ASSUME NEW eb \in RemoteEB, RecordEbManifest(eb) \/ PinEbTransactions(eb) PROVE PeerInv'
    BY <1>8, FramePeers DEF RecordEbManifest, PinEbTransactions, poolVars
<1>9. ASSUME NEW eb \in EB \cup {None}, ProtectChainTipEb(eb) PROVE PeerInv'
    BY <1>9, FramePeers DEF ProtectChainTipEb, poolVars
<1>10. ASSUME NEW eb \in OwnEB, NEW cert \in BOOLEAN, ForgeRb(eb, cert) PROVE PeerInv'
    <2>1. PICK S : PruneFromPeerSets(S) /\ txIndex' = txIndex \ S
        BY <1>10 DEF ForgeRb, ForgeBody, ProduceEb, Drained
    <2> QED BY <1>10, <2>1, LeavePeers DEF ForgeRb
<1>11. ASSUME NEW eb \in OwnEB, NEW e \in DOMAIN manifests, ForgeExcluding(eb, manifests[e])
       PROVE PeerInv'
    <2>1. PICK S : PruneFromPeerSets(S) /\ txIndex' = txIndex \ S
        BY <1>11 DEF ForgeExcluding, ProduceSelectedEb
    <2> QED BY <1>11, <2>1, LeavePeers DEF ForgeExcluding
<1>12. CASE UNCHANGED vars
    BY <1>12, FramePeers DEF vars, poolVars
<1> QED
    BY <1>1, <1>2, <1>3, <1>4, <1>5, <1>6, <1>7, <1>8, <1>9, <1>10, <1>11, <1>12 DEF Next

-----------------------------------------------------------------------------
(* The replay filter keeps its bound, and what it holds is not in the pool.*)
FilterInv == applied \in Seq(Tx) /\ Len(applied) <= AppliedBound /\ AppliedNotInPool

(* A step that only takes from the pool keeps the filter disjoint.         *)
LEMMA FrameFilter ==
    ASSUME FilterInv, applied' = applied, txIndex' \subseteq txIndex
    PROVE  FilterInv'
BY DEF FilterInv, AppliedNotInPool

(* Every step keeps the filter bounded and disjoint from the pool.         *)
LEMMA NextFilter == PoolInv /\ FilterInv /\ [Next]_vars => FilterInv'
<1> SUFFICES ASSUME PoolInv, FilterInv, [Next]_vars PROVE FilterInv'
    OBVIOUS
<1>1. ASSUME NEW t \in Tx, AdmitValidated(t) PROVE FilterInv'
    <2>1. applied' = applied /\ t \notin Range(applied) /\ txIndex' = (txIndex \ Evicted) \cup {t}
        BY <1>1 DEF AdmitValidated, AdmitInternal
    <2> QED BY <2>1 DEF FilterInv, AppliedNotInPool
<1>2. ASSUME NEW included \in Included, OnBlockApplied(included) PROVE FilterInv'
    <2>1. NoteAllApplied(applied, included) \in Filters(applied, included)
        BY IncludedType, NoteAllAppliedType DEF FilterInv
    <2>2. /\ applied' \in Seq(Tx) /\ Len(applied') <= AppliedBound
          /\ Range(applied') \subseteq Range(applied) \cup Range(included)
        BY <1>2, <2>1 DEF OnBlockApplied, Filters
    <2>3. txIndex' \subseteq txIndex /\ txIndex' \cap Range(included) = {}
        BY <1>2 DEF OnBlockApplied, PoolInv, PoolConsistent, poolVars
    <2>4. Range(applied') \cap txIndex' = {}
        BY <2>2, <2>3 DEF FilterInv, AppliedNotInPool
    <2>5. AppliedNotInPool'
        BY <2>4 DEF AppliedNotInPool, Range
    <2> QED BY <2>2, <2>5 DEF FilterInv
<1>3. ASSUME applied' = applied, txIndex' \subseteq txIndex PROVE FilterInv'
    BY <1>3, FrameFilter
<1>4. ASSUME NEW eb \in OwnEB, NEW cert \in BOOLEAN, ForgeRb(eb, cert) PROVE FilterInv'
    BY <1>3, <1>4 DEF ForgeRb, ForgeBody, ProduceEb, Drained
<1>5. ASSUME NEW eb \in OwnEB, NEW e \in DOMAIN manifests, ForgeExcluding(eb, manifests[e])
      PROVE FilterInv'
    BY <1>3, <1>5 DEF ForgeExcluding, ProduceSelectedEb
<1>6. CASE Tick
    BY <1>3, <1>6 DEF Tick, poolVars
<1>7. ASSUME NEW t \in Tx, MergeEbBody(t) PROVE FilterInv'
    BY <1>3, <1>7 DEF MergeEbBody, poolVars
<1>8. ASSUME NEW p \in Peer,
             \/ ForgetPeer(p)
             \/ \E n \in Batches, withheld \in SUBSET Tx : PeekUnannouncedForPeer(p, n, withheld)
             \/ \E t \in Tx, passes \in BOOLEAN : MarkAnnouncedToPeer(p, t, passes)
      PROVE  FilterInv'
    BY <1>3, <1>8 DEF ForgetPeer, PeekUnannouncedForPeer, MarkAnnouncedToPeer, poolVars
<1>9. ASSUME NEW eb \in RemoteEB, RecordEbManifest(eb) \/ PinEbTransactions(eb) PROVE FilterInv'
    BY <1>3, <1>9 DEF RecordEbManifest, PinEbTransactions, poolVars
<1>10. ASSUME NEW eb \in EB \cup {None}, ProtectChainTipEb(eb) PROVE FilterInv'
    BY <1>3, <1>10 DEF ProtectChainTipEb, poolVars
<1>11. CASE UNCHANGED vars
    BY <1>3, <1>11 DEF vars, poolVars
<1> QED
    BY <1>1, <1>2, <1>4, <1>5, <1>6, <1>7, <1>8, <1>9, <1>10, <1>11 DEF Next

-----------------------------------------------------------------------------
(* What a peer was sent: it is owed the rest, and a peer that is not       *)
(* registered has been sent nothing.                                       *)
SentInv ==
    /\ registered \subseteq Peer
    /\ sent \in [Peer -> SUBSET Tx]
    /\ OwedExactly
    /\ \A p \in Peer \ registered : sent[p] = {}

(* The members of a pool are transactions.                                 *)
LEMMA RangeOfPool == ASSUME NEW s \in Seq(Tx) PROVE Range(s) \subseteq Tx
BY ElementOfSeq, LenProperties DEF Range

(* A step that leaves the peers alone keeps what they are owed exact.      *)
LEMMA FrameSent ==
    ASSUME SentInv, UNCHANGED <<txIndex, peerVars, sent>>
    PROVE  SentInv'
BY DEF SentInv, OwedExactly, peerVars

(* So does a departure from the pool,                                      *)
LEMMA LeaveSent ==
    ASSUME NEW S, PeerInv, SentInv, PruneFromPeerSets(S), txIndex' = txIndex \ S,
           UNCHANGED <<registered, sent>>
    PROVE  SentInv'
BY DEF SentInv, OwedExactly, PruneFromPeerSets

(* Whatever is sent was owed, and is in the pool.                          *)
LEMMA AdvertiseSent ==
    ASSUME NEW p \in Peer, NEW S, S \subseteq Owed(p), PoolInv, PeerInv, SentInv,
           Advertise(p, S), sent' = [sent EXCEPT ![p] = @ \cup S], txIndex' = txIndex
    PROVE  SentInv'
<1>1. Owed(p) = txIndex \ sent[p]
    BY DEF Owed, SentInv, OwedExactly
<1>2. txIndex \subseteq Tx
    BY RangeOfPool DEF PoolInv, PoolConsistent
<1>3. sent' \in [Peer -> SUBSET Tx]
    BY <1>1, <1>2 DEF SentInv
<1>4. unannounced'[p] = txIndex' \ sent'[p]
    BY <1>1 DEF Advertise, SentInv, PeerInv, PeerMaps
<1>5. \A q \in Peer \ {p} : unannounced'[q] = unannounced[q] /\ sent'[q] = sent[q]
    BY DEF Advertise, SentInv, PeerInv, PeerMaps
<1>6. registered' = registered \cup {p}
    BY DEF Advertise
<1> QED BY <1>3, <1>4, <1>5, <1>6 DEF SentInv, OwedExactly

(* and every step.                                                         *)
LEMMA NextSent == PoolInv /\ PeerInv /\ SentInv /\ [Next]_vars => SentInv'
<1> SUFFICES ASSUME PoolInv, PeerInv, SentInv, [Next]_vars PROVE SentInv'
    OBVIOUS
<1>1. CASE Tick
    BY <1>1, FrameSent DEF Tick, poolVars
<1>2. ASSUME NEW t \in Tx, AdmitValidated(t) PROVE SentInv'
    BY <1>2 DEF AdmitValidated, AdmitInternal, SentInv, OwedExactly
<1>3. ASSUME NEW t \in Tx, MergeEbBody(t) PROVE SentInv'
    BY <1>3, FrameSent DEF MergeEbBody, poolVars
<1>4. ASSUME NEW included \in Included, OnBlockApplied(included) PROVE SentInv'
    <2>1. CASE Range(txs) \cap Range(included) = {}
        BY <1>4, <2>1, FrameSent DEF OnBlockApplied, poolVars, peerVars
    <2>2. CASE Range(txs) \cap Range(included) # {}
        BY <1>4, <2>2, LeaveSent DEF OnBlockApplied
    <2> QED BY <2>1, <2>2
<1>5. ASSUME NEW p \in Peer, ForgetPeer(p) PROVE SentInv'
    BY <1>5 DEF ForgetPeer, SentInv, OwedExactly, PeerInv, PeerMaps, poolVars
<1>6. ASSUME NEW p \in Peer, NEW n \in Batches, NEW withheld \in SUBSET Tx,
             PeekUnannouncedForPeer(p, n, withheld)
      PROVE SentInv'
    <2> DEFINE toSend == FirstOf(Owed(p) \ withheld, n)
    <2>1. toSend \subseteq Owed(p)
        BY DEF FirstOf
    <2>2. Owed(p) \subseteq Range(txs)
        BY DEF Owed, SentInv, OwedExactly, PoolInv, PoolConsistent
    <2>3. /\ Advertise(p, toSend) /\ txIndex' = txIndex
          /\ sent' = [sent EXCEPT ![p] = @ \cup (toSend \cap (Range(txs) \cup pinned))]
        BY <1>6 DEF PeekUnannouncedForPeer, poolVars
    <2> HIDE DEF toSend
    <2>4. toSend \cap (Range(txs) \cup pinned) = toSend
        BY <2>1, <2>2
    <2> QED BY <2>1, <2>3, <2>4, AdvertiseSent
<1>7. ASSUME NEW p \in Peer, NEW t \in Tx, NEW passes \in BOOLEAN,
             MarkAnnouncedToPeer(p, t, passes)
      PROVE SentInv'
    <2> DEFINE toSend == IF passes THEN Owed(p) \cap {t} ELSE {}
    <2>1. toSend \subseteq Owed(p)
        OBVIOUS
    <2>2. Advertise(p, toSend) /\ txIndex' = txIndex /\ sent' = [sent EXCEPT ![p] = @ \cup toSend]
        BY <1>7 DEF MarkAnnouncedToPeer, poolVars
    <2> HIDE DEF toSend
    <2> QED BY <2>1, <2>2, AdvertiseSent
<1>8. ASSUME NEW eb \in RemoteEB, RecordEbManifest(eb) \/ PinEbTransactions(eb) PROVE SentInv'
    BY <1>8, FrameSent DEF RecordEbManifest, PinEbTransactions, poolVars
<1>9. ASSUME NEW eb \in EB \cup {None}, ProtectChainTipEb(eb) PROVE SentInv'
    BY <1>9, FrameSent DEF ProtectChainTipEb, poolVars
<1>10. ASSUME NEW eb \in OwnEB, NEW cert \in BOOLEAN, ForgeRb(eb, cert) PROVE SentInv'
    <2>1. PICK S : PruneFromPeerSets(S) /\ txIndex' = txIndex \ S
        BY <1>10 DEF ForgeRb, ForgeBody, ProduceEb, Drained
    <2> QED BY <1>10, <2>1, LeaveSent DEF ForgeRb
<1>11. ASSUME NEW eb \in OwnEB, NEW e \in DOMAIN manifests, ForgeExcluding(eb, manifests[e])
       PROVE SentInv'
    <2>1. PICK S : PruneFromPeerSets(S) /\ txIndex' = txIndex \ S
        BY <1>11 DEF ForgeExcluding, ProduceSelectedEb
    <2> QED BY <1>11, <2>1, LeaveSent DEF ForgeExcluding
<1>12. CASE UNCHANGED vars
    BY <1>12, FrameSent DEF vars, poolVars
<1> QED
    BY <1>1, <1>2, <1>3, <1>4, <1>5, <1>6, <1>7, <1>8, <1>9, <1>10, <1>11, <1>12 DEF Next

-----------------------------------------------------------------------------
(* The closures of EBs.                                                    *)

(* An own EB has a manifest only after it was forged.                      *)
EbInv == DOMAIN manifests \cap OwnEB \subseteq DOMAIN decided

(* What the pruning leaves of the manifests ms and the bodies pins: the    *)
(* manifests that are young or protected, with the bodies they name.       *)
LEMMA PruneKeeps ==
    ASSUME NEW ms, NEW pins, NEW max, NEW tipEb,
           PruneEbSlotWindow(ms, pins, max, tipEb)
    PROVE  /\ DOMAIN manifests' \subseteq DOMAIN ms
           /\ protected' = tipEb /\ maxEbSlot' = max
           /\ \A e \in DOMAIN ms :
                e = tipEb \/ EbSlot[e] >= Cutoff(max) =>
                    /\ e \in DOMAIN manifests'
                    /\ manifests'[e] = ms[e]
                    /\ ms[e] \cap pins \subseteq pinned'
<1>1. CASE Cutoff(max) = 0
    BY <1>1 DEF PruneEbSlotWindow, Retained, Referenced
<1>2. CASE Cutoff(max) # 0
    <2> DEFINE kept == {x \in DOMAIN ms : EbSlot[x] >= Cutoff(max) \/ x = tipEb}
    <2>1. manifests' = [e \in kept |-> ms[e]]
        BY <1>2 DEF PruneEbSlotWindow, Retained
    <2>2. pinned' = pins \cap UNION {manifests'[e] : e \in DOMAIN manifests'}
        BY <1>2 DEF PruneEbSlotWindow, Referenced
    <2>3. DOMAIN manifests' = kept /\ \A e \in kept : manifests'[e] = ms[e]
        BY <2>1
    <2>4. protected' = tipEb /\ maxEbSlot' = max
        BY DEF PruneEbSlotWindow
    <2>5. ASSUME NEW e \in DOMAIN ms, e = tipEb \/ EbSlot[e] >= Cutoff(max)
          PROVE  /\ e \in DOMAIN manifests'
                 /\ manifests'[e] = ms[e]
                 /\ ms[e] \cap pins \subseteq pinned'
        <3>1. e \in kept
            BY <2>5
        <3> HIDE DEF kept
        <3> QED BY <2>2, <2>3, <3>1
    <2>6. DOMAIN manifests' \subseteq DOMAIN ms
        BY <2>3
    <2> QED BY <2>4, <2>5, <2>6
<1> QED BY <1>1, <1>2

(* One step: nothing that must be kept is lost.                            *)
Keeps ==
    \A e \in DOMAIN manifests :
        e = protected' \/ EbSlot[e] >= Cutoff(maxEbSlot') =>
            /\ e \in DOMAIN manifests'
            /\ manifests'[e] = manifests[e]
            /\ manifests[e] \cap pinned \subseteq pinned'

(* A step that adds a manifest or bodies and prunes.                       *)
LEMMA GrowKeeps ==
    ASSUME NEW ms, NEW pins, NEW max, NEW tipEb,
           PruneEbSlotWindow(ms, pins, max, tipEb),
           DOMAIN manifests \subseteq DOMAIN ms,
           \A e \in DOMAIN manifests : ms[e] = manifests[e],
           pinned \subseteq pins
    PROVE  Keeps
BY SMTT(30), PruneKeeps DEF Keeps

(* A step that only adds pins keeps the closures.                          *)
LEMMA FrameKeeps ==
    ASSUME EbInv, manifests' = manifests, pinned \subseteq pinned', decided' = decided
    PROVE  Keeps /\ EbInv'
BY DEF Keeps, EbInv

(* Every step keeps the closures of the EBs it retains.                    *)
LEMMA NextKeeps == EbInv /\ [Next]_vars => Keeps /\ EbInv'
<1> SUFFICES ASSUME EbInv, [Next]_vars PROVE Keeps /\ EbInv'
    OBVIOUS
<1>1. CASE Tick
    BY <1>1, FrameKeeps DEF Tick, ebVars
<1>2. ASSUME NEW t \in Tx, AdmitValidated(t) PROVE Keeps /\ EbInv'
    BY <1>2, FrameKeeps DEF AdmitValidated, ebVars
<1>3. ASSUME NEW t \in Tx, MergeEbBody(t) PROVE Keeps /\ EbInv'
    BY <1>3, FrameKeeps DEF MergeEbBody
<1>4. ASSUME NEW included \in Included, OnBlockApplied(included) PROVE Keeps /\ EbInv'
    BY <1>4, FrameKeeps DEF OnBlockApplied, ebVars
<1>5. ASSUME NEW p \in Peer, ForgetPeer(p) PROVE Keeps /\ EbInv'
    BY <1>5, FrameKeeps DEF ForgetPeer, ebVars
<1>6. ASSUME NEW p \in Peer, NEW n \in Batches, NEW withheld \in SUBSET Tx,
             PeekUnannouncedForPeer(p, n, withheld)
      PROVE Keeps /\ EbInv'
    BY <1>6, FrameKeeps DEF PeekUnannouncedForPeer, ebVars
<1>7. ASSUME NEW p \in Peer, NEW t \in Tx, NEW passes \in BOOLEAN,
             MarkAnnouncedToPeer(p, t, passes)
      PROVE Keeps /\ EbInv'
    BY <1>7, FrameKeeps DEF MarkAnnouncedToPeer, ebVars
<1>8. ASSUME NEW eb \in RemoteEB, RecordEbManifest(eb) PROVE Keeps /\ EbInv'
    <2> DEFINE ms == OrInsert(manifests, eb, Content[eb])
    <2>1. PruneEbSlotWindow(ms, pinned, MaxOf(maxEbSlot, EbSlot[eb]), protected)
          /\ decided' = decided
        BY <1>8 DEF RecordEbManifest
    <2>2. DOMAIN ms = DOMAIN manifests \cup {eb} /\ \A x \in DOMAIN manifests : ms[x] = manifests[x]
        BY DEF OrInsert, Put
    <2> HIDE DEF ms
    <2>3. Keeps
        BY <2>1, <2>2, GrowKeeps
    <2>4. DOMAIN manifests' \subseteq DOMAIN manifests \cup {eb}
        BY <2>1, <2>2, PruneKeeps
    <2> QED BY <2>1, <2>3, <2>4, EbAssumption DEF EbInv
<1>9. ASSUME NEW eb \in RemoteEB, PinEbTransactions(eb) PROVE Keeps /\ EbInv'
    BY <1>9, FrameKeeps DEF PinEbTransactions
<1>10. ASSUME NEW eb \in EB \cup {None}, ProtectChainTipEb(eb) PROVE Keeps /\ EbInv'
    <2>1. PruneEbSlotWindow(manifests, pinned, maxEbSlot, eb) /\ decided' = decided
        BY <1>10 DEF ProtectChainTipEb
    <2>2. Keeps
        BY <2>1, GrowKeeps
    <2>3. DOMAIN manifests' \subseteq DOMAIN manifests
        BY <2>1, PruneKeeps
    <2> QED BY <2>1, <2>2, <2>3 DEF EbInv
<1>11. ASSUME NEW eb \in OwnEB, NEW cert \in BOOLEAN, ForgeRb(eb, cert) PROVE Keeps /\ EbInv'
    <2> DEFINE pool == From(txs, InlineCount(cert))
               manifest == ManifestOf(txs, pool)
    <2>1. ForgeBody(eb, pool, manifest) /\ eb \notin DOMAIN decided
        BY <1>11 DEF ForgeRb
    <2> HIDE DEF pool, manifest
    <2>2. CASE manifest = <<>>
        BY <2>1, <2>2, FrameKeeps DEF ForgeBody, ebVars
    <2>3. CASE manifest # <<>>
        <3> DEFINE closure == Range(First(pool, Len(manifest)))
                   ms == Put(manifests, eb, closure)
        <3>1. /\ PruneEbSlotWindow(ms, pinned \cup closure, MaxOf(maxEbSlot, EbSlot[eb]), protected)
              /\ decided' = Put(decided, eb, Range(manifest))
            BY <2>1, <2>3 DEF ForgeBody, ProduceEb
        <3>2. DOMAIN ms = DOMAIN manifests \cup {eb}
              /\ \A x \in DOMAIN manifests : x # eb => ms[x] = manifests[x]
            BY DEF Put
        <3>3. eb \notin DOMAIN manifests
            BY <2>1 DEF EbInv
        <3> HIDE DEF closure, ms
        <3>4. Keeps
            BY SMTT(30), <3>1, <3>2, <3>3, GrowKeeps
        <3>5. DOMAIN manifests' \subseteq DOMAIN manifests \cup {eb}
            BY <3>1, <3>2, PruneKeeps
        <3>6. DOMAIN decided' = DOMAIN decided \cup {eb}
            BY <3>1 DEF Put
        <3> QED BY <3>4, <3>5, <3>6 DEF EbInv
    <2> QED BY <2>2, <2>3
<1>12. ASSUME NEW eb \in OwnEB, NEW e \in DOMAIN manifests, ForgeExcluding(eb, manifests[e])
       PROVE Keeps /\ EbInv'
    <2>1. PICK manifest : ProduceSelectedEb(eb, manifest)
        BY <1>12 DEF ForgeExcluding
    <2> DEFINE ms == OrInsert(manifests, eb, Range(manifest))
    <2>2. /\ PruneEbSlotWindow(ms, pinned \cup Range(manifest),
                               MaxOf(maxEbSlot, EbSlot[eb]), protected)
          /\ decided' = Put(decided, eb, Range(manifest))
        BY <2>1 DEF ProduceSelectedEb
    <2>3. DOMAIN ms = DOMAIN manifests \cup {eb} /\ \A x \in DOMAIN manifests : ms[x] = manifests[x]
        BY DEF OrInsert, Put
    <2> HIDE DEF ms
    <2>4. Keeps
        BY <2>2, <2>3, GrowKeeps
    <2>5. DOMAIN manifests' \subseteq DOMAIN manifests \cup {eb}
        BY <2>2, <2>3, PruneKeeps
    <2>6. DOMAIN decided' = DOMAIN decided \cup {eb}
        BY <2>2 DEF Put
    <2> QED BY <2>4, <2>5, <2>6 DEF EbInv
<1>13. CASE UNCHANGED vars
    BY <1>13, FrameKeeps DEF vars, ebVars
<1> QED
    BY <1>1, <1>2, <1>3, <1>4, <1>5, <1>6, <1>7, <1>8, <1>9, <1>10, <1>11, <1>12, <1>13 DEF Next

(* For every retention window and all EBs: the chain tip's EB and the EBs  *)
(* of the window never lose their manifest or a body pinned for it         *)
(* (`prune_eb_slot_window`).                                               *)
THEOREM ClosuresKept == Spec => ClosureKept
<1>1. Init => EbInv
    BY DEF Init, EbInv, Empty
<1>2. EbInv /\ [Next]_vars => EbInv'
    BY NextKeeps
<1>3. EbInv /\ [Next]_vars => [Keeps]_vars
    BY NextKeeps
<1> QED BY <1>1, <1>2, <1>3, PTL DEF Spec, ClosureKept, Keeps

-----------------------------------------------------------------------------
(* The manifests and the pinned bodies of own EBs.                         *)

Maps(E) == UNION {[D -> SUBSET Tx] : D \in SUBSET E}

(* Membership in Maps, unfolded.                                           *)
LEMMA MapsType ==
    ASSUME NEW E, NEW f
    PROVE  f \in Maps(E) <=> /\ f = [x \in DOMAIN f |-> f[x]]
                             /\ DOMAIN f \subseteq E
                             /\ \A x \in DOMAIN f : f[x] \subseteq Tx
<1>1. ASSUME f \in Maps(E)
      PROVE  f = [x \in DOMAIN f |-> f[x]] /\ DOMAIN f \subseteq E /\ \A x \in DOMAIN f : f[x] \subseteq Tx
    <2>1. PICK D \in SUBSET E : f \in [D -> SUBSET Tx]
        BY <1>1 DEF Maps
    <2> QED BY <2>1
<1>2. ASSUME f = [x \in DOMAIN f |-> f[x]], DOMAIN f \subseteq E, \A x \in DOMAIN f : f[x] \subseteq Tx
      PROVE  f \in Maps(E)
    <2>1. f \in [DOMAIN f -> SUBSET Tx]
        BY <1>2
    <2> QED BY <1>2, <2>1 DEF Maps
<1> QED BY <1>1, <1>2

(* The map g is f with the closure S for e.                                *)
Extended(g, E, f, e, S) ==
    /\ g \in Maps(E)
    /\ DOMAIN g = DOMAIN f \cup {e}
    /\ g[e] = S
    /\ \A x \in DOMAIN f \ {e} : g[x] = f[x]

(* Put extends a map at one EB.                                            *)
LEMMA PutType ==
    ASSUME NEW E, NEW f \in Maps(E), NEW e \in E, NEW S \in SUBSET Tx
    PROVE  Extended(Put(f, e, S), E, f, e, S)
<1> DEFINE g == Put(f, e, S)
<1>1. /\ g = [x \in DOMAIN f \cup {e} |-> IF x = e THEN S ELSE f[x]]
    BY DEF Put
<1>2. DOMAIN f \subseteq E /\ \A x \in DOMAIN f : f[x] \subseteq Tx
    BY MapsType
<1> HIDE DEF g
<1>3. /\ DOMAIN g = DOMAIN f \cup {e} /\ g[e] = S /\ g = [x \in DOMAIN g |-> g[x]]
      /\ \A x \in DOMAIN f \ {e} : g[x] = f[x]
    BY <1>1
<1>4. g \in Maps(E)
    BY <1>2, <1>3, MapsType
<1> QED BY <1>3, <1>4 DEF g, Extended

OwnInv ==
    /\ manifests \in Maps(EB) /\ pinned \subseteq Tx
    /\ maxEbSlot \in Nat /\ protected \in EB \cup {None}
    /\ decided \in Maps(OwnEB)
    /\ EbInv
    /\ OwnEbServable

(* What the pruning keeps it keeps whole.                                  *)
LEMMA PruneServes ==
    ASSUME NEW ms \in Maps(EB), NEW pins \in SUBSET Tx, NEW max \in Nat,
           NEW tipEb \in EB \cup {None}, PruneEbSlotWindow(ms, pins, max, tipEb)
    PROVE  /\ manifests' \in Maps(EB) /\ pinned' \subseteq Tx
           /\ maxEbSlot' \in Nat /\ protected' \in EB \cup {None}
           /\ DOMAIN manifests' \subseteq DOMAIN ms
           /\ \A e \in DOMAIN manifests' :
                manifests'[e] = ms[e] /\ (ms[e] \subseteq pins => ms[e] \subseteq pinned')
<1>1. protected' = tipEb /\ maxEbSlot' = max
    BY DEF PruneEbSlotWindow
<1>2. CASE Cutoff(max) = 0
    BY <1>1, <1>2 DEF PruneEbSlotWindow, Retained, Referenced
<1>3. CASE Cutoff(max) # 0
    <2> DEFINE kept == {x \in DOMAIN ms : EbSlot[x] >= Cutoff(max) \/ x = tipEb}
    <2>1. manifests' = [e \in kept |-> ms[e]]
        BY <1>3 DEF PruneEbSlotWindow, Retained
    <2>2. pinned' = pins \cap UNION {manifests'[e] : e \in DOMAIN manifests'}
        BY <1>3 DEF PruneEbSlotWindow, Referenced
    <2>3. kept \subseteq DOMAIN ms
        OBVIOUS
    <2> HIDE DEF kept
    <2>4. DOMAIN manifests' = kept /\ \A e \in kept : manifests'[e] = ms[e]
        BY <2>1
    <2>5. DOMAIN ms \subseteq EB /\ \A x \in DOMAIN ms : ms[x] \subseteq Tx
        BY MapsType
    <2>6. manifests' \in Maps(EB)
        BY <2>1, <2>3, <2>4, <2>5, MapsType
    <2>7. \A e \in kept : ms[e] \subseteq pins => ms[e] \subseteq pinned'
        BY <2>2, <2>4
    <2> QED BY <1>1, <2>2, <2>3, <2>4, <2>6, <2>7
<1> QED BY <1>2, <1>3

(* A step that only adds pins keeps the own EBs servable.                  *)
LEMMA FrameOwn ==
    ASSUME OwnInv, UNCHANGED <<manifests, maxEbSlot, protected, decided>>,
           pinned \subseteq pinned', pinned' \subseteq Tx
    PROVE  OwnInv'
BY DEF OwnInv, EbInv, OwnEbServable, Maps

(* An EB that is forged: its manifest is recorded and its bodies pinned.   *)
LEMMA ForgeOwn ==
    ASSUME OwnInv, NEW eb \in OwnEB, eb \notin DOMAIN decided, NEW S \in SUBSET Tx, NEW ms,
           ms = Put(manifests, eb, S),
           PruneEbSlotWindow(ms, pinned \cup S, MaxOf(maxEbSlot, EbSlot[eb]), protected),
           decided' = Put(decided, eb, S)
    PROVE  OwnInv'
<1>0. manifests \in Maps(EB) /\ decided \in Maps(OwnEB) /\ eb \in EB
    BY DEF OwnInv, EB
<1>1. Extended(ms, EB, manifests, eb, S)
    BY <1>0, PutType
<1>2. Extended(decided', OwnEB, decided, eb, S)
    BY <1>0, PutType
<1>3. MaxOf(maxEbSlot, EbSlot[eb]) \in Nat /\ pinned \cup S \in SUBSET Tx
    BY EbAssumption DEF MaxOf, OwnInv, EB
<1>4. /\ manifests' \in Maps(EB) /\ pinned' \subseteq Tx
      /\ maxEbSlot' \in Nat /\ protected' \in EB \cup {None}
      /\ DOMAIN manifests' \subseteq DOMAIN ms
      /\ \A e \in DOMAIN manifests' :
            manifests'[e] = ms[e] /\ (ms[e] \subseteq pinned \cup S => ms[e] \subseteq pinned')
    BY <1>1, <1>3, PruneServes DEF OwnInv, Extended
<1>5. EbInv'
    BY <1>1, <1>2, <1>4 DEF OwnInv, EbInv, Extended
<1>6. ASSUME NEW e \in DOMAIN decided' \cap DOMAIN manifests'
      PROVE  manifests'[e] = decided'[e] /\ decided'[e] \subseteq pinned'
    <2>1. CASE e = eb
        BY <1>1, <1>2, <1>4, <2>1 DEF Extended
    <2>2. CASE e # eb
        BY SMTT(30), <1>1, <1>2, <1>4, <2>2 DEF OwnInv, OwnEbServable, Extended
    <2> QED BY <2>1, <2>2
<1>7. OwnEbServable'
    BY <1>6 DEF OwnEbServable
<1>8. (manifests \in Maps(EB))' /\ (decided \in Maps(OwnEB))'
    BY <1>2, <1>4 DEF Maps, Extended
<1> QED BY <1>4, <1>5, <1>7, <1>8 DEF OwnInv

(* A step that changes the manifests of remote EBs only, and prunes.       *)
LEMMA RemoteOwn ==
    ASSUME OwnInv, NEW ms \in Maps(EB), NEW max \in Nat, NEW tipEb \in EB \cup {None},
           PruneEbSlotWindow(ms, pinned, max, tipEb), decided' = decided,
           DOMAIN ms \subseteq DOMAIN manifests \cup RemoteEB,
           \A x \in DOMAIN manifests : ms[x] = manifests[x]
    PROVE  OwnInv'
<1>1. pinned \in SUBSET Tx
    BY DEF OwnInv
<1>2. /\ manifests' \in Maps(EB) /\ pinned' \subseteq Tx
      /\ maxEbSlot' \in Nat /\ protected' \in EB \cup {None}
      /\ DOMAIN manifests' \subseteq DOMAIN ms
      /\ \A e \in DOMAIN manifests' :
            manifests'[e] = ms[e] /\ (ms[e] \subseteq pinned => ms[e] \subseteq pinned')
    BY <1>1, PruneServes
<1>3. DOMAIN decided \subseteq OwnEB
    BY MapsType DEF OwnInv
<1>4. EbInv'
    BY <1>2, EbAssumption DEF OwnInv, EbInv
<1>5. ASSUME NEW e \in DOMAIN decided \cap DOMAIN manifests'
      PROVE  manifests'[e] = decided[e] /\ decided[e] \subseteq pinned'
    <2>1. e \in DOMAIN manifests
        BY <1>2, <1>3, EbAssumption
    <2> QED BY <1>2, <2>1 DEF OwnInv, OwnEbServable
<1>6. OwnEbServable'
    BY <1>5 DEF OwnEbServable
<1>7. (manifests \in Maps(EB))' /\ (decided \in Maps(OwnEB))'
    BY <1>2 DEF Maps, OwnInv
<1> QED BY <1>2, <1>4, <1>6, <1>7 DEF OwnInv

(* Every step keeps the own EBs servable.                                  *)
LEMMA NextOwn == PoolInv /\ OwnInv /\ [Next]_vars => OwnInv'
<1> SUFFICES ASSUME PoolInv, OwnInv, [Next]_vars PROVE OwnInv'
    OBVIOUS
<1>0. pinned \subseteq Tx /\ Range(txs) \subseteq Tx
    BY RangeOfPool DEF OwnInv, PoolInv
<1>1. ASSUME UNCHANGED <<ebVars, decided>> PROVE OwnInv'
    BY <1>0, <1>1, FrameOwn DEF ebVars
<1>2. CASE Tick
    BY <1>1, <1>2 DEF Tick
<1>3. ASSUME NEW t \in Tx, AdmitValidated(t) PROVE OwnInv'
    BY <1>1, <1>3 DEF AdmitValidated
<1>4. ASSUME NEW t \in Tx, MergeEbBody(t) PROVE OwnInv'
    BY <1>0, <1>4, FrameOwn DEF MergeEbBody
<1>5. ASSUME NEW included \in Included, OnBlockApplied(included) PROVE OwnInv'
    BY <1>1, <1>5 DEF OnBlockApplied
<1>6. ASSUME NEW p \in Peer,
             \/ ForgetPeer(p)
             \/ \E n \in Batches, withheld \in SUBSET Tx : PeekUnannouncedForPeer(p, n, withheld)
             \/ \E t \in Tx, passes \in BOOLEAN : MarkAnnouncedToPeer(p, t, passes)
      PROVE  OwnInv'
    BY <1>1, <1>6 DEF ForgetPeer, PeekUnannouncedForPeer, MarkAnnouncedToPeer
<1>7. ASSUME NEW eb \in RemoteEB, PinEbTransactions(eb) PROVE OwnInv'
    BY <1>0, <1>7, FrameOwn DEF PinEbTransactions
<1>8. ASSUME NEW eb \in RemoteEB, RecordEbManifest(eb) PROVE OwnInv'
    <2> DEFINE ms == OrInsert(manifests, eb, Content[eb])
               max == MaxOf(maxEbSlot, EbSlot[eb])
    <2>1. PruneEbSlotWindow(ms, pinned, max, protected) /\ decided' = decided
        BY <1>8 DEF RecordEbManifest
    <2>2. Content[eb] \in SUBSET Tx /\ max \in Nat /\ protected \in EB \cup {None} /\ eb \in EB
        BY EbAssumption DEF MaxOf, OwnInv, EB
    <2>3. /\ ms \in Maps(EB) /\ DOMAIN ms \subseteq DOMAIN manifests \cup {eb}
          /\ \A x \in DOMAIN manifests : ms[x] = manifests[x]
        <3>1. CASE eb \in DOMAIN manifests
            BY <3>1 DEF OrInsert, OwnInv
        <3>2. CASE eb \notin DOMAIN manifests
            <4>1. ms = Put(manifests, eb, Content[eb]) /\ manifests \in Maps(EB)
                BY <3>2 DEF OrInsert, OwnInv
            <4> HIDE DEF ms
            <4>2. Extended(ms, EB, manifests, eb, Content[eb])
                BY <2>2, <4>1, PutType
            <4> QED BY <3>2, <4>2 DEF Extended
        <3> QED BY <3>1, <3>2
    <2> HIDE DEF ms, max
    <2>4. DOMAIN ms \subseteq DOMAIN manifests \cup RemoteEB
        BY <2>3
    <2> QED BY <2>1, <2>2, <2>3, <2>4, RemoteOwn
<1>9. ASSUME NEW eb \in EB \cup {None}, ProtectChainTipEb(eb) PROVE OwnInv'
    <2>1. PruneEbSlotWindow(manifests, pinned, maxEbSlot, eb) /\ decided' = decided
        BY <1>9 DEF ProtectChainTipEb
    <2>2. manifests \in Maps(EB) /\ maxEbSlot \in Nat
        BY DEF OwnInv
    <2> QED BY <2>1, <2>2, RemoteOwn
<1>10. ASSUME NEW eb \in OwnEB, NEW cert \in BOOLEAN, ForgeRb(eb, cert) PROVE OwnInv'
    <2> DEFINE pool == From(txs, InlineCount(cert))
               manifest == ManifestOf(txs, pool)
    <2>1. ForgeBody(eb, pool, manifest) /\ eb \notin DOMAIN decided
        BY <1>10 DEF ForgeRb
    <2>2. pool \in Seq(Tx)
        BY RestOfForge
    <2> HIDE DEF pool
    <2>3. manifest \in Seq(Tx) /\ manifest = First(pool, Len(manifest))
        BY <2>2, ManifestPrefix
    <2> HIDE DEF manifest
    <2>4. CASE manifest = <<>>
        BY <1>1, <2>1, <2>4 DEF ForgeBody
    <2>5. CASE manifest # <<>>
        <3> DEFINE S == Range(manifest)
        <3>1. S \in SUBSET Tx
            BY <2>3, RangeOfPool
        <3>2. /\ PruneEbSlotWindow(Put(manifests, eb, S), pinned \cup S,
                                   MaxOf(maxEbSlot, EbSlot[eb]), protected)
              /\ decided' = Put(decided, eb, S)
            BY <2>1, <2>3, <2>5 DEF ForgeBody, ProduceEb
        <3> HIDE DEF S
        <3> QED BY <2>1, <3>1, <3>2, ForgeOwn
    <2> QED BY <2>4, <2>5
<1>11. ASSUME NEW eb \in OwnEB, NEW e \in DOMAIN manifests, ForgeExcluding(eb, manifests[e])
       PROVE OwnInv'
    <2> DEFINE candidates == Without(txs, manifests[e])
               manifest == ManifestOf(candidates, candidates)
    <2>1. ProduceSelectedEb(eb, manifest) /\ eb \notin DOMAIN decided
        BY <1>11 DEF ForgeExcluding
    <2>2. candidates \in Seq(Tx)
        BY WithoutProperties DEF PoolInv
    <2> HIDE DEF candidates
    <2>3. manifest \in Seq(Tx)
        BY <2>2, ManifestPrefix
    <2> HIDE DEF manifest
    <2> DEFINE S == Range(manifest)
    <2>4. S \in SUBSET Tx
        BY <2>3, RangeOfPool
    <2>5. eb \notin DOMAIN manifests
        BY <2>1 DEF OwnInv, EbInv
    <2>6. /\ PruneEbSlotWindow(Put(manifests, eb, S), pinned \cup S,
                               MaxOf(maxEbSlot, EbSlot[eb]), protected)
          /\ decided' = Put(decided, eb, S)
        BY <2>1, <2>5 DEF ProduceSelectedEb, OrInsert
    <2> HIDE DEF S
    <2> QED BY <2>1, <2>4, <2>6, ForgeOwn
<1>12. CASE UNCHANGED vars
    BY <1>1, <1>12 DEF vars
<1> QED
    BY <1>2, <1>3, <1>4, <1>5, <1>6, <1>7, <1>8, <1>9, <1>10, <1>11, <1>12 DEF Next

-----------------------------------------------------------------------------
(* The inductive invariant.                                                *)
IInv ==
    /\ slot \in 0..MaxSlot
    /\ PoolInv /\ FilterInv /\ PeerInv /\ SentInv /\ OwnInv

(* IInv holds initially,                                                   *)
LEMMA InitIInv == Init => IInv
<1> SUFFICES ASSUME Init PROVE IInv
    OBVIOUS
<1>1. /\ txs = <<>> /\ txs \in Seq(Tx) /\ Len(txs) = 0 /\ Range(txs) = {} /\ DOMAIN txs = {}
      /\ applied = <<>> /\ applied \in Seq(Tx) /\ Len(applied) = 0
    BY SMTT(30) DEF Init, Range
<1>2. MaxOf(Capacity, 1) \in Nat /\ AppliedBound \in Nat /\ MaxSlot \in Nat
    BY LimitAssumption DEF MaxOf
<1>3. Bytes(txs) = 0
    <2>1. PICK f \in [0..0 -> Nat] : PartialSums(f, 0, Sizes(txs)) /\ Bytes(txs) = f[0]
        BY <1>1, BytesDef
    <2> QED BY SMTT(30), <2>1 DEF PartialSums
<1>4. PoolInv
    BY SMTT(30), <1>1, <1>2, <1>3 DEF Init, PoolInv, PoolConsistent, IsInjective
<1>5. FilterInv
    BY SMTT(30), <1>1, <1>2 DEF Init, FilterInv, AppliedNotInPool
<1>6. SentInv
    BY DEF Init, SentInv, OwedExactly
<1>7. manifests \in Maps(EB) /\ decided \in Maps(OwnEB)
    <2>1. ASSUME NEW E PROVE Empty \in Maps(E)
        <3>1. Empty = [x \in DOMAIN Empty |-> Empty[x]] /\ DOMAIN Empty = {}
            BY DEF Empty
        <3> QED BY <3>1, MapsType
    <2> QED BY <2>1 DEF Init
<1>8. OwnInv
    BY <1>7 DEF Init, OwnInv, EbInv, OwnEbServable, Empty
<1> QED BY SMTT(30), <1>2, <1>4, <1>5, <1>6, <1>8, InitPeers DEF IInv, Init

(* the slot stays within its bound,                                        *)
LEMMA NextSlot == slot \in 0..MaxSlot /\ [Next]_vars => slot' \in 0..MaxSlot
<1> SUFFICES ASSUME slot \in 0..MaxSlot, [Next]_vars PROVE slot' \in 0..MaxSlot
    OBVIOUS
<1>1. CASE Tick
    BY SMTT(30), <1>1, LimitAssumption DEF Tick
<1>2. CASE UNCHANGED slot
    BY <1>2
<1>3. Tick \/ UNCHANGED slot
    BY DEF Next, vars, AdmitValidated, MergeEbBody, OnBlockApplied, ForgetPeer,
           PeekUnannouncedForPeer, MarkAnnouncedToPeer, RecordEbManifest, PinEbTransactions,
           ProtectChainTipEb, ForgeRb, ForgeExcluding
<1> QED BY <1>1, <1>2, <1>3

(* every step preserves IInv,                                              *)
LEMMA NextIInv == IInv /\ [Next]_vars => IInv'
BY NextSlot, NextPool, NextFilter, NextPeers, NextSent, NextOwn DEF IInv

(* and it implies the types.                                               *)
LEMMA IInvType == IInv => TypeOK
<1> SUFFICES ASSUME IInv PROVE TypeOK
    OBVIOUS
<1>1. txs \in Seq(Tx) /\ txIndex \subseteq Tx
    BY RangeOfPool DEF IInv, PoolInv, PoolConsistent
<1>2. totalBytes \in Nat
    BY BytesType DEF IInv, PoolInv, PoolConsistent
<1>3. unannounced \in [Peer -> SUBSET Tx] /\ advertised \in [Peer -> SUBSET Tx]
    <2>1. \A p \in Peer : unannounced[p] \subseteq Tx /\ advertised[p] \subseteq Tx
        BY <1>1 DEF IInv, PeerInv, PeersPartition
    <2> QED BY <2>1 DEF IInv, PeerInv, PeerMaps
<1>4. registered \subseteq Peer /\ sent \in [Peer -> SUBSET Tx]
    BY DEF IInv, SentInv
<1> QED BY <1>1, <1>2, <1>3, <1>4 DEF IInv, FilterInv, OwnInv, Maps, TypeOK

(* The invariant holds throughout.                                         *)
THEOREM MempoolInvariant == Spec => []IInv
BY InitIInv, NextIInv, PTL DEF Spec

(* The fields of `MempoolState` keep their types and the replay filter its *)
(* bound, for every bound.                                                 *)
THEOREM MempoolTypes == Spec => []TypeOK
BY MempoolInvariant, IInvType, PTL

(* For every pool, all sizes and limits, every set of peers and every      *)
(* sequence of calls: the queue, its index and its byte count agree, an    *)
(* applied transaction that the filter remembers is not in the pool, and   *)
(* each registered peer is owed exactly what it was not sent (`MempoolState`). *)
THEOREM PoolAlwaysSound == Spec => []PoolSound
<1>1. IInv => PoolSound
    BY DEF IInv, PoolInv, FilterInv, PeerInv, SentInv, PoolSound
<1> QED BY <1>1, MempoolInvariant, PTL

(* As long as the manifest of an own EB is kept, it is the one that        *)
(* `BodyPath` chose and every body of it is pinned (`produce_eb`,          *)
(* `produce_selected_eb`).                                                 *)
THEOREM OwnEbsServable == Spec => []OwnEbServable
<1>1. IInv => OwnEbServable
    BY DEF IInv, OwnInv
<1> QED BY <1>1, MempoolInvariant, PTL
=============================================================================
