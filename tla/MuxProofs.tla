------------------------------ MODULE MuxProofs ------------------------------
(***************************************************************************)
(* For every set of protocols, scripts, sizes and limits: one direction of *)
(* a multiplexed connection implements the FIFO channels of Channels, and  *)
(* the ingress counters are exact.  The bytes that a protocol sends are    *)
(* numbered; the inductive invariant says which numbers are in the codec's *)
(* buffer, in the ingress channel, on the bearer and not written yet.      *)
(***************************************************************************)
EXTENDS Mux, InductionLemmas

(* The leaves go to Zenon, and to SMT where they name it.                  *)
USE Zenon

-----------------------------------------------------------------------------
(* The numbers of the bytes of a key's messages.                           *)

Sizes(k) == [i \in 1..Len(Script(k)) |-> Size(Script(k)[i])]

(* Start(k)[n]: how many bytes the first n messages of k have.             *)
Start(k) == CHOOSE f \in [0..Len(Script(k)) -> Nat] : PartialSums(f, Len(Script(k)), Sizes(k))

(* The messages of a script are not empty.                                 *)
LEMMA ScriptFacts ==
    ASSUME Wellformed, NEW k \in Keys
    PROVE  /\ Len(Script(k)) \in Nat
           /\ \A n \in 1..Len(Script(k)) : Script(k)[n] \in Messages /\ Size(Script(k)[n]) \in Nat \ {0}
<1>1. Script(k) \in Seq(Messages) /\ \A m \in Messages : Size(m) \in Nat \ {0}
  BY DEF Wellformed
<1> QED BY <1>1, ElementOfSeq, LenProperties

(* Start sums up the sizes of the messages before.                         *)
LEMMA StartFacts ==
    ASSUME Wellformed, NEW k \in Keys
    PROVE  /\ Start(k) \in [0..Len(Script(k)) -> Nat]
           /\ Start(k)[0] = 0
           /\ \A n \in 1..Len(Script(k)) : Start(k)[n] = Start(k)[n - 1] + Size(Script(k)[n])
<1> DEFINE L == Len(Script(k))
           IsStart(f) == PartialSums(f, L, Sizes(k))
<1>1. L \in Nat /\ Sizes(k) \in [1..L -> Nat]
  BY ScriptFacts DEF Sizes
<1>2. \E f \in [0..L -> Nat] : IsStart(f)
  BY <1>1, SumsExist
<1>3. Start(k) \in [0..L -> Nat] /\ IsStart(Start(k))
  <2> HIDE DEF IsStart, L
  <2> QED BY <1>2 DEF Start, L, IsStart
<1>4. 0 \in 0..L
  BY SMTT(30), <1>1
<1>5. Start(k)[0] = 0
  BY <1>3, <1>4 DEF PartialSums
<1>6. ASSUME NEW n \in 1..L PROVE Start(k)[n] = Start(k)[n - 1] + Size(Script(k)[n])
  <2>1. n \in 0..L /\ n # 0 /\ Sizes(k)[n] = Size(Script(k)[n])
    BY SMTT(30), <1>1 DEF Sizes
  <2> QED BY <1>3, <2>1 DEF PartialSums
<1> QED BY <1>3, <1>5, <1>6

(* Messages are not empty: each one starts after the one before.           *)
LEMMA StartIncreases ==
    ASSUME Wellformed, NEW k \in Keys,
           NEW a \in 0..Len(Script(k)), NEW b \in 0..Len(Script(k)), a < b
    PROVE  Start(k)[a] < Start(k)[b]
<1> DEFINE L == Len(Script(k))
           P == {i \in 0..L : a < i => Start(k)[a] < Start(k)[i]}
<1>1. L \in Nat /\ \A n \in 1..L : Size(Script(k)[n]) \in Nat \ {0}
  BY ScriptFacts
<1>2. /\ Start(k) \in [0..L -> Nat]
      /\ \A n \in 1..L : Start(k)[n] = Start(k)[n - 1] + Size(Script(k)[n])
  BY StartFacts
<1>3. 0 \in P
  BY SMTT(30), <1>1
<1>4. ASSUME NEW i \in 1..L, i - 1 \in P PROVE i \in P
  <2>1. i \in 0..L /\ i - 1 \in 0..L
    BY SMTT(30), <1>1
  <2>2. Start(k)[a] \in Nat /\ Start(k)[i] \in Nat /\ Start(k)[i - 1] \in Nat
    BY <1>2, <2>1
  <2>3. Start(k)[i] = Start(k)[i - 1] + Size(Script(k)[i]) /\ Size(Script(k)[i]) \in Nat \ {0}
    BY <1>1, <1>2
  <2>4. Start(k)[i - 1] < Start(k)[i]
    BY SMTT(30), <2>2, <2>3
  <2>5. a < i => a = i - 1 \/ a < i - 1
    BY SMTT(30), <1>1
  <2> QED BY SMTT(30), <1>4, <2>1, <2>2, <2>4, <2>5
<1>5. 0..L \subseteq P
  <2> HIDE DEF P, L
  <2> QED BY <1>1, <1>3, <1>4, IntervalInduction
<1> QED BY <1>5

(* Later messages start later.                                             *)
LEMMA StartOrder ==
    ASSUME Wellformed, NEW k \in Keys,
           NEW a \in 0..Len(Script(k)), NEW b \in 0..Len(Script(k)), Start(k)[a] < Start(k)[b]
    PROVE  a < b
<1>1. Len(Script(k)) \in Nat /\ Start(k)[a] \in Nat /\ Start(k)[b] \in Nat
  BY ScriptFacts, StartFacts
<1>2. CASE b < a
  <2>1. Start(k)[b] < Start(k)[a]
    BY <1>2, StartIncreases
  <2> QED BY SMTT(30), <1>1, <2>1
<1>3. CASE a = b
  BY SMTT(30), <1>1, <1>3
<1> QED BY SMTT(30), <1>1, <1>2, <1>3

(* x is byte number p of what k sends.                                     *)
Place(k, x, p) ==
    \E n \in 1..Len(Script(k)) : /\ Start(k)[n - 1] < p /\ p <= Start(k)[n]
                                 /\ x = <<Script(k)[n], p - Start(k)[n - 1]>>

(* Which byte of which message has a number.                               *)
LEMMA PlaceWithin ==
    ASSUME Wellformed, NEW k \in Keys, NEW n \in 1..Len(Script(k)), NEW x, NEW p \in Nat,
           Place(k, x, p), Start(k)[n - 1] < p, p <= Start(k)[n]
    PROVE  x = <<Script(k)[n], p - Start(k)[n - 1]>>
<1> DEFINE L == Len(Script(k))
<1>1. L \in Nat /\ Start(k) \in [0..L -> Nat]
  BY ScriptFacts, StartFacts
<1>2. PICK m \in 1..L : /\ Start(k)[m - 1] < p /\ p <= Start(k)[m]
                        /\ x = <<Script(k)[m], p - Start(k)[m - 1]>>
  BY DEF Place
<1>3. /\ m \in 0..L /\ m - 1 \in 0..L /\ n \in 0..L /\ n - 1 \in 0..L
      /\ Start(k)[m] \in Nat /\ Start(k)[m - 1] \in Nat /\ Start(k)[n] \in Nat /\ Start(k)[n - 1] \in Nat
  BY SMTT(30), <1>1
<1>4. Start(k)[m - 1] < Start(k)[n] /\ Start(k)[n - 1] < Start(k)[m]
  <2>1. \A x1, y1 \in Nat : x1 < p /\ p <= y1 => x1 < y1
    BY SMTT(30)
  <2> QED BY <1>2, <1>3, <2>1
<1>5. m - 1 < n /\ n - 1 < m
  <2> HIDE DEF L
  <2>1. \A a, b \in 0..L : Start(k)[a] < Start(k)[b] => a < b
    BY StartOrder DEF L
  <2> QED BY <1>3, <1>4, <2>1
<1>6. m = n
  BY SMTT(30), <1>1, <1>5
<1> QED BY <1>2, <1>6

-----------------------------------------------------------------------------
(* Runs of bytes.                                                          *)

Octets == Messages \X Nat

(* s is the bytes p + 1 to q of what k sends.                              *)
Slice(k, s, p, q) == /\ s \in Seq(Octets) /\ q = p + Len(s)
                     /\ \A i \in 1..Len(s) : Place(k, s[i], p + i)

(* A slice of consecutive bytes may be empty,                              *)
LEMMA SliceEmpty ==
    ASSUME NEW k, NEW p \in Nat, NEW q
    PROVE  Slice(k, <<>>, p, q) <=> q = p
BY SMTT(30) DEF Slice

(* two of them that meet make one,                                         *)
LEMMA SliceConcat ==
    ASSUME NEW k, NEW s, NEW t, NEW p \in Nat, NEW q, NEW r, Slice(k, s, p, q), Slice(k, t, q, r)
    PROVE  Slice(k, s \o t, p, r)
<1>1. s \in Seq(Octets) /\ t \in Seq(Octets) /\ Len(s) \in Nat /\ Len(t) \in Nat /\ q = p + Len(s) /\ r = q + Len(t)
  BY LenProperties DEF Slice
<1>2. s \o t \in Seq(Octets) /\ Len(s \o t) = Len(s) + Len(t)
  BY <1>1, ConcatProperties
<1>3. ASSUME NEW i \in 1..Len(s \o t) PROVE Place(k, (s \o t)[i], p + i)
  <2>1. CASE i <= Len(s)
    <3>1. i \in 1..Len(s) /\ (s \o t)[i] = s[i]
      BY SMTT(30), <1>1, <1>2, <2>1, ConcatProperties
    <3> QED BY <3>1 DEF Slice
  <2>2. CASE i > Len(s)
    <3>1. i - Len(s) \in 1..Len(t) /\ (s \o t)[i] = t[i - Len(s)] /\ p + i = q + (i - Len(s))
      BY SMTT(30), <1>1, <1>2, <2>2, ConcatProperties
    <3> DEFINE j == i - Len(s)
    <3> HIDE DEF j
    <3>2. Place(k, t[j], q + j)
      BY <3>1 DEF Slice, j
    <3> QED BY <3>1, <3>2 DEF j
  <2> QED BY SMTT(30), <1>1, <1>2, <2>1, <2>2
<1> QED BY SMTT(30), <1>1, <1>2, <1>3 DEF Slice

(* and one can be cut anywhere.                                            *)
LEMMA SliceCut ==
    ASSUME NEW k, NEW s, NEW p \in Nat, NEW q, Slice(k, s, p, q), NEW c \in 0..Len(s)
    PROVE  /\ Slice(k, SubSeq(s, 1, c), p, p + c)
           /\ Slice(k, SubSeq(s, c + 1, Len(s)), p + c, q)
<1> DEFINE a == SubSeq(s, 1, c)
           b == SubSeq(s, c + 1, Len(s))
<1>1. s \in Seq(Octets) /\ Len(s) \in Nat /\ q = p + Len(s) /\ \A i \in 1..Len(s) : Place(k, s[i], p + i)
  BY LenProperties DEF Slice
<1>2. a \in Seq(Octets) /\ Len(a) = c /\ \A i \in 1..c : a[i] = s[i]
  BY SMTT(30), <1>1
<1>3. b \in Seq(Octets) /\ Len(b) = Len(s) - c /\ \A i \in 1..(Len(s) - c) : b[i] = s[c + i]
  BY SMTT(30), <1>1
<1>4. Slice(k, a, p, p + c)
  <2> HIDE DEF a
  <2> QED BY SMTT(30), <1>1, <1>2 DEF Slice
<1>5. Slice(k, b, p + c, q)
  <2> HIDE DEF b
  <2>1. ASSUME NEW i \in 1..Len(b) PROVE Place(k, b[i], (p + c) + i)
    <3>1. c + i \in 1..Len(s) /\ b[i] = s[c + i] /\ (p + c) + i = p + (c + i)
      BY SMTT(30), <1>1, <1>3
    <3> QED BY <1>1, <3>1
  <2> QED BY SMTT(30), <1>1, <1>3, <2>1 DEF Slice
<1> QED BY <1>4, <1>5

(* The n-th message is the bytes between its start and the next one.       *)
LEMMA SliceBytes ==
    ASSUME Wellformed, NEW k \in Keys, NEW n \in 1..Len(Script(k))
    PROVE  Slice(k, Bytes(Script(k)[n]), Start(k)[n - 1], Start(k)[n])
<1> DEFINE m == Script(k)[n]
           p == Start(k)[n - 1]
<1>1. Len(Script(k)) \in Nat /\ m \in Messages /\ Size(m) \in Nat \ {0}
  BY ScriptFacts
<1>2. p \in Nat /\ Start(k)[n] = p + Size(m)
  <2>1. n - 1 \in 0..Len(Script(k))
    BY SMTT(30), <1>1
  <2> QED BY <2>1, StartFacts
<1>3. /\ Bytes(m) \in Seq(Octets) /\ Len(Bytes(m)) = Size(m)
      /\ \A i \in 1..Size(m) : Bytes(m)[i] = <<m, i>>
  <2>1. Bytes(m) \in [1..Size(m) -> Octets] /\ \A i \in 1..Size(m) : Bytes(m)[i] = <<m, i>>
    BY SMTT(30), <1>1 DEF Bytes, Octets
  <2> HIDE DEF m
  <2>2. Bytes(m) \in Seq(Octets) /\ DOMAIN Bytes(m) = 1..Size(m)
    BY SMTT(30), <1>1, <2>1 DEF Seq
  <2>3. Len(Bytes(m)) = Size(m)
    BY SMTT(30), <1>1, <2>2, LenProperties
  <2> QED BY <2>1, <2>2, <2>3
<1>4. ASSUME NEW i \in 1..Size(m) PROVE Place(k, Bytes(m)[i], p + i)
  <2>1. p < p + i /\ p + i <= Start(k)[n] /\ Bytes(m)[i] = <<m, (p + i) - p>>
    BY SMTT(30), <1>1, <1>2, <1>3
  <2> QED BY <2>1 DEF Place
<1> HIDE DEF m, p
<1> QED BY <1>2, <1>3, <1>4 DEF Slice, m, p

(* A run from the start of a message that is as long as the message is it. *)
LEMMA SliceMessage ==
    ASSUME Wellformed, NEW k \in Keys, NEW n \in 1..Len(Script(k)), NEW s, NEW q,
           Slice(k, s, Start(k)[n - 1], q), NEW i \in 1..Len(s), i <= Size(Script(k)[n])
    PROVE  s[i] = <<Script(k)[n], i>>
<1> DEFINE m == Script(k)[n]
           p == Start(k)[n - 1]
<1>1. Len(Script(k)) \in Nat /\ m \in Messages /\ Size(m) \in Nat \ {0} /\ Len(s) \in Nat
  BY ScriptFacts, LenProperties DEF Slice
<1>2. p \in Nat /\ Start(k)[n] = p + Size(m)
  <2>1. n - 1 \in 0..Len(Script(k))
    BY SMTT(30), <1>1
  <2> QED BY <2>1, StartFacts
<1>3. Place(k, s[i], p + i) /\ p + i \in Nat /\ p < p + i /\ p + i <= Start(k)[n] /\ (p + i) - p = i
  BY SMTT(30), <1>1, <1>2 DEF Slice
<1>4. s[i] = <<m, (p + i) - p>>
  <2> DEFINE r == p + i
  <2> HIDE DEF r
  <2> QED BY <1>3, PlaceWithin DEF r
<1> QED BY <1>3, <1>4

-----------------------------------------------------------------------------
(* Segments that carry consecutive runs of bytes.                          *)

SegmentsOf == [key : Keys, payload : Seq(Octets)]

(* f[i] is the last byte of k in the first i segments of s.                *)
Marks(k, s, f, p, q) ==
    /\ f \in [0..Len(s) -> Nat] /\ f[0] = p /\ f[Len(s)] = q
    /\ \A i \in 0..Len(s) : f[i] <= q
    /\ \A i \in 1..Len(s) : IF s[i].key = k THEN Slice(k, s[i].payload, f[i - 1], f[i])
                                             ELSE f[i] = f[i - 1]

(* The segments of k in s carry the bytes p + 1 to q.                      *)
Chain(k, s, p, q) == s \in Seq(SegmentsOf) /\ \E f : Marks(k, s, f, p, q)

(* The same for the payloads of segments: an empty chain,                  *)
LEMMA ChainEmpty ==
    ASSUME NEW k, NEW p \in Nat, NEW q
    PROVE  Chain(k, <<>>, p, q) <=> q = p
<1>1. Chain(k, <<>>, p, q) => q = p
  BY DEF Chain, Marks
<1>2. ASSUME q = p PROVE Chain(k, <<>>, p, q)
  <2>1. Marks(k, <<>>, [i \in 0..0 |-> p], p, q)
    BY SMTT(30), <1>2 DEF Marks
  <2> QED BY SMTT(30), <2>1 DEF Chain
<1> QED BY <1>1, <1>2

(* the order of its ends,                                                  *)
LEMMA ChainBounds ==
    ASSUME NEW k, NEW s, NEW p, NEW q, Chain(k, s, p, q)
    PROVE  p \in Nat /\ q \in Nat /\ p <= q
<1>1. PICK f : Marks(k, s, f, p, q)
  BY DEF Chain
<1>2. Len(s) \in Nat
  BY LenProperties DEF Chain
<1> QED BY SMTT(30), <1>1, <1>2 DEF Marks

(* one more segment, of this key or of another,                            *)
LEMMA ChainAppend ==
    ASSUME NEW k, NEW s, NEW p, NEW q, Chain(k, s, p, q), NEW x \in SegmentsOf, NEW r \in Nat, q <= r,
           IF x.key = k THEN Slice(k, x.payload, q, r) ELSE r = q
    PROVE  Chain(k, Append(s, x), p, r)
<1> DEFINE n == Len(s)
           a == Append(s, x)
<1>1. PICK f : Marks(k, s, f, p, q)
  BY DEF Chain
<1>2. /\ a \in Seq(SegmentsOf) /\ n \in Nat /\ Len(a) = n + 1 /\ a[n + 1] = x
      /\ \A i \in 1..n : a[i] = s[i]
  BY SMTT(30), AppendProperties, LenProperties DEF Chain
<1> DEFINE g == [i \in 0..(n + 1) |-> IF i = n + 1 THEN r ELSE f[i]]
<1> HIDE DEF a
<1>3. /\ g \in [0..(n + 1) -> Nat] /\ g[n + 1] = r /\ \A i \in 0..n : g[i] = f[i]
  BY SMTT(30), <1>1, <1>2 DEF Marks
<1> HIDE DEF g
<1>4. q \in Nat /\ f[n] = q /\ f[0] = p /\ \A i \in 0..n : f[i] \in Nat /\ f[i] <= q
  BY SMTT(30), <1>1, <1>2 DEF Marks
<1>5. g[0] = p
  BY SMTT(30), <1>2, <1>3, <1>4
<1>6. ASSUME NEW i \in 0..(n + 1) PROVE g[i] <= r
  <2>1. CASE i = n + 1
    BY SMTT(30), <1>3, <2>1
  <2>2. CASE i # n + 1
    <3>1. i \in 0..n
      BY SMTT(30), <1>2, <2>2
    <3>2. g[i] = f[i] /\ f[i] \in Nat /\ f[i] <= q
      BY <1>3, <1>4, <3>1
    <3> QED BY SMTT(30), <1>4, <3>2
  <2> QED BY <2>1, <2>2
<1>7. ASSUME NEW i \in 1..(n + 1)
      PROVE  IF a[i].key = k THEN Slice(k, a[i].payload, g[i - 1], g[i]) ELSE g[i] = g[i - 1]
  <2>1. CASE i = n + 1
    <3>1. (n + 1) - 1 = n /\ n \in 0..n
      BY SMTT(30), <1>2
    <3>2. g[i] = r /\ g[i - 1] = q /\ a[i] = x
      BY <1>2, <1>3, <1>4, <2>1, <3>1
    <3> QED BY <3>2
  <2>2. CASE i # n + 1
    <3>1. i \in 1..n /\ i \in 0..n /\ i - 1 \in 0..n
      BY SMTT(30), <1>2, <2>2
    <3>2. g[i] = f[i] /\ g[i - 1] = f[i - 1] /\ a[i] = s[i]
      BY <1>2, <1>3, <3>1
    <3>3. IF s[i].key = k THEN Slice(k, s[i].payload, f[i - 1], f[i]) ELSE f[i] = f[i - 1]
      BY <1>1, <3>1 DEF Marks
    <3> QED BY <3>2, <3>3
  <2> QED BY <2>1, <2>2
<1>8. Marks(k, a, g, p, r)
  BY <1>2, <1>3, <1>5, <1>6, <1>7 DEF Marks
<1> QED BY <1>2, <1>8 DEF Chain, a

(* one segment less at the front,                                          *)
LEMMA ChainTail ==
    ASSUME NEW k, NEW s, NEW p, NEW q, Chain(k, s, p, q), s # <<>>
    PROVE  \E r \in Nat : /\ Chain(k, Tail(s), r, q)
                          /\ IF Head(s).key = k THEN Slice(k, Head(s).payload, p, r) ELSE r = p
<1> DEFINE n == Len(s) - 1
           t == Tail(s)
<1>1. PICK f : Marks(k, s, f, p, q)
  BY DEF Chain
<1>2. /\ t \in Seq(SegmentsOf) /\ Len(t) = n /\ n \in Nat /\ Len(s) = n + 1
      /\ \A i \in 1..n : t[i] = s[i + 1]
      /\ Head(s) = s[1]
  BY SMTT(30), HeadTailProperties, EmptySeq, LenProperties DEF Chain
<1> HIDE DEF n, t
<1>3. /\ f \in [0..(n + 1) -> Nat] /\ f[0] = p /\ f[n + 1] = q
      /\ \A i \in 0..(n + 1) : f[i] <= q
      /\ \A i \in 1..(n + 1) : IF s[i].key = k THEN Slice(k, s[i].payload, f[i - 1], f[i])
                                                ELSE f[i] = f[i - 1]
  BY <1>1, <1>2 DEF Marks
<1> DEFINE g == [i \in 0..n |-> f[i + 1]]
<1>4. \A i \in 0..n : i + 1 \in 0..(n + 1)
  BY SMTT(30), <1>2
<1>5. g \in [0..n -> Nat] /\ \A i \in 0..n : g[i] = f[i + 1]
  BY <1>3, <1>4
<1> HIDE DEF g
<1>6. 0 \in 0..n /\ n \in 0..n /\ 1 \in 1..(n + 1) /\ 1 \in 0..(n + 1) /\ 0 + 1 = 1 /\ 1 - 1 = 0
  BY SMTT(30), <1>2
<1>7. g[0] = f[1] /\ g[n] = q /\ f[1] \in Nat
  BY <1>3, <1>5, <1>6
<1>8. \A i \in 0..n : g[i] <= q
  BY <1>3, <1>4, <1>5
<1>9. ASSUME NEW i \in 1..n
      PROVE  IF t[i].key = k THEN Slice(k, t[i].payload, g[i - 1], g[i]) ELSE g[i] = g[i - 1]
  <2>1. i \in 0..n /\ i - 1 \in 0..n /\ i + 1 \in 1..(n + 1) /\ (i - 1) + 1 = i /\ (i + 1) - 1 = i
    BY SMTT(30), <1>2
  <2>2. g[i] = f[i + 1] /\ g[i - 1] = f[i] /\ t[i] = s[i + 1]
    BY <1>2, <1>5, <2>1
  <2>3. IF s[i + 1].key = k THEN Slice(k, s[i + 1].payload, f[i], f[i + 1]) ELSE f[i + 1] = f[i]
    BY <1>3, <2>1
  <2> QED BY <2>2, <2>3
<1>10. Marks(k, t, g, f[1], q)
  BY <1>2, <1>5, <1>7, <1>8, <1>9 DEF Marks
<1>11. Chain(k, t, f[1], q)
  BY <1>2, <1>10 DEF Chain
<1>12. IF s[1].key = k THEN Slice(k, s[1].payload, p, f[1]) ELSE f[1] = p
  BY <1>3, <1>6
<1> QED BY <1>2, <1>7, <1>11, <1>12 DEF t

(* and the segments up to one of them.                                     *)
LEMMA ChainPrefix ==
    ASSUME NEW k, NEW s, NEW p, NEW q, Chain(k, s, p, q), NEW n \in 0..Len(s)
    PROVE  \E r \in Nat : r <= q /\ Chain(k, SubSeq(s, 1, n), p, r)
<1> DEFINE L == Len(s)
           t == SubSeq(s, 1, n)
<1>1. PICK f : Marks(k, s, f, p, q)
  BY DEF Chain
<1>2. L \in Nat /\ s \in Seq(SegmentsOf)
  BY LenProperties DEF Chain
<1>3. t \in Seq(SegmentsOf) /\ Len(t) = n /\ \A i \in 1..n : t[i] = s[i]
  BY SMTT(30), <1>2
<1> HIDE DEF t
<1>4. \A i \in 0..L : f[i] \in Nat
  BY <1>1 DEF Marks
<1>5. ASSUME NEW i \in 1..L PROVE f[i - 1] <= f[i]
  <2>1. i \in 0..L /\ i - 1 \in 0..L
    BY SMTT(30), <1>2
  <2>2. IF s[i].key = k THEN Slice(k, s[i].payload, f[i - 1], f[i]) ELSE f[i] = f[i - 1]
    BY <1>1 DEF Marks
  <2>3. CASE s[i].key = k
    <3>1. f[i] = f[i - 1] + Len(s[i].payload) /\ Len(s[i].payload) \in Nat
      BY <2>2, <2>3, LenProperties DEF Slice
    <3> QED BY SMTT(30), <1>4, <2>1, <3>1
  <2> QED BY SMTT(30), <1>4, <2>1, <2>2, <2>3
<1>6. \A i \in 0..n : f[i] <= f[n]
  <2> DEFINE P == {i \in 0..n : f[n - i] <= f[n]}
  <2>1. n \in Nat /\ n \in 0..L /\ n - 0 = n
    BY SMTT(30), <1>2
  <2>2. 0 \in P
    BY SMTT(30), <1>4, <2>1
  <2>3. ASSUME NEW i \in 1..n, i - 1 \in P PROVE i \in P
    <3>1. n - (i - 1) \in 1..L /\ n - i = (n - (i - 1)) - 1 /\ n - i \in 0..L /\ n - (i - 1) \in 0..L
      BY SMTT(30), <1>2, <2>1
    <3>2. f[n - i] <= f[n - (i - 1)] /\ f[n - (i - 1)] <= f[n]
      BY <1>5, <2>3, <3>1
    <3>3. f[n - i] \in Nat /\ f[n - (i - 1)] \in Nat /\ f[n] \in Nat
      BY <1>4, <2>1, <3>1
    <3>4. f[n - i] <= f[n]
      BY SMTT(30), <3>2, <3>3
    <3> QED BY SMTT(30), <3>4
  <2>4. 0..n \subseteq P
    <3> HIDE DEF P
    <3> QED BY <2>1, <2>2, <2>3, IntervalInduction
  <2>5. ASSUME NEW i \in 0..n PROVE f[i] <= f[n]
    <3>1. n - i \in 0..n /\ n - (n - i) = i
      BY SMTT(30), <2>1
    <3> QED BY <2>4, <3>1
  <2> QED BY <2>5
<1> DEFINE g == [i \in 0..n |-> f[i]]
<1>7. \A i \in 0..n : i \in 0..L
  BY SMTT(30), <1>2
<1>8. g \in [0..n -> Nat] /\ \A i \in 0..n : g[i] = f[i]
  BY <1>4, <1>7
<1> HIDE DEF g
<1>9. 0 \in 0..n /\ n \in 0..n /\ f[0] = p /\ f[n] \in Nat /\ f[n] <= q
  BY SMTT(30), <1>1, <1>2, <1>4, <1>7 DEF Marks
<1>10. ASSUME NEW i \in 1..n
       PROVE  IF t[i].key = k THEN Slice(k, t[i].payload, g[i - 1], g[i]) ELSE g[i] = g[i - 1]
  <2>1. i \in 0..n /\ i - 1 \in 0..n /\ i \in 1..L
    BY SMTT(30), <1>2
  <2>2. IF s[i].key = k THEN Slice(k, s[i].payload, f[i - 1], f[i]) ELSE f[i] = f[i - 1]
    BY <1>1, <2>1 DEF Marks
  <2>3. t[i] = s[i] /\ g[i] = f[i] /\ g[i - 1] = f[i - 1]
    BY <1>3, <1>8, <2>1
  <2> QED BY <2>2, <2>3
<1>11. Marks(k, t, g, p, f[n])
  BY <1>3, <1>6, <1>8, <1>9, <1>10 DEF Marks
<1> QED BY <1>3, <1>9, <1>11 DEF Chain, t

-----------------------------------------------------------------------------
(* What is under way for a key.  With g messages received, w messages      *)
(* handed to the writer, `on` the state of the demuxer while it routes k   *)
(* and `up` that of the muxer: the buffer, the ingress channel, the bearer *)
(* and the bytes not written yet follow each other in the numbering.       *)

Tagged(k, c) == [i \in 1..Len(c) |-> [key |-> k, payload |-> c[i]]]

Flow(k, g, w, buf, c, on, b, up, rest) ==
    \E p1, p2, p3 \in Nat :
        /\ Slice(k, buf, Start(k)[g], p1)
        /\ c \in Seq(Seq(Octets)) /\ Chain(k, Tagged(k, c), p1, p2) /\ p2 <= Start(k)[w]
        /\ on = "running" => Chain(k, b, p2, p3) /\ p3 <= Start(k)[w] /\ (up = "running" => Slice(k, rest, p3, Start(k)[w]))

(* A channel of chunks seen as segments: the empty one,                    *)
LEMMA TaggedEmpty == ASSUME NEW k PROVE Tagged(k, <<>>) = <<>>
BY SMTT(30) DEF Tagged

(* one more chunk,                                                         *)
LEMMA TaggedAppend ==
    ASSUME NEW k, NEW c \in Seq(Seq(Octets)), NEW x \in Seq(Octets)
    PROVE  Tagged(k, Append(c, x)) = Append(Tagged(k, c), [key |-> k, payload |-> x])
BY SMTT(30) DEF Tagged

(* and one chunk less.                                                     *)
LEMMA TaggedTail ==
    ASSUME NEW k, NEW c \in Seq(Seq(Octets)), c # <<>>
    PROVE  /\ Tagged(k, Tail(c)) = Tail(Tagged(k, c)) /\ Tagged(k, c) # <<>>
           /\ Head(Tagged(k, c)) = [key |-> k, payload |-> Head(c)]
<1> DEFINE n == Len(c)
           t == Tagged(k, c)
<1>1. n \in Nat \ {0} /\ Len(Tail(c)) = n - 1 /\ Head(c) = c[1] /\ \A i \in 1..(n - 1) : Tail(c)[i] = c[i + 1]
  BY SMTT(30)
<1>2. t = [i \in 1..n |-> [key |-> k, payload |-> c[i]]]
  BY DEF Tagged
<1> HIDE DEF n, t
<1>3. t \in Seq({t[i] : i \in 1..n}) /\ Len(t) = n
  BY SMTT(30), <1>1, <1>2
<1>4. t # <<>> /\ Head(t) = t[1] /\ Tail(t) = [i \in 1..(n - 1) |-> t[i + 1]]
  <2> DEFINE T == {t[i] : i \in 1..n}
  <2> HIDE DEF T
  <2>1. t \in Seq(T) /\ Len(t) = n /\ t # <<>>
    BY <1>1, <1>3 DEF T
  <2>2. Tail(t) \in Seq(T) /\ Len(Tail(t)) = n - 1 /\ \A i \in 1..(n - 1) : Tail(t)[i] = t[i + 1]
    BY <2>1, HeadTailProperties
  <2>3. Tail(t) = [i \in 1..(n - 1) |-> Tail(t)[i]]
    BY <2>2, LenProperties
  <2>4. Head(t) = t[1]
    BY SMTT(30), <2>1
  <2> QED BY <2>1, <2>2, <2>3, <2>4
<1>5. \A i \in 1..(n - 1) : i + 1 \in 1..n
  BY SMTT(30), <1>1
<1>6. Tail(t) = [i \in 1..(n - 1) |-> [key |-> k, payload |-> c[i + 1]]]
  BY <1>2, <1>4, <1>5
<1>7. Tagged(k, Tail(c)) = [i \in 1..(n - 1) |-> [key |-> k, payload |-> Tail(c)[i]]]
  BY <1>1 DEF Tagged
<1>8. Tagged(k, Tail(c)) = Tail(t)
  BY <1>1, <1>6, <1>7
<1>9. 1 \in 1..n
  BY SMTT(30), <1>1
<1>10. Head(t) = [key |-> k, payload |-> Head(c)]
  BY <1>1, <1>2, <1>4, <1>9
<1> QED BY <1>4, <1>8, <1>10 DEF t

(* Initially nothing is.                                                   *)
LEMMA FlowInit ==
    ASSUME Wellformed, NEW k \in Keys, NEW on, NEW up
    PROVE  Flow(k, 0, 0, <<>>, <<>>, on, <<>>, up, <<>>)
<1>1. Start(k)[0] = 0
  BY StartFacts
<1>2. Slice(k, <<>>, 0, 0) /\ Chain(k, <<>>, 0, 0)
  BY SliceEmpty, ChainEmpty
<1>3. <<>> \in Seq(Seq(Octets)) /\ 0 \in Nat /\ 0 <= 0
  BY SMTT(30)
<1> QED BY <1>1, <1>2, <1>3, TaggedEmpty DEF Flow

(* The muxer takes the next message of k.                                  *)
LEMMA FlowTake ==
    ASSUME Wellformed, NEW k \in Keys, NEW g, NEW w \in 1..Len(Script(k)), NEW buf, NEW c, NEW on, NEW b,
           NEW up, Flow(k, g, w - 1, buf, c, on, b, up, <<>>), up = "running"
    PROVE  Flow(k, g, w, buf, c, on, b, up, Bytes(Script(k)[w]))
<1>1. PICK p1, p2, p3 \in Nat :
        /\ Slice(k, buf, Start(k)[g], p1)
        /\ c \in Seq(Seq(Octets)) /\ Chain(k, Tagged(k, c), p1, p2) /\ p2 <= Start(k)[w - 1]
        /\ on = "running" => Chain(k, b, p2, p3) /\ p3 <= Start(k)[w - 1] /\ (up = "running" => Slice(k, <<>>, p3, Start(k)[w - 1]))
  BY DEF Flow
<1>2. Slice(k, Bytes(Script(k)[w]), Start(k)[w - 1], Start(k)[w])
  BY SliceBytes
<1>3. w \in 0..Len(Script(k)) /\ w - 1 \in 0..Len(Script(k)) /\ w - 1 < w
  BY SMTT(30), ScriptFacts
<1>4. Start(k)[w - 1] \in Nat /\ Start(k)[w] \in Nat /\ Start(k)[w - 1] < Start(k)[w]
  BY <1>3, StartFacts, StartIncreases
<1>5. p2 <= Start(k)[w]
  BY SMTT(30), <1>1, <1>4
<1>6. on = "running" => Start(k)[w - 1] = p3 /\ p3 <= Start(k)[w]
  BY SMTT(30), <1>1, <1>4, SliceEmpty
<1> QED BY <1>1, <1>2, <1>5, <1>6 DEF Flow

(* A segment is written: of k ...                                          *)
LEMMA FlowWrite ==
    ASSUME Wellformed, NEW k \in Keys, NEW g, NEW w \in 0..Len(Script(k)), NEW buf, NEW c, NEW on, NEW b,
           NEW up, NEW rest \in Seq(Octets), NEW cut \in 0..Len(rest),
           Flow(k, g, w, buf, c, on, b, up, rest), up = "running"
    PROVE  Flow(k, g, w, buf, c, on,
                Append(b, [key |-> k, payload |-> SubSeq(rest, 1, cut)]), up,
                SubSeq(rest, cut + 1, Len(rest)))
<1> DEFINE x == [key |-> k, payload |-> SubSeq(rest, 1, cut)]
<1>1. PICK p1, p2, p3 \in Nat :
        /\ Slice(k, buf, Start(k)[g], p1)
        /\ c \in Seq(Seq(Octets)) /\ Chain(k, Tagged(k, c), p1, p2) /\ p2 <= Start(k)[w]
        /\ on = "running" => Chain(k, b, p2, p3) /\ p3 <= Start(k)[w] /\ (up = "running" => Slice(k, rest, p3, Start(k)[w]))
  BY DEF Flow
<1>2. CASE on # "running"
  BY <1>1, <1>2 DEF Flow
<1>3. CASE on = "running"
  <2> DEFINE r == p3 + cut
  <2>1. Chain(k, b, p2, p3) /\ Slice(k, rest, p3, Start(k)[w])
    BY <1>1, <1>3
  <2>2. Slice(k, SubSeq(rest, 1, cut), p3, r) /\ Slice(k, SubSeq(rest, cut + 1, Len(rest)), r, Start(k)[w])
    BY <2>1, SliceCut
  <2>3. Len(rest) \in Nat /\ Start(k)[w] = p3 + Len(rest)
    BY <2>1, LenProperties DEF Slice
  <2>4. r \in Nat /\ p3 <= r /\ r <= Start(k)[w]
    BY SMTT(30), <2>3
  <2>5. x \in SegmentsOf /\ x.key = k /\ x.payload = SubSeq(rest, 1, cut)
    BY <2>2 DEF SegmentsOf, Slice
  <2> HIDE DEF r, x
  <2>6. Chain(k, Append(b, x), p2, r)
    BY <2>1, <2>2, <2>4, <2>5, ChainAppend
  <2> QED BY <1>1, <2>2, <2>4, <2>6 DEF Flow, x
<1> QED BY <1>2, <1>3

(* ... or of another key.                                                  *)
LEMMA FlowWriteOther ==
    ASSUME NEW k \in Keys, NEW g, NEW w, NEW buf, NEW c, NEW on, NEW b, NEW up, NEW rest,
           NEW x \in SegmentsOf, x.key # k, Flow(k, g, w, buf, c, on, b, up, rest)
    PROVE  Flow(k, g, w, buf, c, on, Append(b, x), up, rest)
<1>1. PICK p1, p2, p3 \in Nat :
        /\ Slice(k, buf, Start(k)[g], p1)
        /\ c \in Seq(Seq(Octets)) /\ Chain(k, Tagged(k, c), p1, p2) /\ p2 <= Start(k)[w]
        /\ on = "running" => Chain(k, b, p2, p3) /\ p3 <= Start(k)[w] /\ (up = "running" => Slice(k, rest, p3, Start(k)[w]))
  BY DEF Flow
<1>2. p3 <= p3
  BY SMTT(30)
<1>3. on = "running" => Chain(k, Append(b, x), p2, p3)
  BY <1>1, <1>2, ChainAppend
<1> QED BY <1>1, <1>3 DEF Flow

(* The muxer stops, and a suffix of what the transport holds may be lost.  *)
LEMMA FlowStop ==
    ASSUME Wellformed, NEW k \in Keys, NEW g, NEW w \in 0..Len(Script(k)), NEW buf, NEW c, NEW on, NEW b,
           NEW up, NEW rest, NEW n \in 0..Len(b), Flow(k, g, w, buf, c, on, b, up, rest),
           NEW end, end # "running"
    PROVE  Flow(k, g, w, buf, c, on, SubSeq(b, 1, n), end, rest)
<1>1. PICK p1, p2, p3 \in Nat :
        /\ Slice(k, buf, Start(k)[g], p1)
        /\ c \in Seq(Seq(Octets)) /\ Chain(k, Tagged(k, c), p1, p2) /\ p2 <= Start(k)[w]
        /\ on = "running" => Chain(k, b, p2, p3) /\ p3 <= Start(k)[w] /\ (up = "running" => Slice(k, rest, p3, Start(k)[w]))
  BY DEF Flow
<1>2. CASE on # "running"
  BY <1>1, <1>2 DEF Flow
<1>3. CASE on = "running"
  <2>1. PICK r \in Nat : r <= p3 /\ Chain(k, SubSeq(b, 1, n), p2, r)
    BY <1>1, <1>3, ChainPrefix
  <2>2. Start(k)[w] \in Nat
    BY StartFacts
  <2>3. r <= Start(k)[w]
    BY SMTT(30), <1>1, <1>3, <2>1, <2>2
  <2> QED BY <1>1, <2>1, <2>3 DEF Flow
<1> QED BY <1>2, <1>3

(* The demuxer takes a segment: it delivers one of k ...                   *)
LEMMA FlowRoute ==
    ASSUME Wellformed, NEW k \in Keys, NEW g, NEW w \in 0..Len(Script(k)), NEW buf, NEW c, NEW on, NEW b,
           NEW up, NEW rest, Flow(k, g, w, buf, c, on, b, up, rest), on = "running", b # <<>>, Head(b).key = k
    PROVE  Flow(k, g, w, buf, Append(c, Head(b).payload), on, Tail(b), up, rest)
<1> DEFINE x == [key |-> k, payload |-> Head(b).payload]
<1>1. PICK p1, p2, p3 \in Nat :
        /\ Slice(k, buf, Start(k)[g], p1)
        /\ c \in Seq(Seq(Octets)) /\ Chain(k, Tagged(k, c), p1, p2) /\ p2 <= Start(k)[w]
        /\ Chain(k, b, p2, p3) /\ p3 <= Start(k)[w] /\ (up = "running" => Slice(k, rest, p3, Start(k)[w]))
  BY DEF Flow
<1>2. PICK r \in Nat : Chain(k, Tail(b), r, p3) /\ Slice(k, Head(b).payload, p2, r)
  BY <1>1, ChainTail
<1>3. Head(b).payload \in Seq(Octets) /\ r = p2 + Len(Head(b).payload) /\ Len(Head(b).payload) \in Nat
  BY <1>2, LenProperties DEF Slice
<1>4. p2 <= r /\ r <= p3 /\ Start(k)[w] \in Nat
  BY SMTT(30), <1>2, <1>3, ChainBounds, StartFacts
<1>5. r <= Start(k)[w]
  BY SMTT(30), <1>1, <1>4
<1>6. x \in SegmentsOf /\ x.key = k /\ x.payload = Head(b).payload
  BY <1>3 DEF SegmentsOf
<1> HIDE DEF x
<1>7. Chain(k, Append(Tagged(k, c), x), p1, r)
  BY <1>1, <1>2, <1>4, <1>6, ChainAppend
<1>8. Tagged(k, Append(c, Head(b).payload)) = Append(Tagged(k, c), x)
  BY <1>1, <1>3, TaggedAppend DEF x
<1>9. Append(c, Head(b).payload) \in Seq(Seq(Octets))
  BY <1>1, <1>3, AppendProperties
<1> QED BY <1>1, <1>2, <1>5, <1>7, <1>8, <1>9 DEF Flow

(* ... or one of another key.                                              *)
LEMMA FlowRouteOther ==
    ASSUME NEW k \in Keys, NEW g, NEW w, NEW buf, NEW c, NEW on, NEW b, NEW up, NEW rest,
           Flow(k, g, w, buf, c, on, b, up, rest), b # <<>>, Head(b).key # k
    PROVE  Flow(k, g, w, buf, c, on, Tail(b), up, rest)
<1>1. PICK p1, p2, p3 \in Nat :
        /\ Slice(k, buf, Start(k)[g], p1)
        /\ c \in Seq(Seq(Octets)) /\ Chain(k, Tagged(k, c), p1, p2) /\ p2 <= Start(k)[w]
        /\ on = "running" => Chain(k, b, p2, p3) /\ p3 <= Start(k)[w] /\ (up = "running" => Slice(k, rest, p3, Start(k)[w]))
  BY DEF Flow
<1>2. on = "running" => Chain(k, Tail(b), p2, p3)
  BY SMTT(30), <1>1, ChainTail
<1> QED BY <1>1, <1>2 DEF Flow

(* k is no longer routed: only what was received counts.                   *)
LEMMA FlowOff ==
    ASSUME NEW k \in Keys, NEW g, NEW w, NEW buf, NEW c, NEW on, NEW b, NEW up, NEW rest,
           Flow(k, g, w, buf, c, on, b, up, rest), NEW end, end # "running", NEW b2
    PROVE  Flow(k, g, w, buf, c, end, b2, up, rest)
BY DEF Flow

(* The protocol takes a chunk from its channel.                            *)
LEMMA FlowReceive ==
    ASSUME NEW k \in Keys, NEW g, NEW w, NEW buf, NEW c, NEW on, NEW b, NEW up, NEW rest,
           Flow(k, g, w, buf, c, on, b, up, rest), c # <<>>, Start(k)[g] \in Nat
    PROVE  Flow(k, g, w, buf \o Head(c), Tail(c), on, b, up, rest)
<1>1. PICK p1, p2, p3 \in Nat :
        /\ Slice(k, buf, Start(k)[g], p1)
        /\ c \in Seq(Seq(Octets)) /\ Chain(k, Tagged(k, c), p1, p2) /\ p2 <= Start(k)[w]
        /\ on = "running" => Chain(k, b, p2, p3) /\ p3 <= Start(k)[w] /\ (up = "running" => Slice(k, rest, p3, Start(k)[w]))
  BY DEF Flow
<1>2. /\ Tagged(k, Tail(c)) = Tail(Tagged(k, c)) /\ Tagged(k, c) # <<>>
      /\ Head(Tagged(k, c)) = [key |-> k, payload |-> Head(c)]
  BY <1>1, TaggedTail
<1>3. PICK r \in Nat : Chain(k, Tail(Tagged(k, c)), r, p2) /\ Slice(k, Head(c), p1, r)
  BY SMTT(30), <1>1, <1>2, ChainTail
<1>4. Slice(k, buf \o Head(c), Start(k)[g], r)
  BY <1>1, <1>3, SliceConcat
<1>5. Tail(c) \in Seq(Seq(Octets))
  BY <1>1, HeadTailProperties
<1> QED BY <1>1, <1>2, <1>3, <1>4, <1>5 DEF Flow

(* What is in the buffer is the next message, and it was handed over.      *)
LEMMA FlowDecode ==
    ASSUME Wellformed, NEW k \in Keys, NEW g \in 0..Len(Script(k)), NEW w \in 0..Len(Script(k)),
           NEW buf, NEW c, NEW on, NEW b, NEW up, NEW rest,
           Flow(k, g, w, buf, c, on, b, up, rest), buf # <<>>
    PROVE  /\ g < w /\ buf[1][1] = Script(k)[g + 1]
           /\ Len(buf) >= Size(Script(k)[g + 1]) =>
                /\ SubSeq(buf, 1, Size(Script(k)[g + 1])) = Bytes(Script(k)[g + 1])
                /\ Flow(k, g + 1, w, SubSeq(buf, Size(Script(k)[g + 1]) + 1, Len(buf)), c, on, b, up, rest)
<1> DEFINE n == g + 1
           m == Script(k)[n]
           S == Size(m)
<1>0. Len(Script(k)) \in Nat /\ Start(k)[g] \in Nat /\ Start(k)[w] \in Nat
  BY ScriptFacts, StartFacts
<1>1. PICK p1, p2, p3 \in Nat :
        /\ Slice(k, buf, Start(k)[g], p1)
        /\ c \in Seq(Seq(Octets)) /\ Chain(k, Tagged(k, c), p1, p2) /\ p2 <= Start(k)[w]
        /\ on = "running" => Chain(k, b, p2, p3) /\ p3 <= Start(k)[w] /\ (up = "running" => Slice(k, rest, p3, Start(k)[w]))
  BY DEF Flow
<1>2. buf \in Seq(Octets) /\ Len(buf) \in Nat /\ Len(buf) # 0 /\ p1 = Start(k)[g] + Len(buf)
  BY <1>1, LenProperties, EmptySeq DEF Slice
<1>3. p1 <= p2
  BY <1>1, ChainBounds
<1>4. Start(k)[g] < Start(k)[w]
  BY SMTT(30), <1>0, <1>1, <1>2, <1>3
<1>5. g < w
  BY <1>4, StartOrder
<1>6. n \in 1..Len(Script(k)) /\ n - 1 = g /\ n \in 0..Len(Script(k))
  BY SMTT(30), <1>0, <1>5
<1>7. S \in Nat \ {0} /\ Start(k)[n] = Start(k)[g] + S
  BY <1>6, ScriptFacts, StartFacts
<1>8. ASSUME NEW i \in 1..Len(buf), i <= S PROVE buf[i] = <<m, i>>
  BY <1>1, <1>6, <1>8, SliceMessage
<1>9. buf[1][1] = m
  <2>1. 1 \in 1..Len(buf) /\ 1 <= S
    BY SMTT(30), <1>2, <1>7
  <2>2. buf[1] = <<m, 1>>
    BY <1>8, <2>1
  <2> QED BY SMTT(30), <2>2
<1>10. ASSUME Len(buf) >= S
       PROVE  /\ SubSeq(buf, 1, S) = Bytes(m)
              /\ Flow(k, n, w, SubSeq(buf, S + 1, Len(buf)), c, on, b, up, rest)
  <2>1. S \in 0..Len(buf)
    BY SMTT(30), <1>2, <1>7, <1>10
  <2>2. SubSeq(buf, 1, S) = [i \in 1..S |-> buf[i]]
    BY SMTT(30), <1>2, <2>1, <1>7
  <2>3. \A i \in 1..S : buf[i] = <<m, i>>
    BY SMTT(30), <1>2, <1>7, <1>8, <2>1
  <2>4. SubSeq(buf, 1, S) = Bytes(m)
    BY <2>2, <2>3 DEF Bytes
  <2>5. Slice(k, SubSeq(buf, S + 1, Len(buf)), Start(k)[g] + S, p1)
    <3> HIDE DEF S
    <3> QED BY <1>0, <1>1, <2>1, SliceCut
  <2> HIDE DEF n, S, m
  <2> QED BY <1>1, <1>7, <2>4, <2>5 DEF Flow
<1> HIDE DEF S, m
<1> QED BY <1>5, <1>9, <1>10 DEF S, m

-----------------------------------------------------------------------------
(* What the sender of a key has queued and staged.                         *)

Egress == [queue : Seq(Messages), pending : Seq(Messages)]

(* How many of the messages s were handed to the writer.                   *)
Out(s, e) == Len(s) - Len(e.queue) - Len(e.pending)

(* s is what the script begins with; the staged message and the queue are  *)
(* the last messages of s.                                                 *)
Queued(k, s, e) ==
    /\ s \in Seq(Messages) /\ e \in Egress
    /\ Len(s) <= Len(Script(k)) /\ \A i \in 1..Len(s) : s[i] = Script(k)[i]
    /\ Out(s, e) \in Nat /\ Len(e.pending) <= 1
    /\ \A i \in 1..Len(e.pending) : e.pending[i] = Script(k)[Out(s, e) + i]
    /\ \A i \in 1..Len(e.queue) : e.queue[i] = Script(k)[Out(s, e) + Len(e.pending) + i]

(* How many messages were sent, staged and taken.                          *)
LEMMA QueuedLengths ==
    ASSUME Wellformed, NEW k \in Keys, NEW s, NEW e, Queued(k, s, e)
    PROVE  /\ Len(s) \in Nat /\ Len(e.queue) \in Nat /\ Len(e.pending) \in Nat
           /\ Out(s, e) \in 0..Len(Script(k)) /\ Out(s, e) <= Len(s) /\ Len(Script(k)) \in Nat
           /\ Len(s) = Out(s, e) + Len(e.pending) + Len(e.queue)
<1>1. Len(s) \in Nat /\ Len(e.queue) \in Nat /\ Len(e.pending) \in Nat
  BY LenProperties DEF Queued, Egress
<1>2. Len(Script(k)) \in Nat /\ Len(s) <= Len(Script(k)) /\ Out(s, e) \in Nat
  BY ScriptFacts DEF Queued
<1>3. Out(s, e) = Len(s) - Len(e.queue) - Len(e.pending)
  BY DEF Out
<1> DEFINE l == Len(s)
           q == Len(e.queue)
           p == Len(e.pending)
           o == Out(s, e)
           n == Len(Script(k))
<1> HIDE DEF l, q, p, o, n
<1>4. l \in Nat /\ q \in Nat /\ p \in Nat /\ o \in Nat /\ n \in Nat /\ l <= n /\ o = l - q - p
  BY <1>1, <1>2, <1>3 DEF l, q, p, o, n
<1>5. o \in 0..n /\ o <= l /\ l = o + p + q
  BY SMTT(30), <1>4
<1> QED BY <1>4, <1>5 DEF l, q, p, o, n

(* A message that is sent waits behind the others.                         *)
LEMMA QueuedSend ==
    ASSUME Wellformed, NEW k \in Keys, NEW s, NEW e, Queued(k, s, e), Len(s) < Len(Script(k)),
           NEW m, m = Script(k)[Len(s) + 1]
    PROVE  /\ Queued(k, Append(s, m), [e EXCEPT !.queue = Append(@, m)])
           /\ Out(Append(s, m), [e EXCEPT !.queue = Append(@, m)]) = Out(s, e)
<1> DEFINE t == Append(s, m)
           d == [e EXCEPT !.queue = Append(@, m)]
           w == Out(s, e)
<1>1. /\ Len(s) \in Nat /\ Len(e.queue) \in Nat /\ Len(e.pending) \in Nat /\ w \in Nat
      /\ Len(Script(k)) \in Nat /\ Len(s) = w + Len(e.pending) + Len(e.queue)
  BY SMTT(30), QueuedLengths
<1>2. m \in Messages /\ s \in Seq(Messages) /\ e \in Egress
  BY SMTT(30), <1>1, ScriptFacts DEF Queued
<1>3. /\ t \in Seq(Messages) /\ Len(t) = Len(s) + 1 /\ t[Len(s) + 1] = m
      /\ \A i \in 1..Len(s) : t[i] = s[i]
  BY SMTT(30), <1>1, <1>2, AppendProperties
<1>4. d \in Egress /\ d.pending = e.pending /\ d.queue = Append(e.queue, m)
  BY <1>2, AppendProperties DEF Egress
<1>5. /\ Len(d.queue) = Len(e.queue) + 1 /\ d.queue[Len(e.queue) + 1] = m
      /\ \A i \in 1..Len(e.queue) : d.queue[i] = e.queue[i]
  BY SMTT(30), <1>2, <1>4, AppendProperties DEF Egress
<1> HIDE DEF t, d
<1>6. Out(t, d) = w
  BY SMTT(30), <1>1, <1>3, <1>4, <1>5 DEF Out
<1>7. Len(t) <= Len(Script(k)) /\ \A i \in 1..Len(t) : t[i] = Script(k)[i]
  <2>1. ASSUME NEW i \in 1..Len(t) PROVE t[i] = Script(k)[i]
    <3>1. CASE i = Len(s) + 1
      BY <1>3, <3>1
    <3>2. CASE i # Len(s) + 1
      <4>1. i \in 1..Len(s)
        BY SMTT(30), <1>1, <1>3, <3>2
      <4> QED BY <1>3, <4>1 DEF Queued
    <3> QED BY <3>1, <3>2
  <2> QED BY SMTT(30), <1>1, <1>3, <2>1
<1>8. ASSUME NEW i \in 1..Len(d.queue) PROVE d.queue[i] = Script(k)[w + Len(d.pending) + i]
  <2>1. CASE i = Len(e.queue) + 1
    <3>1. w + Len(d.pending) + i = Len(s) + 1
      <4> DEFINE v == Len(e.pending)
                 q == Len(e.queue)
      <4>1. w \in Nat /\ v \in Nat /\ q \in Nat /\ Len(s) = w + v + q
        BY <1>1
      <4>2. Len(d.pending) = v /\ i = q + 1
        BY <1>4, <2>1
      <4> HIDE DEF w, v, q
      <4> QED BY SMTT(30), <4>1, <4>2
    <3> QED BY <1>5, <2>1, <3>1
  <2>2. CASE i # Len(e.queue) + 1
    <3>1. i \in 1..Len(e.queue)
      BY SMTT(30), <1>1, <1>5, <2>2
    <3> QED BY <1>4, <1>5, <3>1 DEF Queued
  <2> QED BY <2>1, <2>2
<1>9. Len(d.pending) <= 1 /\ \A i \in 1..Len(d.pending) : d.pending[i] = Script(k)[w + i]
  BY <1>4 DEF Queued
<1>10. Queued(k, t, d)
  <2> HIDE DEF w
  <2> QED BY <1>1, <1>3, <1>4, <1>6, <1>7, <1>8, <1>9 DEF Queued
<1> QED BY <1>6, <1>10 DEF t, d, w

(* fill_pending on one key.                                                *)
Fill(e) == IF e.pending = None /\ e.queue # <<>>
           THEN [queue |-> Tail(e.queue), pending |-> <<Head(e.queue)>>]
           ELSE e

(* Staging a message takes none out.                                       *)
LEMMA QueuedFill ==
    ASSUME Wellformed, NEW k \in Keys, NEW s, NEW e, Queued(k, s, e)
    PROVE  Queued(k, s, Fill(e)) /\ Out(s, Fill(e)) = Out(s, e)
<1>1. CASE ~(e.pending = None /\ e.queue # <<>>)
  BY <1>1 DEF Fill
<1>2. CASE e.pending = None /\ e.queue # <<>>
  <2> DEFINE d == Fill(e)
             w == Out(s, e)
             q == e.queue
  <2>1. /\ Len(s) \in Nat /\ Len(q) \in Nat /\ Len(e.pending) = 0 /\ w \in Nat
        /\ q \in Seq(Messages) /\ q # <<>> /\ s \in Seq(Messages)
    BY <1>2, QueuedLengths DEF Queued, Egress, None
  <2>2. /\ Tail(q) \in Seq(Messages) /\ Len(Tail(q)) = Len(q) - 1 /\ Head(q) = q[1] /\ Head(q) \in Messages
        /\ \A i \in 1..(Len(q) - 1) : Tail(q)[i] = q[i + 1]
        /\ Len(q) # 0
    BY SMTT(30), <2>1, HeadTailProperties, EmptySeq
  <2>3. d = [queue |-> Tail(q), pending |-> <<Head(q)>>]
    BY <1>2 DEF Fill
  <2>4. /\ d \in Egress /\ d.queue = Tail(q) /\ d.pending = <<Head(q)>>
        /\ Len(d.pending) = 1 /\ d.pending[1] = q[1]
    BY SMTT(30), <2>2, <2>3 DEF Egress
  <2> HIDE DEF d
  <2>5. Out(s, d) = w
    <3>1. \A l, m \in Nat : l - (m - 1) - 1 = l - m - 0
      BY SMTT(30)
    <3>2. Out(s, d) = Len(s) - (Len(q) - 1) - 1 /\ w = Len(s) - Len(q) - 0
      BY <2>1, <2>2, <2>4 DEF Out
    <3> QED BY <2>1, <3>1, <3>2
  <2>6. \A i \in 1..Len(q) : q[i] = Script(k)[w + i]
    <3>1. ASSUME NEW i \in 1..Len(q) PROVE q[i] = Script(k)[w + i]
      <4>1. q[i] = Script(k)[w + Len(e.pending) + i]
        BY DEF Queued
      <4>2. w + Len(e.pending) + i = w + i
        BY SMTT(30), <2>1
      <4> QED BY <4>1, <4>2
    <3> QED BY <3>1
  <2>7. \A i \in 1..Len(d.pending) : d.pending[i] = Script(k)[w + i]
    BY SMTT(30), <2>1, <2>2, <2>4, <2>6
  <2>8. ASSUME NEW i \in 1..Len(d.queue) PROVE d.queue[i] = Script(k)[w + Len(d.pending) + i]
    <3>1. i \in 1..(Len(q) - 1) /\ i + 1 \in 1..Len(q) /\ w + (i + 1) = w + Len(d.pending) + i
      <4> DEFINE l == Len(q)
      <4>1. i \in 1..(l - 1) /\ Len(d.pending) = 1 /\ l \in Nat /\ w \in Nat
        BY <2>1, <2>2, <2>4
      <4> HIDE DEF l, w
      <4>2. i + 1 \in 1..l /\ w + (i + 1) = w + 1 + i
        BY SMTT(30), <4>1
      <4> QED BY <4>1, <4>2 DEF l
    <3>2. d.queue[i] = q[i + 1] /\ q[i + 1] = Script(k)[w + (i + 1)]
      BY <2>2, <2>4, <2>6, <3>1
    <3> QED BY <3>1, <3>2
  <2>9. Len(d.pending) <= 1 /\ Len(s) <= Len(Script(k)) /\ \A i \in 1..Len(s) : s[i] = Script(k)[i]
    BY SMTT(30), <2>4 DEF Queued
  <2>10. Queued(k, s, d)
    <3> HIDE DEF w
    <3> QED BY <2>1, <2>4, <2>5, <2>7, <2>8, <2>9 DEF Queued
  <2> QED BY <2>5, <2>10 DEF d
<1> QED BY <1>1, <1>2

(* The staged message is the next one to be written.                       *)
LEMMA QueuedTake ==
    ASSUME Wellformed, NEW k \in Keys, NEW s, NEW e, Queued(k, s, e), e.pending # None
    PROVE  /\ Out(s, e) + 1 \in 1..Len(Script(k)) /\ e.pending[1] = Script(k)[Out(s, e) + 1]
           /\ Queued(k, s, [e EXCEPT !.pending = None])
           /\ Out(s, [e EXCEPT !.pending = None]) = Out(s, e) + 1
<1> DEFINE d == [e EXCEPT !.pending = None]
           w == Out(s, e)
<1>1. /\ Len(s) \in Nat /\ Len(e.queue) \in Nat /\ Len(e.pending) \in Nat /\ w \in Nat
      /\ Len(Script(k)) \in Nat /\ Len(s) = w + Len(e.pending) + Len(e.queue) /\ Len(s) <= Len(Script(k))
  BY SMTT(30), QueuedLengths DEF Queued
<1>2. e \in Egress /\ Len(e.pending) = 1
  <2>1. e \in Egress /\ Len(e.pending) <= 1 /\ Len(e.pending) # 0
    BY EmptySeq DEF Queued, Egress, None
  <2>2. \A l \in Nat : l <= 1 /\ l # 0 => l = 1
    BY SMTT(30)
  <2> QED BY <1>1, <2>1, <2>2
<1>3. w + 1 \in 1..Len(Script(k))
  BY SMTT(30), <1>1, <1>2
<1>4. e.pending[1] = Script(k)[w + 1]
  BY SMTT(30), <1>2 DEF Queued
<1>5. d \in Egress /\ d.queue = e.queue /\ d.pending = <<>> /\ Len(d.pending) = 0
  <2>1. d = [e EXCEPT !.pending = <<>>]
    BY DEF None
  <2>2. <<>> \in Seq(Messages) /\ Len(<<>>) = 0
    BY EmptySeq
  <2> HIDE DEF d
  <2> QED BY <1>2, <2>1, <2>2 DEF Egress
<1> HIDE DEF d
<1>6. Out(s, d) = w + 1
  BY SMTT(30), <1>1, <1>2, <1>5 DEF Out
<1>7. ASSUME NEW i \in 1..Len(d.queue) PROVE d.queue[i] = Script(k)[(w + 1) + Len(d.pending) + i]
  <2>1. (w + 1) + Len(d.pending) + i = w + Len(e.pending) + i
    BY SMTT(30), <1>1, <1>2, <1>5
  <2> QED BY <1>5, <2>1 DEF Queued
<1>8. w + 1 \in Nat /\ Len(d.pending) <= 1 /\ \A i \in 1..Len(d.pending) : d.pending[i] = Script(k)[(w + 1) + i]
  BY SMTT(30), <1>1, <1>5
<1>9. Queued(k, s, d)
  <2>1. s \in Seq(Messages) /\ Len(s) <= Len(Script(k)) /\ \A i \in 1..Len(s) : s[i] = Script(k)[i]
    BY DEF Queued
  <2> DEFINE v == w + 1
  <2> HIDE DEF v, w
  <2> QED BY <1>5, <1>6, <1>7, <1>8, <2>1 DEF Queued, v
<1> QED BY <1>3, <1>4, <1>6, <1>9 DEF d

-----------------------------------------------------------------------------
(* The bytes of the chunks in an ingress channel.                          *)

Lengths(s) == [i \in 1..Len(s) |-> Len(s[i])]

(* The lengths of chunks are natural numbers.                              *)
LEMMA LengthsType ==
    ASSUME NEW s \in Seq(Seq(Octets))
    PROVE  Lengths(s) \in [1..Len(s) -> Nat] /\ Len(s) \in Nat
<1>1. Len(s) \in Nat /\ \A i \in 1..Len(s) : s[i] \in Seq(Octets)
  BY ElementOfSeq, LenProperties
<1>2. \A i \in 1..Len(s) : Len(s[i]) \in Nat
  BY <1>1, LenProperties
<1> QED BY <1>1, <1>2 DEF Lengths

(* SumSeq is the last of the partial sums,                                 *)
LEMMA SumSeqDef ==
    ASSUME NEW s \in Seq(Seq(Octets))
    PROVE  \E f \in [0..Len(s) -> Nat] : PartialSums(f, Len(s), Lengths(s)) /\ SumSeq(s) = f[Len(s)]
<1> DEFINE n == Len(s)
           IsSum(f) == f = [i \in 0..n |-> IF i = 0 THEN 0 ELSE f[i - 1] + Len(s[i])]
           sum == CHOOSE f : IsSum(f)
<1>1. n \in Nat /\ Lengths(s) \in [1..n -> Nat]
  BY LengthsType
<1>2. PICK f \in [0..n -> Nat] : PartialSums(f, n, Lengths(s))
  BY <1>1, SumsExist
<1>3. ASSUME NEW g PROVE IsSum(g) <=> PartialSums(g, n, Lengths(s))
  <2>1. [i \in 0..n |-> IF i = 0 THEN 0 ELSE g[i - 1] + Len(s[i])]
          = [i \in 0..n |-> IF i = 0 THEN 0 ELSE g[i - 1] + Lengths(s)[i]]
    BY SMTT(30), <1>1 DEF Lengths
  <2> QED BY <2>1 DEF PartialSums
<1>4. SumSeq(s) = sum[n]
  BY DEF SumSeq
<1> HIDE DEF n, IsSum
<1>5. IsSum(sum)
  BY <1>2, <1>3
<1> HIDE DEF sum
<1>6. PartialSums(sum, n, Lengths(s))
  BY <1>3, <1>5
<1>7. \A i \in 0..n : f[i] = sum[i]
  BY SMTT(30), <1>1, <1>2, <1>6, SumsOfPrefix DEF Alike
<1> QED BY SMTT(30), <1>1, <1>2, <1>4, <1>7 DEF n

(* 0 for no chunk,                                                         *)
LEMMA SumSeqEmpty == SumSeq(<<>>) = 0
<1> DEFINE e == <<>>
<1>1. e \in Seq(Seq(Octets)) /\ Len(e) = 0
  BY SMTT(30)
<1> HIDE DEF e
<1>2. PICK f \in [0..Len(e) -> Nat] : PartialSums(f, Len(e), Lengths(e)) /\ SumSeq(e) = f[Len(e)]
  BY <1>1, SumSeqDef
<1>3. f[0] = 0
  BY SMTT(30), <1>1, <1>2 DEF PartialSums
<1> QED BY <1>1, <1>2, <1>3 DEF e

(* more by the length of a chunk that arrives,                             *)
LEMMA SumSeqAppend ==
    ASSUME NEW s \in Seq(Seq(Octets)), NEW x \in Seq(Octets)
    PROVE  SumSeq(Append(s, x)) = SumSeq(s) + Len(x)
<1> DEFINE n == Len(s)
           a == Append(s, x)
<1>1. /\ a \in Seq(Seq(Octets)) /\ Len(a) = n + 1 /\ n \in Nat
      /\ \A i \in 1..n : a[i] = s[i]
      /\ a[n + 1] = x
  BY SMTT(30), AppendProperties, LenProperties
<1> HIDE DEF a
<1>2. PICK f \in [0..n -> Nat] : PartialSums(f, n, Lengths(s)) /\ SumSeq(s) = f[n]
  BY SumSeqDef
<1>3. PICK g \in [0..(n + 1) -> Nat] : PartialSums(g, n + 1, Lengths(a)) /\ SumSeq(a) = g[n + 1]
  BY <1>1, SumSeqDef
<1>4. f[n] = g[n]
  <2> DEFINE m == n + 1
  <2>0. n \in Nat /\ m \in Nat /\ n <= m /\ PartialSums(g, m, Lengths(a))
    BY SMTT(30), <1>1, <1>3
  <2>1. Alike(n, Lengths(s), Lengths(a))
    BY SMTT(30), <1>1 DEF Alike, Lengths
  <2> HIDE DEF n, m
  <2>2. f[0] = g[0] /\ Alike(n, f, g)
    BY <1>2, <2>0, <2>1, SumsOfPrefix
  <2> QED BY SMTT(30), <1>1, <2>2 DEF Alike, n
<1>5. g[n + 1] = g[n] + Len(x)
  <2>1. n + 1 \in 0..(n + 1) /\ n + 1 # 0 /\ (n + 1) - 1 = n
    BY SMTT(30), <1>1
  <2>2. g[n + 1] = g[(n + 1) - 1] + Lengths(a)[n + 1]
    BY <1>3, <2>1 DEF PartialSums
  <2>3. Lengths(a)[n + 1] = Len(x)
    BY SMTT(30), <1>1 DEF Lengths
  <2> QED BY <2>1, <2>2, <2>3
<1> QED BY <1>2, <1>3, <1>4, <1>5 DEF a

(* and less by the one that is taken.                                      *)
LEMMA SumSeqTail ==
    ASSUME NEW s \in Seq(Seq(Octets)), s # <<>>
    PROVE  SumSeq(Tail(s)) = SumSeq(s) - Len(Head(s))
<1> DEFINE n == Len(s) - 1
           r == Tail(s)
<1>1. /\ r \in Seq(Seq(Octets)) /\ Len(r) = n /\ n \in Nat /\ Len(s) = n + 1
      /\ \A i \in 1..n : r[i] = s[i + 1]
      /\ Head(s) = s[1] /\ 1 \in 1..(n + 1)
  BY SMTT(30), HeadTailProperties, EmptySeq, LenProperties
<1> HIDE DEF n, r
<1>2. PICK f \in [0..(n + 1) -> Nat] : PartialSums(f, n + 1, Lengths(s)) /\ SumSeq(s) = f[n + 1]
  BY <1>1, SumSeqDef
<1>3. PICK g \in [0..n -> Nat] : PartialSums(g, n, Lengths(r)) /\ SumSeq(r) = g[n]
  BY <1>1, SumSeqDef
<1>4. \A i \in 1..n : Lengths(r)[i] = Lengths(s)[i + 1]
  <2>1. Lengths(s) = [i \in 1..(n + 1) |-> Len(s[i])] /\ Lengths(r) = [i \in 1..n |-> Len(r[i])]
    BY <1>1 DEF Lengths
  <2>2. \A i \in 1..n : i + 1 \in 1..(n + 1)
    BY SMTT(30), <1>1
  <2>3. ASSUME NEW i \in 1..n PROVE Lengths(r)[i] = Lengths(s)[i + 1]
    <3>1. Lengths(r)[i] = Len(r[i]) /\ i + 1 \in 1..(n + 1)
      BY <2>1, <2>2
    <3>2. Lengths(s)[i + 1] = Len(s[i + 1])
      BY <2>1, <3>1
    <3> QED BY <1>1, <3>1, <3>2
  <2> QED BY <2>3
<1>5. Lengths(s) \in [1..(n + 1) -> Nat] /\ Lengths(s)[1] = Len(s[1]) /\ Lengths(s)[1] \in Nat
  BY <1>1, LengthsType DEF Lengths
<1>6. \A i \in 0..n : f[i + 1] = g[i] + Lengths(s)[1]
  BY <1>1, <1>2, <1>3, <1>4, <1>5, SumsOfRest
<1>7. n \in 0..n /\ g[n] \in Nat
  BY SMTT(30), <1>1, <1>3
<1> QED BY SMTT(30), <1>1, <1>2, <1>3, <1>5, <1>6, <1>7 DEF r

-----------------------------------------------------------------------------
(* The inductive invariant.                                                *)

Ingress == [chunks : Seq(Seq(Octets)), counter : Int, buffer : Seq(Octets)]

(* r is what the script begins with, and no longer than s.                 *)
Received(k, s, r) == /\ r \in Seq(Messages) /\ Len(r) <= Len(s)
                     /\ \A i \in 1..Len(r) : r[i] = Script(k)[i]

(* Key k, of which s was sent and r received.                              *)
Sound(k, s, e, r, in, on, b, up, rest) ==
    /\ Queued(k, s, e) /\ Received(k, s, r)
    /\ in \in Ingress /\ in.counter = SumSeq(in.chunks)
    /\ Flow(k, Len(r), Out(s, e), in.buffer, in.chunks, on, b, up, rest)

(* The indices of a sound connection are in range.                         *)
LEMMA SoundIndices ==
    ASSUME Wellformed, NEW k \in Keys, NEW s, NEW e, NEW r, NEW in, NEW on, NEW b, NEW up, NEW rest,
           Sound(k, s, e, r, in, on, b, up, rest)
    PROVE  /\ Out(s, e) \in 0..Len(Script(k)) /\ Len(r) \in 0..Len(Script(k))
           /\ Out(s, e) <= Len(s) /\ Len(s) \in Nat /\ Start(k)[Len(r)] \in Nat
<1>1. /\ Len(s) \in Nat /\ Out(s, e) \in 0..Len(Script(k)) /\ Out(s, e) <= Len(s) /\ Len(Script(k)) \in Nat
  BY QueuedLengths DEF Sound
<1>2. Len(s) <= Len(Script(k)) /\ Len(r) <= Len(s) /\ Len(r) \in Nat
  BY LenProperties DEF Sound, Queued, Received
<1>3. Len(r) \in 0..Len(Script(k))
  BY SMTT(30), <1>1, <1>2
<1> QED BY <1>1, <1>3, StartFacts

(* Soundness of one key after a message was sent,                          *)
LEMMA SoundSend ==
    ASSUME Wellformed, NEW k \in Keys, NEW s, NEW e, NEW r, NEW in, NEW on, NEW b, NEW up, NEW rest,
           Sound(k, s, e, r, in, on, b, up, rest), Len(s) < Len(Script(k)),
           NEW m, m = Script(k)[Len(s) + 1]
    PROVE  Sound(k, Append(s, m), [e EXCEPT !.queue = Append(@, m)], r, in, on, b, up, rest)
<1> DEFINE t == Append(s, m)
           d == [e EXCEPT !.queue = Append(@, m)]
<1>1. Queued(k, t, d) /\ Out(t, d) = Out(s, e)
  BY SMTT(30), QueuedSend DEF Sound
<1>2. Len(t) = Len(s) + 1 /\ Len(s) \in Nat /\ Len(r) \in Nat
  BY SMTT(30), <1>1, SoundIndices, ScriptFacts, AppendProperties DEF Sound, Queued
<1> HIDE DEF t, d
<1>3. Len(r) <= Len(t)
  BY SMTT(30), <1>2 DEF Sound, Received
<1> QED BY <1>1, <1>3 DEF Sound, Received, t, d

(* staged,                                                                 *)
LEMMA SoundFill ==
    ASSUME Wellformed, NEW k \in Keys, NEW s, NEW e, NEW r, NEW in, NEW on, NEW b, NEW up, NEW rest,
           Sound(k, s, e, r, in, on, b, up, rest)
    PROVE  Sound(k, s, Fill(e), r, in, on, b, up, rest)
BY QueuedFill DEF Sound

(* taken by the muxer,                                                     *)
LEMMA SoundTake ==
    ASSUME Wellformed, NEW k \in Keys, NEW s, NEW e, NEW r, NEW in, NEW on, NEW b, NEW up,
           Sound(k, s, e, r, in, on, b, up, <<>>), e.pending # None, up = "running"
    PROVE  /\ Sound(k, s, [e EXCEPT !.pending = None], r, in, on, b, up, Bytes(e.pending[1]))
           /\ Bytes(e.pending[1]) \in Seq(Octets)
<1> DEFINE d == [e EXCEPT !.pending = None]
           w == Out(s, e) + 1
<1>1. /\ w \in 1..Len(Script(k)) /\ e.pending[1] = Script(k)[w]
      /\ Queued(k, s, d) /\ Out(s, d) = w
  BY QueuedTake DEF Sound
<1>2. w - 1 = Out(s, e)
  BY SMTT(30), SoundIndices
<1> HIDE DEF w, d
<1>3. Flow(k, Len(r), w, in.buffer, in.chunks, on, b, up, Bytes(Script(k)[w]))
  BY <1>1, <1>2, FlowTake DEF Sound
<1>4. Bytes(Script(k)[w]) \in Seq(Octets)
  BY <1>1, SliceBytes DEF Slice
<1> QED BY <1>1, <1>3, <1>4 DEF Sound, d

(* after a segment of it was written,                                      *)
LEMMA SoundWrite ==
    ASSUME Wellformed, NEW k \in Keys, NEW s, NEW e, NEW r, NEW in, NEW on, NEW b, NEW up,
           NEW rest \in Seq(Octets), NEW cut \in 0..Len(rest),
           Sound(k, s, e, r, in, on, b, up, rest), up = "running"
    PROVE  Sound(k, s, e, r, in, on, Append(b, [key |-> k, payload |-> SubSeq(rest, 1, cut)]), up,
                 SubSeq(rest, cut + 1, Len(rest)))
BY SoundIndices, FlowWrite DEF Sound

(* put into the ingress channel,                                           *)
LEMMA SoundRoute ==
    ASSUME Wellformed, NEW k \in Keys, NEW s, NEW e, NEW r, NEW in, NEW on, NEW b, NEW up, NEW rest,
           Sound(k, s, e, r, in, on, b, up, rest), on = "running",
           b \in Seq(SegmentsOf), b # <<>>, Head(b).key = k
    PROVE  Sound(k, s, e, r, [in EXCEPT !.chunks = Append(@, Head(b).payload),
                                        !.counter = in.counter + Len(Head(b).payload)],
                 on, Tail(b), up, rest)
<1> DEFINE x == Head(b).payload
           d == [in EXCEPT !.chunks = Append(@, x), !.counter = in.counter + Len(x)]
<1>1. x \in Seq(Octets)
  <2>1. Head(b) \in SegmentsOf
    BY HeadTailProperties
  <2> QED BY <2>1 DEF SegmentsOf
<1>2. in \in Ingress /\ in.chunks \in Seq(Seq(Octets)) /\ in.counter \in Int /\ in.counter = SumSeq(in.chunks)
  BY DEF Sound, Ingress
<1>3. Flow(k, Len(r), Out(s, e), in.buffer, Append(in.chunks, x), on, Tail(b), up, rest)
  BY SoundIndices, FlowRoute DEF Sound
<1>4. SumSeq(Append(in.chunks, x)) = in.counter + Len(x)
  BY <1>1, <1>2, SumSeqAppend
<1> HIDE DEF x
<1>5. Len(x) \in Nat /\ Append(in.chunks, x) \in Seq(Seq(Octets))
  BY <1>1, <1>2, LenProperties, AppendProperties
<1>6. /\ d \in Ingress /\ d.chunks = Append(in.chunks, x) /\ d.counter = in.counter + Len(x)
      /\ d.buffer = in.buffer
  <2> DEFINE a == Append(in.chunks, x)
             z == in.counter + Len(x)
  <2>1. a \in Seq(Seq(Octets)) /\ z \in Int
    BY SMTT(30), <1>2, <1>5
  <2>2. d = [in EXCEPT !.chunks = a, !.counter = z]
    OBVIOUS
  <2> HIDE DEF a, z, d
  <2>3. d \in Ingress /\ d.chunks = a /\ d.counter = z /\ d.buffer = in.buffer
    BY <1>2, <2>1, <2>2 DEF Ingress
  <2> QED BY <2>3 DEF a, z
<1> HIDE DEF d
<1> QED BY <1>3, <1>4, <1>6 DEF Sound, d, x

(* and taken from it,                                                      *)
LEMMA SoundReceive ==
    ASSUME Wellformed, NEW k \in Keys, NEW s, NEW e, NEW r, NEW in, NEW on, NEW b, NEW up, NEW rest,
           Sound(k, s, e, r, in, on, b, up, rest), in.chunks # <<>>
    PROVE  Sound(k, s, e, r, [chunks |-> Tail(in.chunks), counter |-> in.counter - Len(Head(in.chunks)),
                              buffer |-> in.buffer \o Head(in.chunks)], on, b, up, rest)
<1> DEFINE c == in.chunks
           d == [chunks |-> Tail(c), counter |-> in.counter - Len(Head(c)), buffer |-> in.buffer \o Head(c)]
<1>1. c \in Seq(Seq(Octets)) /\ in.counter \in Int /\ in.counter = SumSeq(c) /\ in.buffer \in Seq(Octets)
  BY DEF Sound, Ingress
<1>2. Tail(c) \in Seq(Seq(Octets)) /\ Head(c) \in Seq(Octets)
  BY <1>1, HeadTailProperties
<1>3. Len(Head(c)) \in Nat /\ in.buffer \o Head(c) \in Seq(Octets)
  BY <1>1, <1>2, LenProperties, ConcatProperties
<1>4. SumSeq(Tail(c)) = in.counter - Len(Head(c))
  BY <1>1, SumSeqTail
<1>5. Flow(k, Len(r), Out(s, e), in.buffer \o Head(c), Tail(c), on, b, up, rest)
  BY SoundIndices, FlowReceive DEF Sound
<1>6. d \in Ingress
  BY SMTT(30), <1>1, <1>2, <1>3 DEF Ingress
<1> QED BY <1>4, <1>5, <1>6 DEF Sound

(* and after a message was decoded, which is the next one sent.            *)
LEMMA SoundDecode ==
    ASSUME Wellformed, NEW k \in Keys, NEW s, NEW e, NEW r, NEW in, NEW on, NEW b, NEW up, NEW rest,
           Sound(k, s, e, r, in, on, b, up, rest), Decodable(in.buffer),
           NEW m, m = in.buffer[1][1]
    PROVE  /\ Len(r) < Len(s) /\ m = s[Len(r) + 1] /\ m \in Messages
           /\ Sound(k, s, e, Append(r, m),
                    [in EXCEPT !.buffer = SubSeq(in.buffer, Size(m) + 1, Len(in.buffer))], on, b, up, rest)
<1> DEFINE g == Len(r)
           a == Append(r, m)
           buf == SubSeq(in.buffer, Size(m) + 1, Len(in.buffer))
           d == [in EXCEPT !.buffer = buf]
<1>1. /\ g \in 0..Len(Script(k)) /\ Out(s, e) \in 0..Len(Script(k)) /\ Out(s, e) <= Len(s) /\ Len(s) \in Nat
  BY SoundIndices
<1>2. in.buffer # <<>> /\ Len(in.buffer) >= Size(m)
  BY DEF Decodable
<1>3. /\ g < Out(s, e) /\ m = Script(k)[g + 1]
      /\ Flow(k, g + 1, Out(s, e), buf, in.chunks, on, b, up, rest)
  BY <1>1, <1>2, FlowDecode DEF Sound
<1>4. g \in Nat /\ g < Len(s) /\ g + 1 <= Len(s) /\ g + 1 \in 1..Len(s)
  BY SMTT(30), <1>1, <1>3
<1>5. m = s[g + 1] /\ m \in Messages
  <2>1. m = s[g + 1] /\ s \in Seq(Messages)
    BY <1>3, <1>4 DEF Sound, Queued
  <2> QED BY <1>4, <2>1, ElementOfSeq
<1>6. r \in Seq(Messages) /\ \A i \in 1..g : r[i] = Script(k)[i]
  BY DEF Sound, Received
<1>7. a \in Seq(Messages) /\ Len(a) = g + 1 /\ a[g + 1] = m /\ \A i \in 1..g : a[i] = r[i]
  BY SMTT(30), <1>5, <1>6, AppendProperties
<1>8. Received(k, s, a)
  <2>1. ASSUME NEW i \in 1..(g + 1) PROVE a[i] = Script(k)[i]
    <3>1. CASE i = g + 1
      BY <1>3, <1>7, <3>1
    <3>2. CASE i # g + 1
      <4>1. i \in 1..g
        BY SMTT(30), <1>4, <3>2
      <4> QED BY <1>6, <1>7, <4>1
    <3> QED BY <3>1, <3>2
  <2> QED BY <1>4, <1>7, <2>1 DEF Received
<1>9. buf \in Seq(Octets)
  BY <1>3 DEF Flow, Slice
<1> HIDE DEF buf
<1>10. d \in Ingress /\ d.chunks = in.chunks /\ d.counter = in.counter /\ d.buffer = buf
  BY <1>9 DEF Sound, Ingress
<1> HIDE DEF d, a
<1>11. Sound(k, s, e, a, d, on, b, up, rest)
  BY <1>3, <1>7, <1>8, <1>10 DEF Sound
<1> QED BY <1>4, <1>5, <1>11 DEF a, d, buf

-----------------------------------------------------------------------------
(* Its preservation, one lemma for each action.                            *)

TypesOK == /\ egress \in [Keys -> Egress]
           /\ sent \in [Keys -> Seq(Messages)] /\ got \in [Keys -> Seq(Messages)]
           /\ writing \in [key : Keys \cup {None}, rest : Seq(Octets)]
           /\ writing.rest # <<>> => writing.key \in Keys
           /\ bearer \in Seq(SegmentsOf)
           /\ ingress \in [Keys -> Ingress]
           /\ reader \in [Keys -> {"reading", "failed", "shutdown"}]

(* The demuxer as the channel of k sees it, and k's part of what is being  *)
(* written.                                                                *)
Via(k) == IF k \in routes THEN demuxer ELSE "off"
Rest(k) == IF writing.key = k THEN writing.rest ELSE <<>>

SoundKey(k) == Sound(k, sent[k], egress[k], got[k], ingress[k], Via(k), bearer, muxer, Rest(k))

IInv == TypesOK /\ \A k \in Keys : SoundKey(k)

(* IInv holds initially, and each action preserves it.                     *)
LEMMA InitInvariant == ASSUME Wellformed, Init PROVE IInv
<1>1. ASSUME NEW k \in Keys PROVE SoundKey(k)
  <2>1. /\ sent[k] = <<>> /\ got[k] = <<>> /\ egress[k] = [queue |-> <<>>, pending |-> <<>>]
        /\ ingress[k] = [chunks |-> <<>>, counter |-> 0, buffer |-> <<>>]
        /\ bearer = <<>> /\ Rest(k) = <<>>
    BY DEF Init, None, Rest
  <2>2. /\ <<>> \in Seq(Messages) /\ Len(<<>>) = 0 /\ <<>> \in Seq(Seq(Octets)) /\ <<>> \in Seq(Octets)
        /\ 0 \in Nat /\ 0 - 0 - 0 = 0 /\ 0 <= 1 /\ 1..0 = {}
    BY SMTT(30)
  <2>3. Len(Script(k)) \in Nat
    BY ScriptFacts
  <2>4. Out(sent[k], egress[k]) = 0
    BY SMTT(30), <2>1, <2>2 DEF Out
  <2>5. Queued(k, sent[k], egress[k])
    BY SMTT(30), <2>1, <2>2, <2>3, <2>4 DEF Queued, Egress
  <2>6. Received(k, sent[k], got[k])
    BY SMTT(30), <2>1, <2>2 DEF Received
  <2>7. ingress[k] \in Ingress /\ ingress[k].counter = SumSeq(ingress[k].chunks)
    BY SMTT(30), <2>1, <2>2, SumSeqEmpty DEF Ingress
  <2>8. Flow(k, 0, 0, <<>>, <<>>, Via(k), <<>>, muxer, <<>>)
    BY FlowInit
  <2> QED BY SMTT(30), <2>1, <2>2, <2>4, <2>5, <2>6, <2>7, <2>8 DEF SoundKey, Sound
<1>2. TypesOK
  BY SMTT(30) DEF Init, TypesOK, Egress, Ingress, None
<1> QED BY <1>1, <1>2 DEF IInv

(* A protocol sends a message.                                             *)
LEMMA SendInvariant ==
    ASSUME Wellformed, IInv, NEW h \in Keys, Send(h) PROVE IInv'
<1> DEFINE m == Script(h)[Len(sent[h]) + 1]
           d == [egress[h] EXCEPT !.queue = Append(@, m)]
<1>1. /\ egress' = [egress EXCEPT ![h] = d] /\ sent' = [sent EXCEPT ![h] = Append(sent[h], m)]
      /\ Len(sent[h]) < Len(Script(h))
      /\ UNCHANGED <<writing, bearer, ingress, reader, routes, demuxer, muxer, got>>
  BY DEF Send, sides
<1>2. SoundKey(h) /\ TypesOK
  BY DEF IInv
<1>3. Sound(h, Append(sent[h], m), d, got[h], ingress[h], Via(h), bearer, muxer, Rest(h))
  BY <1>1, <1>2, SoundSend DEF SoundKey
<1>4. d \in Egress /\ Append(sent[h], m) \in Seq(Messages)
  BY <1>3 DEF Sound, Queued
<1> HIDE DEF m, d
<1>5. TypesOK'
  BY <1>1, <1>2, <1>4 DEF TypesOK
<1>6. ASSUME NEW k \in Keys PROVE SoundKey(k)'
  <2>1. Via(k)' = Via(k) /\ Rest(k)' = Rest(k)
    BY <1>1 DEF Via, Rest
  <2>2. CASE k = h
    BY <1>1, <1>2, <1>3, <2>1, <2>2 DEF SoundKey, TypesOK
  <2>3. CASE k # h
    <3>1. SoundKey(k)
      BY DEF IInv
    <3> QED BY <1>1, <1>2, <2>1, <2>3, <3>1 DEF SoundKey, TypesOK
  <2> QED BY <2>2, <2>3
<1> QED BY <1>5, <1>6 DEF IInv

(* The muxer takes the next staged message.                                *)
LEMMA ScheduleInvariant ==
    ASSUME Wellformed, IInv, Schedule PROVE IInv'
<1>1. PICK j \in Staged : LET key == KeyOrder[j]
                         IN  /\ writing' = [key |-> key, rest |-> Bytes(Filled[key].pending[1])]
                             /\ egress' = [Filled EXCEPT ![key].pending = None]
  BY DEF Schedule
<1> DEFINE h == KeyOrder[j]
           e == Filled[h]
           d == [e EXCEPT !.pending = None]
<1>2. h \in Keys /\ e.pending # None
  BY DEF Staged, Keys
<1>3. /\ muxer = "running" /\ writing.rest = <<>>
      /\ UNCHANGED <<bearer, sent, ingress, reader, routes, demuxer, muxer, got>>
  BY DEF Schedule, sides
<1>4. \A k \in Keys : Filled[k] = Fill(egress[k])
  BY DEF Filled, Fill
<1>5. \A k \in Keys : Rest(k) = <<>>
  BY <1>3 DEF Rest
<1>6. ASSUME NEW k \in Keys
      PROVE  Sound(k, sent[k], Filled[k], got[k], ingress[k], Via(k), bearer, muxer, <<>>)
  <2>1. SoundKey(k)
    BY DEF IInv
  <2> QED BY <1>4, <1>5, <2>1, SoundFill DEF SoundKey
<1>7. /\ Sound(h, sent[h], d, got[h], ingress[h], Via(h), bearer, muxer, Bytes(e.pending[1]))
      /\ Bytes(e.pending[1]) \in Seq(Octets)
  BY <1>2, <1>3, <1>6, SoundTake
<1>8. /\ writing' = [key |-> h, rest |-> Bytes(e.pending[1])]
      /\ egress' = [Filled EXCEPT ![h] = d]
  BY <1>1
<1>9. Filled \in [Keys -> Egress] /\ d \in Egress
  <2>1. \A k \in Keys : Filled[k] \in Egress
    BY <1>6 DEF Sound, Queued
  <2>2. DOMAIN Filled = Keys /\ Filled = [k \in Keys |-> Filled[k]]
    BY DEF Filled
  <2>3. d \in Egress
    BY <1>7 DEF Sound, Queued
  <2> QED BY <2>1, <2>2, <2>3
<1> HIDE DEF h, e, d
<1>10. TypesOK'
  BY <1>2, <1>3, <1>7, <1>8, <1>9 DEF TypesOK, IInv
<1>11. ASSUME NEW k \in Keys PROVE SoundKey(k)'
  <2>1. Via(k)' = Via(k)
    BY <1>3 DEF Via
  <2>2. CASE k = h
    <3>1. Rest(k)' = Bytes(e.pending[1]) /\ egress'[k] = d
      BY <1>2, <1>8, <1>9, <2>2 DEF Rest
    <3> QED BY <1>3, <1>7, <2>1, <2>2, <3>1 DEF SoundKey
  <2>3. CASE k # h
    <3>1. Rest(k)' = <<>> /\ egress'[k] = Filled[k]
      BY <1>8, <1>9, <2>3 DEF Rest
    <3> QED BY <1>3, <1>6, <2>1, <3>1 DEF SoundKey
  <2> QED BY <2>2, <2>3
<1> QED BY <1>10, <1>11 DEF IInv

(* It writes a segment.                                                    *)
LEMMA WriteInvariant ==
    ASSUME Wellformed, IInv, WriteSegment PROVE IInv'
<1> DEFINE rest == writing.rest
           size == Len(rest)
           cut == IF size < SduSize THEN size ELSE SduSize
           h == writing.key
           seg == [key |-> h, payload |-> SubSeq(rest, 1, cut)]
           left == SubSeq(rest, cut + 1, size)
<1>1. TypesOK /\ rest # <<>> /\ h \in Keys /\ rest \in Seq(Octets)
  BY DEF IInv, TypesOK, WriteSegment
<1>2. size \in Nat /\ SduSize \in Nat
  BY <1>1, LenProperties DEF Wellformed
<1>3. cut \in 0..size
  BY SMTT(30), <1>2
<1>4. /\ bearer' = Append(bearer, seg) /\ writing' = [writing EXCEPT !.rest = left]
      /\ muxer = "running"
      /\ UNCHANGED <<egress, sent, ingress, reader, routes, demuxer, muxer, got>>
  BY DEF WriteSegment, sides
<1> HIDE DEF cut
<1>5. SubSeq(rest, 1, cut) \in Seq(Octets) /\ left \in Seq(Octets)
  <2>1. 1 \in Nat /\ cut \in Int /\ cut + 1 \in 1..(size + 1) /\ cut <= size
    BY SMTT(30), <1>2, <1>3
  <2>2. \A i \in 1..cut : rest[i] \in Octets
    BY SMTT(30), <1>1, <1>2, <1>3, ElementOfSeq
  <2>3. \A i \in (cut + 1)..size : rest[i] \in Octets
    BY SMTT(30), <1>1, <1>2, <1>3, ElementOfSeq
  <2> QED BY SMTT(30), <1>1, <1>2, <2>1, <2>2, <2>3, SubSeqProperties
<1>6. seg \in SegmentsOf /\ seg.key = h
  BY <1>1, <1>5 DEF SegmentsOf
<1>7. TypesOK'
  BY <1>1, <1>4, <1>5, <1>6, AppendProperties DEF TypesOK
<1>8. ASSUME NEW k \in Keys PROVE SoundKey(k)'
  <2>1. SoundKey(k) /\ Via(k)' = Via(k)
    BY <1>4 DEF IInv, Via
  <2>2. CASE k = h
    <3>1. Rest(k) = rest /\ Rest(k)' = left
      BY <1>1, <1>4, <2>2 DEF Rest, TypesOK
    <3>2. Sound(k, sent[k], egress[k], got[k], ingress[k], Via(k), Append(bearer, seg), muxer, left)
      <4>1. Sound(k, sent[k], egress[k], got[k], ingress[k], Via(k), bearer, muxer, rest)
        BY <2>1, <3>1 DEF SoundKey
      <4> HIDE DEF rest
      <4>2. Sound(k, sent[k], egress[k], got[k], ingress[k], Via(k),
                  Append(bearer, [key |-> k, payload |-> SubSeq(rest, 1, cut)]), muxer,
                  SubSeq(rest, cut + 1, Len(rest)))
        BY <1>1, <1>3, <1>4, <4>1, SoundWrite
      <4> QED BY <2>2, <4>2
    <3> QED BY <1>4, <2>1, <3>1, <3>2 DEF SoundKey
  <2>3. CASE k # h
    <3>1. Rest(k) = <<>> /\ Rest(k)' = <<>>
      BY <1>1, <1>4, <2>3 DEF Rest, TypesOK
    <3>2. Sound(k, sent[k], egress[k], got[k], ingress[k], Via(k), Append(bearer, seg), muxer, <<>>)
      <4> HIDE DEF seg, h
      <4> QED BY <1>6, <2>1, <2>3, <3>1, FlowWriteOther DEF SoundKey, Sound
    <3> QED BY <1>4, <2>1, <3>1, <3>2 DEF SoundKey
  <2> QED BY <2>2, <2>3
<1> QED BY <1>7, <1>8 DEF IInv

(* The muxer ends, orderly or not.                                         *)
LEMMA MuxerInvariant ==
    ASSUME Wellformed, IInv, MuxerEnds \/ Abort PROVE IInv'
<1>1. PICK n \in 0..Len(bearer) : bearer' = SubSeq(bearer, 1, n)
  <2>1. bearer \in Seq(SegmentsOf)
    BY DEF IInv, TypesOK
  <2>2. Len(bearer) \in 0..Len(bearer) /\ bearer = SubSeq(bearer, 1, Len(bearer))
    BY SMTT(30), <2>1
  <2> QED BY <2>2 DEF MuxerEnds, Abort
<1>2. /\ muxer' # "running"
      /\ UNCHANGED <<egress, writing, sent, ingress, reader, routes, demuxer, got>>
  BY DEF MuxerEnds, Abort, sides
<1>3. SubSeq(bearer, 1, n) \in Seq(SegmentsOf)
  BY SMTT(30) DEF IInv, TypesOK
<1>4. TypesOK'
  BY <1>1, <1>2, <1>3 DEF IInv, TypesOK
<1>5. ASSUME NEW k \in Keys PROVE SoundKey(k)'
  <2>1. SoundKey(k) /\ Via(k)' = Via(k) /\ Rest(k)' = Rest(k)
    BY <1>2 DEF IInv, Via, Rest
  <2>2. Out(sent[k], egress[k]) \in 0..Len(Script(k))
    BY <2>1, SoundIndices DEF SoundKey
  <2>3. Flow(k, Len(got[k]), Out(sent[k], egress[k]), ingress[k].buffer, ingress[k].chunks, Via(k),
             SubSeq(bearer, 1, n), muxer', Rest(k))
    BY <1>2, <2>1, <2>2, FlowStop DEF SoundKey, Sound
  <2> QED BY <1>1, <1>2, <2>1, <2>3 DEF SoundKey, Sound
<1> QED BY <1>4, <1>5 DEF IInv

(* The demuxer routes a segment, or ends at a full channel.                *)
LEMMA DemuxInvariant ==
    ASSUME Wellformed, IInv, Demux PROVE IInv'
<1> DEFINE seg == Head(bearer)
           h == seg.key
           x == seg.payload
           d == [ingress[h] EXCEPT !.chunks = Append(@, x), !.counter = ingress[h].counter + Len(x)]
<1>1. /\ demuxer = "running" /\ bearer # <<>> /\ bearer' = Tail(bearer)
      /\ UNCHANGED <<egress, writing, muxer, reader, sent, got>>
  BY DEF Demux
<1>2. TypesOK /\ bearer \in Seq(SegmentsOf) /\ ingress \in [Keys -> Ingress]
  BY DEF IInv, TypesOK
<1>3. seg \in SegmentsOf /\ h \in Keys /\ Tail(bearer) \in Seq(SegmentsOf)
  <2>1. seg \in SegmentsOf /\ Tail(bearer) \in Seq(SegmentsOf)
    BY <1>1, <1>2, HeadTailProperties
  <2> QED BY <2>1 DEF SegmentsOf
<1>4. \/ h \notin routes /\ UNCHANGED <<routes, ingress, demuxer>>
      \/ demuxer' # "running" /\ UNCHANGED <<routes, ingress>>
      \/ h \in routes /\ ingress' = [ingress EXCEPT ![h] = d] /\ UNCHANGED <<routes, demuxer>>
      \/ routes' = routes \ {h} /\ UNCHANGED <<ingress, demuxer>>
  <2>1. LET size == ingress[h].counter + Len(x)
        IN  \/ h \notin routes /\ UNCHANGED <<routes, ingress, demuxer>>
            \/ demuxer' = "overflow" /\ UNCHANGED <<routes, ingress>>
            \/ demuxer' = "full" /\ UNCHANGED <<routes, ingress>>
            \/ /\ h \in routes /\ UNCHANGED <<routes, demuxer>>
               /\ ingress' = [ingress EXCEPT ![h].chunks = Append(@, x), ![h].counter = size]
            \/ routes' = routes \ {h} /\ UNCHANGED <<ingress, demuxer>>
    BY DEF Demux
  <2>2. [ingress EXCEPT ![h].chunks = Append(@, x), ![h].counter = ingress[h].counter + Len(x)]
          = [ingress EXCEPT ![h] = d]
    BY <1>2, <1>3
  <2> QED BY <2>1, <2>2
<1>5. \A k \in Keys : SoundKey(k) /\ Rest(k)' = Rest(k)
  BY <1>1 DEF IInv, Rest
(* The channels whose demuxer stops, or whose keys are not routed.         *)
<1>6. ASSUME NEW k \in Keys, ingress'[k] = ingress[k], Via(k)' # "running" PROVE SoundKey(k)'
  <2>1. Flow(k, Len(got[k]), Out(sent[k], egress[k]), ingress[k].buffer, ingress[k].chunks, Via(k)',
             bearer', muxer, Rest(k))
    BY <1>5, <1>6, FlowOff DEF SoundKey, Sound
  <2> QED BY <1>1, <1>5, <1>6, <2>1 DEF SoundKey, Sound
(* The other channels that are routed as before.                           *)
<1>7. ASSUME NEW k \in Keys, ingress'[k] = ingress[k], Via(k)' = Via(k), k # h PROVE SoundKey(k)'
  <2>1. Flow(k, Len(got[k]), Out(sent[k], egress[k]), ingress[k].buffer, ingress[k].chunks, Via(k),
             Tail(bearer), muxer, Rest(k))
    BY <1>1, <1>5, <1>7, FlowRouteOther DEF SoundKey, Sound
  <2> QED BY <1>1, <1>5, <1>7, <2>1 DEF SoundKey, Sound
<1>8. CASE h \notin routes /\ UNCHANGED <<routes, ingress, demuxer>>
  <2>1. TypesOK'
    BY <1>1, <1>2, <1>3, <1>8 DEF TypesOK
  <2>2. ASSUME NEW k \in Keys PROVE SoundKey(k)'
    <3>1. CASE k = h
      BY <1>6, <1>8, <3>1 DEF Via
    <3>2. CASE k # h
      BY <1>7, <1>8, <3>2 DEF Via
    <3> QED BY <3>1, <3>2
  <2> QED BY <2>1, <2>2 DEF IInv
<1>9. CASE demuxer' # "running" /\ UNCHANGED <<routes, ingress>>
  <2>1. TypesOK'
    BY <1>1, <1>2, <1>3, <1>9 DEF TypesOK
  <2>2. ASSUME NEW k \in Keys PROVE SoundKey(k)'
    BY <1>6, <1>9 DEF Via
  <2> QED BY <2>1, <2>2 DEF IInv
<1>10. CASE h \in routes /\ ingress' = [ingress EXCEPT ![h] = d] /\ UNCHANGED <<routes, demuxer>>
  <2>1. Sound(h, sent[h], egress[h], got[h], d, Via(h), Tail(bearer), muxer, Rest(h))
    <3>1. Via(h) = "running"
      BY <1>1, <1>10 DEF Via
    <3>2. SoundKey(h)
      BY <1>3, <1>5
    <3> QED BY <1>1, <1>2, <1>3, <3>1, <3>2, SoundRoute DEF SoundKey
  <2>2. d \in Ingress
    BY <2>1 DEF Sound
  <2> HIDE DEF d
  <2>3. TypesOK'
    BY <1>1, <1>2, <1>3, <1>10, <2>2 DEF TypesOK
  <2>4. ASSUME NEW k \in Keys PROVE SoundKey(k)'
    <3>1. Via(k)' = Via(k)
      BY <1>10 DEF Via
    <3>2. CASE k = h
      <4>1. ingress'[k] = d
        BY <1>2, <1>3, <1>10, <3>2
      <4> QED BY <1>1, <1>5, <2>1, <3>1, <3>2, <4>1 DEF SoundKey
    <3>3. CASE k # h
      <4>1. ingress'[k] = ingress[k]
        BY <1>2, <1>3, <1>10, <3>3
      <4> QED BY <1>7, <3>1, <3>3, <4>1
    <3> QED BY <3>2, <3>3
  <2> QED BY <2>3, <2>4 DEF IInv
<1>11. CASE routes' = routes \ {h} /\ UNCHANGED <<ingress, demuxer>>
  <2>1. TypesOK'
    BY <1>1, <1>2, <1>3, <1>11 DEF TypesOK
  <2>2. ASSUME NEW k \in Keys PROVE SoundKey(k)'
    <3>1. CASE k = h
      BY <1>6, <1>11, <3>1 DEF Via
    <3>2. CASE k # h
      BY <1>7, <1>11, <3>2 DEF Via
    <3> QED BY <3>1, <3>2
  <2> QED BY <2>1, <2>2 DEF IInv
<1> QED BY <1>4, <1>8, <1>9, <1>10, <1>11

(* The demuxer ends at the end of the stream or by its timeout.            *)
LEMMA DemuxerEndsInvariant ==
    ASSUME IInv, DemuxEof \/ SduTimeout PROVE IInv'
<1>1. /\ demuxer' # "running"
      /\ UNCHANGED <<egress, writing, muxer, bearer, routes, ingress, reader, sent, got>>
  BY DEF DemuxEof, SduTimeout
<1>2. TypesOK'
  BY <1>1 DEF IInv, TypesOK
<1>3. ASSUME NEW k \in Keys PROVE SoundKey(k)'
  <2>1. SoundKey(k) /\ Via(k)' # "running" /\ Rest(k)' = Rest(k)
    BY <1>1 DEF IInv, Via, Rest
  <2>2. Flow(k, Len(got[k]), Out(sent[k], egress[k]), ingress[k].buffer, ingress[k].chunks, Via(k)',
             bearer, muxer, Rest(k))
    BY <2>1, FlowOff DEF SoundKey, Sound
  <2> QED BY <1>1, <2>1, <2>2 DEF SoundKey, Sound
<1> QED BY <1>2, <1>3 DEF IInv

(* A step of the reader of h, of which its channel or what it got changes. *)
LEMMA ReaderInvariant ==
    ASSUME IInv, NEW h \in Keys, NEW r, NEW d,
           UNCHANGED <<egress, writing, muxer, bearer, routes, demuxer, sent>>,
           reader' \in [Keys -> {"reading", "failed", "shutdown"}],
           got' = [got EXCEPT ![h] = r], ingress' = [ingress EXCEPT ![h] = d],
           Sound(h, sent[h], egress[h], r, d, Via(h), bearer, muxer, Rest(h))
    PROVE  IInv'
<1>1. TypesOK /\ r \in Seq(Messages) /\ d \in Ingress
  BY DEF IInv, Sound, Received
<1>2. TypesOK'
  BY <1>1 DEF TypesOK
<1>3. ASSUME NEW k \in Keys PROVE SoundKey(k)'
  <2>1. SoundKey(k) /\ Via(k)' = Via(k) /\ Rest(k)' = Rest(k)
    BY DEF IInv, Via, Rest
  <2>2. CASE k = h
    <3>1. got'[k] = r /\ ingress'[k] = d
      BY <1>1, <2>2 DEF TypesOK
    <3> QED BY <2>1, <2>2, <3>1 DEF SoundKey
  <2>3. CASE k # h
    <3>1. got'[k] = got[k] /\ ingress'[k] = ingress[k]
      BY <1>1, <2>3 DEF TypesOK
    <3> QED BY <2>1, <3>1 DEF SoundKey
  <2> QED BY <2>2, <2>3
<1> QED BY <1>2, <1>3 DEF IInv

(* The reader of h stops.                                                  *)
LEMMA ReaderEndsInvariant ==
    ASSUME IInv, NEW h \in Keys,
           UNCHANGED <<egress, writing, muxer, bearer, routes, demuxer, sent, got, ingress>>,
           reader' \in [Keys -> {"reading", "failed", "shutdown"}]
    PROVE  IInv'
<1>1. TypesOK'
  BY DEF IInv, TypesOK
<1>2. ASSUME NEW k \in Keys PROVE SoundKey(k)'
  BY DEF IInv, SoundKey, Via, Rest
<1> QED BY <1>1, <1>2 DEF IInv

(* A protocol decodes a message.                                           *)
LEMMA DecodeInvariant ==
    ASSUME Wellformed, IInv, NEW h \in Keys, Decode(h) PROVE IInv'
<1> DEFINE b == ingress[h].buffer
           m == b[1][1]
           d == [ingress[h] EXCEPT !.buffer = SubSeq(b, Size(m) + 1, Len(b))]
<1>1. /\ UNCHANGED <<egress, writing, muxer, bearer, routes, demuxer, sent>>
      /\ Decodable(b)
      /\ \/ /\ got' = [got EXCEPT ![h] = Append(@, m)]
            /\ ingress' = [ingress EXCEPT ![h].buffer = SubSeq(b, Size(m) + 1, Len(b))]
            /\ reader' = reader
         \/ reader' = [reader EXCEPT ![h] = "failed"] /\ UNCHANGED <<got, ingress>>
  BY DEF Decode
<1>2. TypesOK /\ SoundKey(h)
  BY DEF IInv
<1>3. CASE /\ got' = [got EXCEPT ![h] = Append(@, m)]
           /\ ingress' = [ingress EXCEPT ![h].buffer = SubSeq(b, Size(m) + 1, Len(b))]
           /\ reader' = reader
  <2>1. Sound(h, sent[h], egress[h], Append(got[h], m), d, Via(h), bearer, muxer, Rest(h))
    BY <1>1, <1>2, SoundDecode DEF SoundKey
  <2>2. got' = [got EXCEPT ![h] = Append(got[h], m)] /\ ingress' = [ingress EXCEPT ![h] = d]
    BY <1>3
  <2>3. reader' \in [Keys -> {"reading", "failed", "shutdown"}]
    BY <1>2, <1>3 DEF TypesOK
  <2> HIDE DEF d, m, b
  <2> QED BY <1>1, <2>1, <2>2, <2>3, ReaderInvariant
<1>4. CASE reader' = [reader EXCEPT ![h] = "failed"] /\ UNCHANGED <<got, ingress>>
  <2>1. reader' \in [Keys -> {"reading", "failed", "shutdown"}]
    BY <1>2, <1>4 DEF TypesOK
  <2> QED BY <1>1, <1>4, <2>1, ReaderEndsInvariant
<1> QED BY <1>1, <1>3, <1>4

(* A protocol takes a chunk from its channel.                              *)
LEMMA ReceiveInvariant ==
    ASSUME Wellformed, IInv, NEW h \in Keys, Receive(h) PROVE IInv'
<1> DEFINE c == ingress[h].chunks
           d == [chunks |-> Tail(c), counter |-> ingress[h].counter - Len(Head(c)),
                 buffer |-> ingress[h].buffer \o Head(c)]
<1>1. /\ UNCHANGED <<egress, writing, muxer, bearer, routes, demuxer, sent, got>>
      /\ \/ c # <<>> /\ ingress' = [ingress EXCEPT ![h] = d] /\ reader' = reader
         \/ reader' = [reader EXCEPT ![h] = "shutdown"] /\ ingress' = ingress
  BY DEF Receive
<1>2. TypesOK /\ SoundKey(h)
  BY DEF IInv
<1>3. CASE c # <<>> /\ ingress' = [ingress EXCEPT ![h] = d] /\ reader' = reader
  <2>1. Sound(h, sent[h], egress[h], got[h], d, Via(h), bearer, muxer, Rest(h))
    BY <1>2, <1>3, SoundReceive DEF SoundKey
  <2>2. got' = [got EXCEPT ![h] = got[h]]
    BY <1>1, <1>2 DEF TypesOK
  <2>3. reader' \in [Keys -> {"reading", "failed", "shutdown"}]
    BY <1>2, <1>3 DEF TypesOK
  <2> HIDE DEF d
  <2> QED BY <1>1, <1>3, <2>1, <2>2, <2>3, ReaderInvariant
<1>4. CASE reader' = [reader EXCEPT ![h] = "shutdown"] /\ ingress' = ingress
  <2>1. reader' \in [Keys -> {"reading", "failed", "shutdown"}]
    BY <1>2, <1>4 DEF TypesOK
  <2> QED BY <1>1, <1>4, <2>1, ReaderEndsInvariant
<1> QED BY <1>1, <1>3, <1>4

(* The other steps leave the state of IInv alone.                          *)
LEMMA StutterInvariant ==
    ASSUME IInv, UNCHANGED <<egress, writing, muxer, bearer, routes, demuxer, sent, got, ingress, reader>>
    PROVE  IInv'
<1>1. TypesOK'
  BY DEF IInv, TypesOK
<1>2. ASSUME NEW k \in Keys PROVE SoundKey(k)'
  BY DEF IInv, SoundKey, Via, Rest
<1> QED BY <1>1, <1>2 DEF IInv

(* So every step preserves IInv,                                           *)
LEMMA NextInvariant ==
    ASSUME Wellformed, IInv, [Next]_vars PROVE IInv'
<1>1. ASSUME NEW k \in Keys, Send(k) PROVE IInv'
  BY <1>1, SendInvariant
<1>2. ASSUME NEW k \in Keys, DropSender(k) PROVE IInv'
  BY <1>2, StutterInvariant DEF DropSender, sides
<1>3. CASE Schedule
  BY <1>3, ScheduleInvariant
<1>4. CASE WriteSegment
  BY <1>4, WriteInvariant
<1>5. CASE MuxerEnds \/ Abort
  BY <1>5, MuxerInvariant
<1>6. CASE Demux
  BY <1>6, DemuxInvariant
<1>7. CASE DemuxEof \/ SduTimeout
  BY <1>7, DemuxerEndsInvariant
<1>8. ASSUME NEW k \in Keys, Decode(k) PROVE IInv'
  BY <1>8, DecodeInvariant
<1>9. ASSUME NEW k \in Keys, Receive(k) PROVE IInv'
  BY <1>9, ReceiveInvariant
<1>10. ASSUME NEW k \in Keys, DropReader(k) PROVE IInv'
  <2>1. reader' \in [Keys -> {"reading", "failed", "shutdown"}]
    BY <1>10 DEF DropReader, IInv, TypesOK
  <2> QED BY <1>10, <2>1, ReaderEndsInvariant DEF DropReader
<1>11. CASE UNCHANGED vars
  BY <1>11, StutterInvariant DEF vars
<1> QED BY <1>1, <1>2, <1>3, <1>4, <1>5, <1>6, <1>7, <1>8, <1>9, <1>10, <1>11 DEF Next

(* Every byte between the sender and the reader of a key is in the order   *)
(* of the script, and the counter is what the channel holds.               *)
THEOREM MuxInvariant == Wellformed => (Init /\ [][Next]_vars => []IInv)
<1> SUFFICES ASSUME Wellformed PROVE Init /\ [][Next]_vars => []IInv
  OBVIOUS
<1>1. Init => IInv
  BY InitInvariant
<1>2. IInv /\ [Next]_vars => IInv'
  BY NextInvariant
<1> QED BY <1>1, <1>2, PTL

(* CounterExact for every set of protocols, sizes and limits.              *)
THEOREM CounterAlwaysExact == Wellformed => (Init /\ [][Next]_vars => []CounterExact)
<1> SUFFICES ASSUME Wellformed PROVE Init /\ [][Next]_vars => []CounterExact
  OBVIOUS
<1>1. IInv => CounterExact
  BY DEF IInv, SoundKey, Sound, CounterExact
<1> QED BY <1>1, MuxInvariant, PTL

-----------------------------------------------------------------------------
(* The connection implements the FIFO channels, step by step.              *)

Live(k) == /\ k \in Known /\ k \in routes /\ reader[k] = "reading"
           /\ muxer # "aborted" /\ demuxer \in {"running", "eof"}

(* A step that neither sends nor delivers breaks some channels at most.    *)
LEMMA BreakStep ==
    ASSUME UNCHANGED <<sent, got>>, \A k \in Keys : Live(k)' => Live(k)
    PROVE  Ch!Next
<1> DEFINE S == {k \in Keys : ~Live(k)'}
<1>1. S \in SUBSET Keys
  OBVIOUS
<1>2. \A k \in Keys : Live(k)' <=> (Live(k) /\ k \notin S)
  OBVIOUS
<1>3. [k \in Keys |-> Live(k)]' = [k \in Keys |-> [c \in Keys |-> Live(c)][k] /\ k \notin S]
  <2> HIDE DEF S
  <2>1. \A k \in Keys : Live(k)' = (Live(k) /\ k \notin S)
    BY <1>2 DEF Live
  <2> QED BY <2>1
<1> HIDE DEF S
<1>4. PICK T \in SUBSET Keys :
        [k \in Keys |-> Live(k)]' = [k \in Keys |-> [c \in Keys |-> Live(c)][k] /\ k \notin T]
  BY <1>1, <1>3
<1>5. Ch!Break(T)
  BY <1>4 DEF Ch!Break, Live
<1> QED BY <1>5 DEF Ch!Next

(* and is a step of Channels or leaves its state alone.                    *)
LEMMA RefinementStep ==
    ASSUME Wellformed, IInv, [Next]_vars PROVE Ch!Next \/ UNCHANGED Ch!vars
<1>0. TypesOK
  BY DEF IInv
<1>1. ASSUME NEW k \in Keys, Send(k) PROVE Ch!Next
  <2> DEFINE m == Script(k)[Len(sent[k]) + 1]
  <2>1. /\ sent' = [sent EXCEPT ![k] = Append(@, m)] /\ Len(sent[k]) < Len(Script(k))
        /\ UNCHANGED <<got, routes, reader, muxer, demuxer>>
    BY <1>1 DEF Send, sides
  <2>2. m \in Messages
    <3>1. Len(sent[k]) \in Nat
      BY <1>0, LenProperties DEF TypesOK
    <3> QED BY SMTT(30), <2>1, <3>1, ScriptFacts
  <2>3. Ch!Send(k, m)
    BY <2>1 DEF Ch!Send
  <2> QED BY <2>2, <2>3 DEF Ch!Next
<1>2. ASSUME NEW k \in Keys, DropSender(k) PROVE Ch!Next
  BY <1>2, BreakStep DEF DropSender, sides, Live
<1>3. CASE Schedule \/ WriteSegment
  BY <1>3, BreakStep DEF Schedule, WriteSegment, sides, Live
<1>4. CASE MuxerEnds \/ Abort
  BY <1>4, BreakStep DEF MuxerEnds, Abort, sides, Live
<1>5. CASE Demux
  <2>1. UNCHANGED <<sent, got, reader, muxer>> /\ demuxer = "running" /\ routes' \subseteq routes
    BY <1>5 DEF Demux
  <2> QED BY <2>1, BreakStep DEF Live
<1>6. CASE DemuxEof \/ SduTimeout
  BY <1>6, BreakStep DEF DemuxEof, SduTimeout, Live
<1>7. ASSUME NEW k \in Keys, Decode(k) PROVE Ch!Next
  <2> DEFINE b == ingress[k].buffer
             m == b[1][1]
  <2>1. /\ UNCHANGED <<muxer, routes, demuxer, sent>>
        /\ Decodable(b)
        /\ \/ got' = [got EXCEPT ![k] = Append(@, m)] /\ reader' = reader
           \/ reader' = [reader EXCEPT ![k] = "failed"] /\ got' = got
    BY <1>7 DEF Decode
  <2>2. CASE got' = [got EXCEPT ![k] = Append(@, m)] /\ reader' = reader
    <3>1. Len(got[k]) < Len(sent[k]) /\ m = sent[k][Len(got[k]) + 1]
      <4>1. Sound(k, sent[k], egress[k], got[k], ingress[k], Via(k), bearer, muxer, Rest(k))
        BY DEF IInv, SoundKey
      <4> DEFINE d == [ingress[k] EXCEPT !.buffer = SubSeq(b, Size(m) + 1, Len(b))]
      <4>2. /\ Len(got[k]) < Len(sent[k]) /\ m = sent[k][Len(got[k]) + 1] /\ m \in Messages
            /\ Sound(k, sent[k], egress[k], Append(got[k], m), d, Via(k), bearer, muxer, Rest(k))
        BY <2>1, <4>1, SoundDecode
      <4> QED BY <4>2
    <3>2. got' = [got EXCEPT ![k] = Append(@, sent[k][Len(@) + 1])]
      BY <2>2, <3>1
    <3>3. Ch!Deliver(k)
      BY <2>1, <2>2, <3>1, <3>2 DEF Ch!Deliver
    <3> QED BY <3>3 DEF Ch!Next
  <2>3. CASE reader' = [reader EXCEPT ![k] = "failed"] /\ got' = got
    BY <1>0, <2>1, <2>3, BreakStep DEF Live, TypesOK
  <2> QED BY <2>1, <2>2, <2>3
<1>8. ASSUME NEW k \in Keys, Receive(k) PROVE Ch!Next
  <2>1. /\ UNCHANGED <<muxer, routes, demuxer, sent, got>>
        /\ reader' = reader \/ reader' = [reader EXCEPT ![k] = "shutdown"]
    BY <1>8 DEF Receive
  <2>2. \A h \in Keys : reader'[h] = "reading" => reader[h] = "reading"
    BY <1>0, <2>1 DEF TypesOK
  <2> QED BY <2>1, <2>2, BreakStep DEF Live
<1>9. ASSUME NEW k \in Keys, DropReader(k) PROVE Ch!Next
  <2>1. /\ UNCHANGED <<muxer, routes, demuxer, sent, got>> /\ reader' = [reader EXCEPT ![k] = "failed"]
    BY <1>9 DEF DropReader
  <2>2. \A h \in Keys : reader'[h] = "reading" => reader[h] = "reading"
    BY <1>0, <2>1 DEF TypesOK
  <2> QED BY <2>1, <2>2, BreakStep DEF Live
<1>10. CASE UNCHANGED vars
  BY <1>10 DEF vars, Ch!vars
<1> QED BY <1>1, <1>2, <1>3, <1>4, <1>5, <1>6, <1>7, <1>8, <1>9, <1>10 DEF Next

(* Whatever the protocols, the message sizes, the segment size, the queue  *)
(* and ingress limits and the scheduler's weights are, every channel of    *)
(* the connection behaves as a FIFO: Send appends to it, a decoded message *)
(* is the next one sent, and every other step breaks channels at most.     *)
THEOREM ImplementsChannels ==
    Wellformed => (Init /\ [][Next]_vars => Ch!Init /\ [][Ch!Next]_(Ch!vars))
<1> SUFFICES ASSUME Wellformed PROVE Init /\ [][Next]_vars => Ch!Init /\ [][Ch!Next]_(Ch!vars)
  OBVIOUS
<1>1. Init => Ch!Init
  BY DEF Init, Ch!Init
<1>2. IInv /\ [Next]_vars => [Ch!Next]_(Ch!vars)
  BY RefinementStep
<1> QED BY <1>1, <1>2, MuxInvariant, PTL
=============================================================================
