--------------------------- MODULE ChainSyncProofs --------------------------
(***************************************************************************)
(* The header served to a follower is the child of the point it was last   *)
(* sent to: for every universe of blocks, every capacity and every         *)
(* interleaving of the coordinator with the server task.                   *)
(***************************************************************************)
EXTENDS ChainSyncServer, SequenceTheorems, TLAPS

(* The leaves go to SMT, and to Zenon where they name it.                  *)
USE SMTT(30)

(* The blocks of seq are consecutive blocks of one chain.                  *)
Linked(seq) == \A i \in 1..(Len(seq) - 1) : Prev[seq[i + 1]] = seq[i]

(* Their numbers grow: at least one per block.                             *)
Spaced(seq) ==
    \A i, j \in 1..Len(seq) : i <= j => BlockNo[seq[j]] >= BlockNo[seq[i]] + (j - i)

IsChain(seq) == seq \in Seq(Hash) /\ Linked(seq) /\ Spaced(seq)

(* The store holds one chain, and block_no is the number of its tip.  With *)
(* `roots_at_genesis`, which compares block_no with the length, the number *)
(* of the tip then tells whether the chain starts at genesis.              *)
StoreInv(s) ==
    /\ s \in Store
    /\ IsChain(s.blocks)
    /\ s.blocks # <<>> => s.blockNo = BlockNo[LastOf(s.blocks)]

-----------------------------------------------------------------------------
(* A contiguous part of a chain is a chain.                                *)
LEMMA SubChain ==
    ASSUME NEW seq, IsChain(seq), NEW m \in 1..(Len(seq) + 1), NEW n \in 0..Len(seq)
    PROVE  IsChain(SubSeq(seq, m, n))
<1> DEFINE sub == SubSeq(seq, m, n)
<1>1. seq \in Seq(Hash) /\ Len(seq) \in Nat
  BY DEF IsChain
<1>2. /\ sub \in Seq(Hash)
      /\ Len(sub) = IF m <= n THEN n - m + 1 ELSE 0
      /\ \A i \in 1..Len(sub) : sub[i] = seq[m + i - 1]
  BY <1>1, SubSeqProperties
<1> HIDE DEF sub
<1>3. Linked(sub)
  <2> SUFFICES ASSUME NEW i \in 1..(Len(sub) - 1)
               PROVE  Prev[sub[i + 1]] = sub[i]
    BY DEF Linked
  <2>1. /\ m + i - 1 \in 1..(Len(seq) - 1)
        /\ sub[i] = seq[m + i - 1] /\ sub[i + 1] = seq[(m + i - 1) + 1]
    BY <1>1, <1>2
  <2> QED BY <2>1 DEF IsChain, Linked
<1>4. Spaced(sub)
  <2> SUFFICES ASSUME NEW i \in 1..Len(sub), NEW j \in 1..Len(sub), i <= j
               PROVE  BlockNo[sub[j]] >= BlockNo[sub[i]] + (j - i)
    BY Zenon DEF Spaced
  <2>1. /\ m + i - 1 \in 1..Len(seq) /\ m + j - 1 \in 1..Len(seq)
        /\ m + i - 1 <= m + j - 1
        /\ (m + j - 1) - (m + i - 1) = j - i
    BY <1>1, <1>2
  <2>2. BlockNo[seq[m + j - 1]] >= BlockNo[seq[m + i - 1]] + ((m + j - 1) - (m + i - 1))
    BY Zenon, <2>1 DEF IsChain, Spaced
  <2> QED BY Zenon, <1>2, <2>1, <2>2
<1> QED BY <1>2, <1>3, <1>4 DEF IsChain, sub

(* A block extends a chain whose tip is its parent.                        *)
LEMMA AppendChain ==
    ASSUME NEW seq, IsChain(seq), NEW h \in Hash,
           seq # <<>> => Prev[h] = LastOf(seq)
    PROVE  IsChain(Append(seq, h))
<1> DEFINE grown == Append(seq, h)
           n == Len(seq)
<1>1. seq \in Seq(Hash) /\ n \in Nat
  BY DEF IsChain
<1>2. /\ grown \in Seq(Hash) /\ Len(grown) = n + 1 /\ grown[n + 1] = h
      /\ \A i \in 1..n : grown[i] = seq[i] /\ seq[i] \in Hash
  BY <1>1, AppendProperties
<1> HIDE DEF grown
<1>3. Linked(grown)
  BY <1>1, <1>2, EmptySeq DEF IsChain, Linked, LastOf
<1>4. Spaced(grown)
  <2> SUFFICES ASSUME NEW i \in 1..(n + 1), NEW j \in 1..(n + 1), i <= j
               PROVE  BlockNo[grown[j]] >= BlockNo[grown[i]] + (j - i)
    BY <1>2 DEF Spaced
  <2>1. \A x \in 1..(n + 1) : BlockNo[grown[x]] \in Nat
    BY <1>1, <1>2, BlockNoAssumption
  <2>2. CASE j <= n
    BY <1>1, <1>2, <2>2 DEF IsChain, Spaced
  <2>3. CASE j = n + 1 /\ i = n + 1
    BY <2>1, <2>3
  <2>4. CASE j = n + 1 /\ i <= n
    <3>1. n \in 1..n /\ seq # <<>> /\ Prev[h] = seq[n]
      BY <1>1, <2>4, EmptySeq DEF LastOf
    <3>2. seq[n] \in Hash /\ seq[n] # None
      BY Zenon, <1>2, <3>1, HashAssumption
    <3>3. BlockNo[seq[n]] < BlockNo[h]
      BY <3>1, <3>2, HeightAssumption
    <3>4. BlockNo[seq[n]] >= BlockNo[seq[i]] + (n - i)
      BY <2>4, <3>1 DEF IsChain, Spaced
    <3>5. /\ BlockNo[h] \in Nat /\ BlockNo[seq[n]] \in Nat /\ BlockNo[seq[i]] \in Nat
          /\ grown[i] = seq[i] /\ grown[j] = h
      BY <1>2, <2>1, <2>4, <3>1, BlockNoAssumption
    <3>6. ASSUME NEW a \in Nat, NEW b \in Nat, NEW c \in Nat, b < c, b >= a + (n - i)
          PROVE  c >= a + ((n + 1) - i)
      BY <1>1, <3>6
    <3>7. BlockNo[h] >= BlockNo[seq[i]] + ((n + 1) - i)
      BY <3>3, <3>4, <3>5, <3>6
    <3> QED BY <2>4, <3>5, <3>7
  <2> QED BY <1>1, <2>2, <2>3, <2>4
<1> QED BY <1>2, <1>3, <1>4 DEF IsChain, grown
-----------------------------------------------------------------------------
(* The values of an empty store have their types.                          *)
LEMMA EmptyTypes == <<>> \in Seq(Hash) /\ 0 \in 0..MaxBlockNo /\ None \in Point
BY BlockNoAssumption DEF Point

(* The empty sequence is a chain.                                          *)
LEMMA NoChain == IsChain(<<>>)
BY DEF IsChain, Linked, Spaced

(* The newest blocks of a chain are a chain with the same end.             *)
LEMMA NewestChain ==
    ASSUME NEW seq, IsChain(seq), NEW n \in Nat \ {0}, seq # <<>>
    PROVE  /\ IsChain(Newest(seq, n))
           /\ Newest(seq, n) # <<>>
           /\ LastOf(Newest(seq, n)) = LastOf(seq)
<1>1. seq \in Seq(Hash) /\ Len(seq) \in Nat \ {0}
  BY EmptySeq DEF IsChain
<1>2. CASE Len(seq) <= n
  BY <1>1, <1>2 DEF Newest
<1>3. CASE Len(seq) > n
  <2> DEFINE m == Len(seq) - n + 1
             sub == SubSeq(seq, m, Len(seq))
  <2>1. m \in 1..(Len(seq) + 1) /\ m <= Len(seq) /\ Len(seq) \in 0..Len(seq)
    BY <1>1, <1>3
  <2>2. IsChain(sub)
    BY <2>1, SubChain
  <2>3. /\ Len(sub) = Len(seq) - m + 1
        /\ \A i \in 1..(Len(seq) - m + 1) : sub[i] = seq[m + i - 1]
    BY <1>1, <2>1, SubSeqProperties
  <2>4. Newest(seq, n) = sub
    BY <1>1, <1>3 DEF Newest
  <2> HIDE DEF sub
  <2>5. Len(sub) = n /\ sub[n] = seq[Len(seq)]
    BY <1>1, <1>3, <2>3
  <2> QED BY <2>2, <2>4, <2>5 DEF LastOf
<1> QED BY <1>1, <1>2, <1>3

(* The orphans never hold more than blocks.                                *)
LEMMA RetainType ==
    ASSUME NEW orphans \in Seq(Hash), NEW removed \in Seq(Hash)
    PROVE  RetainOrphans(orphans, removed) \in Seq(Hash)
<1> DEFINE all == orphans \o removed
<1>1. all \in Seq(Hash) /\ Len(all) \in Nat
  BY ConcatProperties
<1> HIDE DEF all
<1>2. CASE Len(all) > OrphanCap
  <2>1. Len(all) - OrphanCap + 1 \in 1..(Len(all) + 1)
    BY <1>1, <1>2, CapacityAssumption
  <2> QED BY <1>1, <1>2, <2>1, SubSeqProperties DEF RetainOrphans, Newest, all
<1>3. CASE ~(Len(all) > OrphanCap)
  BY <1>1, <1>3 DEF RetainOrphans, Newest, all
<1> QED BY <1>2, <1>3

(* The oldest blocks are blocks of the sequence.                           *)
LEMMA OldestType ==
    ASSUME NEW seq \in Seq(Hash), NEW n \in Nat
    PROVE  Oldest(seq, n) \in Seq(Hash)
<1>1. Len(seq) \in Nat
  OBVIOUS
<1>2. CASE Len(seq) > n
  <2>1. Len(seq) - n \in 0..Len(seq) /\ 1 \in 1..(Len(seq) + 1)
    BY <1>1, <1>2
  <2> QED BY <1>2, <2>1, SubSeqProperties DEF Oldest
<1>3. CASE ~(Len(seq) > n)
  BY <1>3 DEF Oldest
<1> QED BY <1>2, <1>3

-----------------------------------------------------------------------------
(* Appending a block to the chain it extends keeps the store in order.     *)
LEMMA AppendBlockInv ==
    ASSUME NEW s, StoreInv(s), NEW h \in Hash,
           s.blocks # <<>> => Prev[h] = LastOf(s.blocks)
    PROVE  StoreInv(AppendBlock(s, h))
<1>1. CASE ~Accepts(s, h)
  BY <1>1 DEF AppendBlock
<1>2. CASE Accepts(s, h)
  <2> DEFINE grown == Append(s.blocks, h)
             live == Newest(grown, Capacity)
             orphans == RetainOrphans(s.orphans, Oldest(grown, Capacity))
  <2>1. s \in Store /\ IsChain(s.blocks) /\ s.orphans \in Seq(Hash)
    BY DEF StoreInv, Store
  <2>2. IsChain(grown)
    BY <2>1, AppendChain
  <2>3. grown # <<>> /\ LastOf(grown) = h /\ grown \in Seq(Hash)
    BY <2>1, AppendProperties, EmptySeq DEF IsChain, LastOf
  <2> HIDE DEF grown
  <2>4. IsChain(live) /\ LastOf(live) = h
    BY <2>2, <2>3, NewestChain, CapacityAssumption
  <2>5. orphans \in Seq(Hash)
    BY Zenon, <2>1, <2>3, RetainType, OldestType, CapacityAssumption
  <2>6. AppendBlock(s, h) = [s EXCEPT !.blocks = live, !.blockNo = BlockNo[h],
                                      !.orphans = orphans]
    BY <1>2 DEF AppendBlock, grown
  <2>7. BlockNo[h] \in 0..MaxBlockNo
    BY BlockNoAssumption
  <2> HIDE DEF live, orphans
  <2>8. live \in Seq(Hash)
    BY <2>4 DEF IsChain
  <2> DEFINE t == AppendBlock(s, h)
  <2>9. t \in Store /\ t.blocks = live /\ t.blockNo = BlockNo[h]
    BY Zenon, <2>1, <2>5, <2>6, <2>7, <2>8 DEF Store
  <2> QED BY <2>4, <2>9 DEF StoreInv
<1> QED BY <1>1, <1>2
(* Everything dropped: nothing is left to link.                            *)
LEMMA ClearInv ==
    ASSUME NEW s, StoreInv(s), NEW p \in Point
    PROVE  /\ ClearTo(s, p) \in Store
           /\ ClearTo(s, p).blocks = <<>>
           /\ StoreInv(ClearTo(s, p))
<1> DEFINE orphans == RetainOrphans(s.orphans, s.blocks)
<1>1. s \in Store /\ orphans \in Seq(Hash)
  BY RetainType DEF StoreInv, Store
<1>2. ClearTo(s, p) = [s EXCEPT !.blocks = <<>>, !.target = p, !.orphans = orphans]
  BY <1>1 DEF ClearTo, Store
<1> HIDE DEF orphans
<1>3. ClearTo(s, p) \in Store /\ ClearTo(s, p).blocks = <<>>
  BY Zenon, <1>1, <1>2, EmptyTypes DEF Store
<1> QED BY <1>3, NoChain DEF StoreInv

(* What is left below a rollback point is a chain.                         *)
LEMMA TruncateInv ==
    ASSUME NEW s, StoreInv(s), NEW p, InSeq(p, s.blocks)
    PROVE  TruncateTo(s, p) \in Store /\ IsChain(TruncateTo(s, p).blocks)
<1> DEFINE at == CHOOSE i \in DOMAIN s.blocks : s.blocks[i] = p
           orphans == RetainOrphans(s.orphans, After(s.blocks, p))
<1>1. s \in Store /\ IsChain(s.blocks) /\ s.blocks \in Seq(Hash) /\ s.orphans \in Seq(Hash)
  BY DEF StoreInv, Store
<1>2. at \in 1..Len(s.blocks) /\ Len(s.blocks) \in Nat
  BY <1>1 DEF InSeq
<1>3. /\ UpTo(s.blocks, p) = SubSeq(s.blocks, 1, at)
      /\ After(s.blocks, p) = SubSeq(s.blocks, 1 + at, Len(s.blocks))
  BY DEF UpTo, After
<1> HIDE DEF at
<1>4. 1 \in 1..(Len(s.blocks) + 1) /\ at \in 0..Len(s.blocks)
      /\ 1 + at \in 1..(Len(s.blocks) + 1) /\ Len(s.blocks) \in 0..Len(s.blocks)
  BY <1>2
<1>5. IsChain(UpTo(s.blocks, p)) /\ UpTo(s.blocks, p) \in Seq(Hash)
  BY <1>1, <1>3, <1>4, SubChain DEF IsChain
<1>6. After(s.blocks, p) \in Seq(Hash)
  BY <1>1, <1>3, <1>4, SubChain DEF IsChain
<1>7. orphans \in Seq(Hash)
  BY <1>1, <1>6, RetainType
<1>8. TruncateTo(s, p) = [s EXCEPT !.blocks = UpTo(s.blocks, p), !.orphans = orphans]
  BY <1>1 DEF TruncateTo, Store
<1> HIDE DEF orphans
<1> QED BY Zenon, <1>1, <1>5, <1>7, <1>8 DEF Store

(* At the end of a rollback the number is that of the last block.          *)
LEMMA RetargetInv ==
    ASSUME NEW s \in Store, IsChain(s.blocks)
    PROVE  StoreInv(Retarget(s))
<1>1. CASE s.blocks = <<>>
  <2>1. Retarget(s) \in Store /\ Retarget(s).blocks = <<>>
    BY Zenon, <1>1, EmptyTypes DEF Retarget, Store
  <2> QED BY <2>1, NoChain DEF StoreInv
<1>2. CASE s.blocks # <<>>
  <2>1. LastOf(s.blocks) \in Hash
    BY <1>2, EmptySeq DEF IsChain, LastOf
  <2>2. BlockNo[LastOf(s.blocks)] \in 0..MaxBlockNo
    BY <2>1, BlockNoAssumption
  <2>3. /\ Retarget(s) \in Store
        /\ Retarget(s).blocks = s.blocks
        /\ Retarget(s).blockNo = BlockNo[LastOf(s.blocks)]
    BY Zenon, <1>2, <2>1, <2>2 DEF Retarget, Store, Point
  <2> QED BY <2>3 DEF StoreInv
<1> QED BY <1>1, <1>2

(* A rollback keeps the store in order.                                    *)
LEMMA RollbackInv ==
    ASSUME NEW s, StoreInv(s), NEW p \in Point
    PROVE  StoreInv(RollbackTo(s, p))
<1>1. CASE BeforeWindow(s, p)
  <2> DEFINE c == ClearTo(s, p)
             t == [c EXCEPT !.anchor = None, !.blockNo = 0]
  <2>0. c \in Store /\ c.blocks = <<>>
    BY ClearInv
  <2> HIDE DEF c
  <2>1. t \in Store /\ t.blocks = <<>>
    BY Zenon, <2>0, EmptyTypes DEF Store
  <2>2. RollbackTo(s, p) = t
    BY <1>1 DEF RollbackTo, c
  <2> QED BY <2>1, <2>2, NoChain DEF StoreInv
<1>2. CASE ~BeforeWindow(s, p) /\ p = ServableAnchor(s)
  BY <1>2, ClearInv DEF RollbackTo
<1>3. CASE ~BeforeWindow(s, p) /\ p # ServableAnchor(s) /\ InSeq(p, s.blocks)
  BY <1>3, TruncateInv, RetargetInv DEF RollbackTo
<1>4. CASE ~BeforeWindow(s, p) /\ p # ServableAnchor(s) /\ ~InSeq(p, s.blocks)
  BY <1>4, RetargetInv DEF RollbackTo, StoreInv
<1> QED BY <1>1, <1>2, <1>3, <1>4

(* Joining at an intersection keeps the store in order.                    *)
LEMMA JoinInv ==
    ASSUME NEW s, StoreInv(s), NEW p \in Point, NEW heightKnown \in BOOLEAN
    PROVE  StoreInv(Join(s, p, heightKnown))
<1> DEFINE joined == [s EXCEPT !.anchored = p # None]
           seeded == [joined EXCEPT !.anchor = p, !.blockNo = BlockNo[p]]
<1>1. joined \in Store /\ joined.blocks = s.blocks /\ joined.blockNo = s.blockNo
  BY Zenon DEF StoreInv, Store
<1>2. StoreInv(joined)
  BY <1>1 DEF StoreInv
<1>3. CASE Join(s, p, heightKnown) = joined
  BY <1>2, <1>3
<1>4. CASE p # None /\ s.blocks = <<>> /\ Join(s, p, heightKnown) = seeded
  <2>1. BlockNo[p] \in 0..MaxBlockNo
    BY <1>4, BlockNoAssumption DEF Point
  <2>2. seeded \in Store /\ seeded.blocks = <<>>
    BY Zenon, <1>1, <1>4, <2>1 DEF Store
  <2> QED BY <1>4, <2>2, NoChain DEF StoreInv
<1>5. \/ Join(s, p, heightKnown) = joined
      \/ p # None /\ joined.blocks = <<>> /\ Join(s, p, heightKnown) = seeded
  BY DEF Join, SetIntersectionAnchor
<1> QED BY <1>1, <1>3, <1>4, <1>5

-----------------------------------------------------------------------------
(* A live chain whose length is its tip's number plus one starts with a    *)
(* child of genesis: its numbers are then exactly 0, 1, 2, ...             *)
LEMMA GenesisFront ==
    ASSUME NEW s, StoreInv(s), s.blocks # <<>>, s.blockNo + 1 = Len(s.blocks)
    PROVE  Prev[s.blocks[1]] = None
<1> DEFINE n == Len(s.blocks)
<1>1. IsChain(s.blocks) /\ s.blocks \in Seq(Hash) /\ n \in Nat \ {0}
  BY EmptySeq DEF StoreInv, IsChain
<1>2. 1 \in 1..n /\ n \in 1..n /\ s.blocks[1] \in Hash /\ s.blocks[n] \in Hash
  BY <1>1
<1>3. BlockNo[s.blocks[n]] >= BlockNo[s.blocks[1]] + (n - 1)
  BY <1>1, <1>2 DEF IsChain, Spaced
<1>4. BlockNo[s.blocks[n]] = n - 1
  BY <1>1 DEF StoreInv, Store, LastOf
<1>5. BlockNo[s.blocks[1]] = 0
  BY <1>1, <1>2, <1>3, <1>4, BlockNoAssumption
<1>6. ~(BlockNo[Prev[s.blocks[1]]] < 0) \/ Prev[s.blocks[1]] = None
  BY <1>2, PrevAssumption, BlockNoAssumption
<1> QED BY <1>2, <1>5, <1>6, HeightAssumption

(* What `next_after_cursor` serves is the child of the cursor.             *)
LEMMA ServedLinks ==
    ASSUME NEW s, StoreInv(s), NEW p, NextAfterCursor(s, p).kind = "next"
    PROVE  Prev[NextAfterCursor(s, p).block] = p
<1> DEFINE n == Len(s.blocks)
           at == CHOOSE i \in DOMAIN s.blocks : s.blocks[i] = p
           atAnchor == p # None /\ p = ServableAnchor(s)
           fromFront == p = None \/ atAnchor
<1>1. IsChain(s.blocks) /\ s.blocks \in Seq(Hash) /\ n \in Nat
  BY DEF StoreInv, IsChain
<1>2. CASE fromFront
  <2>1. /\ RootsAtGenesis(s) \/ atAnchor
        /\ 0 < n
        /\ NextAfterCursor(s, p).block = s.blocks[1]
    BY <1>2 DEF NextAfterCursor, AtTip, Gone, NextBlock
  <2>2. s.blocks # <<>>
    BY <2>1
  <2>3. CASE atAnchor
    BY <2>1, <2>2, <2>3 DEF ServableAnchor
  <2>4. CASE ~atAnchor
    BY <1>2, <2>1, <2>2, <2>4, GenesisFront DEF RootsAtGenesis
  <2> QED BY <2>3, <2>4
<1>3. CASE ~fromFront
  <2>1. /\ InSeq(p, s.blocks)
        /\ at < n
        /\ NextAfterCursor(s, p).block = s.blocks[at + 1]
    BY <1>3 DEF NextAfterCursor, AtTip, Gone, NextBlock
  <2>2. at \in 1..n /\ s.blocks[at] = p
    BY <1>1, <2>1 DEF InSeq
  <2> HIDE DEF at
  <2>3. at \in 1..(n - 1)
    BY <1>1, <2>1, <2>2
  <2> QED BY <1>1, <2>1, <2>2, <2>3 DEF IsChain, Linked
<1> QED BY <1>2, <1>3

-----------------------------------------------------------------------------
StoreOK == StoreInv(store)

(* The store holds one chain throughout.                                   *)
LEMMA StoreInvariant == Spec => []StoreOK
<1>1. Init => StoreOK
  <2> SUFFICES ASSUME NEW anchored \in BOOLEAN
               PROVE  StoreInv(EmptyStore(anchored))
    BY DEF Init, StoreOK
  <2>1. EmptyStore(anchored) \in Store /\ EmptyStore(anchored).blocks = <<>>
    BY EmptyTypes DEF EmptyStore, Store
  <2> QED BY <2>1, NoChain DEF StoreInv
<1>2. StoreOK /\ [Next]_vars => StoreOK'
  <2> SUFFICES ASSUME StoreInv(store), [Next]_vars
               PROVE  StoreInv(store')
    BY DEF StoreOK
  <2>1. ASSUME NEW h \in Hash, InjectBlock(h)
        PROVE  StoreInv(store')
    BY <2>1, AppendBlockInv DEF InjectBlock, Extends, TipPoint
  <2>2. ASSUME NEW p \in Point, InjectRollback(p)
        PROVE  StoreInv(store')
    BY <2>2, RollbackInv DEF InjectRollback
  <2>3. ASSUME NEW p \in JoinPoints, NEW heightKnown \in BOOLEAN, IntersectionFound(p, heightKnown)
        PROVE  StoreInv(store')
    BY <2>3, JoinInv, JoinAssumption DEF IntersectionFound
  <2>4. CASE UNCHANGED store
    BY <2>4
  <2>5. ASSUME NEW own \in OwnChains, FindIntersect(own)
        PROVE  UNCHANGED store
    BY <2>5 DEF FindIntersect
  <2>6. ASSUME Task
        PROVE  UNCHANGED store
    BY <2>6 DEF Task, Unpark, ParkTimeout, AnswerIntersect, RequestNext, Awaken, Resolve,
                SendRollForward, SendRollBackward
  <2> QED BY <2>1, <2>2, <2>3, <2>4, <2>5, <2>6 DEF Next, vars
<1> QED BY <1>1, <1>2, PTL DEF Spec

(* Every header served is the child of the point the follower was last     *)
(* sent to (`serve_chainsync`), for every universe of blocks, capacity and *)
(* interleaving of evictions, rollbacks and joins with the requests.       *)
THEOREM ForwardLinksHolds == Spec => ForwardLinks
<1>1. StoreOK /\ [Next]_vars
        => [pc # "forward" /\ pc' = "forward" => Prev[cursor'] = cursor]_vars
  <2> SUFFICES ASSUME StoreInv(store), Next, pc # "forward", pc' = "forward"
               PROVE  Prev[cursor'] = cursor
    BY DEF StoreOK
  <2>1. Resolve
    BY DEF Next, InjectBlock, InjectRollback, IntersectionFound, FindIntersect, Task, Unpark,
           ParkTimeout, AnswerIntersect, RequestNext, Awaken, SendRollForward,
           SendRollBackward, taskVars
  <2>2. /\ NextAfterCursor(store, cursor).kind \in {"gone", "next", "at_tip"}
        /\ pc' = CASE NextAfterCursor(store, cursor).kind = "gone" -> "rollback"
                    [] NextAfterCursor(store, cursor).kind = "next" -> "forward"
                    [] NextAfterCursor(store, cursor).kind = "at_tip" -> "await"
    BY <2>1 DEF Resolve, NextAfterCursor, AtTip, Gone, NextBlock
  <2>3. NextAfterCursor(store, cursor).kind = "next"
    BY <2>2
  <2>4. cursor' = NextAfterCursor(store, cursor).block
    BY <2>1, <2>3 DEF Resolve
  <2> QED BY <2>3, <2>4, ServedLinks
<1> QED BY <1>1, StoreInvariant, PTL DEF Spec, ForwardLinks
=============================================================================
