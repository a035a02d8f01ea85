----------------------------- MODULE ChainStore -----------------------------
(***************************************************************************)
(* The in-memory chain store (net-rs/net-core/src/store/chain_store.rs) as *)
(* a data type.  The coordinator appends the blocks that consensus has     *)
(* validated and rolls back; the ChainSync and BlockFetch servers of the   *)
(* peers read.  A store value is a record of                               *)
(*    blocks   the live chain, oldest first                                *)
(*    blockNo  `block_no`, the number of the live tip                      *)
(*    target   `last_rollback_target`, Unset before the first rollback     *)
(*    orphans  `orphan_bodies`, the blocks that left the live chain        *)
(*    anchored `anchored_above_genesis`                                    *)
(*    anchor   `intersection_anchor`, None before it is set                *)
(* A point is a block hash, None is the point Origin.  Headers are parsed. *)
(***************************************************************************)
EXTENDS Blocks, Sequences

CONSTANTS
    Capacity,   \* `capacity`: how many blocks the live chain holds
    OrphanCap   \* ORPHAN_CACHE_CAP

ASSUME CapacityAssumption == Capacity \in Nat \ {0} /\ OrphanCap \in Nat

Unset == -1

Point == Hash \cup {None}

Store ==
    [blocks : Seq(Hash), blockNo : 0..MaxBlockNo, target : Point \cup {Unset},
     orphans : Seq(Hash), anchored : BOOLEAN, anchor : Point]

(* The live chain and the orphans are capped.                              *)
Capped(s) == Len(s.blocks) <= Capacity /\ Len(s.orphans) <= OrphanCap

EmptyStore(anchored) ==
    [blocks |-> <<>>, blockNo |-> 0, target |-> Unset, orphans |-> <<>>,
     anchored |-> anchored, anchor |-> None]

-----------------------------------------------------------------------------
InSeq(h, seq) == \E i \in DOMAIN seq : seq[i] = h

LastOf(seq) == seq[Len(seq)]

(* The last n elements of seq, all of them when it is shorter.             *)
Newest(seq, n) == IF Len(seq) > n THEN SubSeq(seq, Len(seq) - n + 1, Len(seq)) ELSE seq

Oldest(seq, n) == IF Len(seq) > n THEN SubSeq(seq, 1, Len(seq) - n) ELSE <<>>

(* `servable_anchor`: the anchor, while nothing but its child follows it.  *)
ServableAnchor(s) ==
    IF \/ s.blocks = <<>>
       \/ /\ s.anchor # None
          /\ Prev[s.blocks[1]] = s.anchor
          /\ BlockNo[s.anchor] + 1 = BlockNo[s.blocks[1]]
    THEN s.anchor
    ELSE None

(* The point of the live tip: `tip`.                                       *)
TipPoint(s) == IF s.blocks = <<>> THEN ServableAnchor(s) ELSE LastOf(s.blocks)

IsSeeded(s) == ~s.anchored \/ ServableAnchor(s) # None \/ s.blocks # <<>>

(* The live chain starts with the child of genesis: as many blocks as the  *)
(* tip's number says.                                                      *)
RootsAtGenesis(s) ==
    /\ ~s.anchored
    /\ s.anchor = None
    /\ s.blocks = <<>> \/ s.blockNo + 1 = Len(s.blocks)

-----------------------------------------------------------------------------
SetIntersectionAnchor(s, h) ==
    IF h = None \/ ~s.anchored \/ s.blocks # <<>> \/ s.anchor # None
    THEN s
    ELSE [s EXCEPT !.anchor = h, !.blockNo = BlockNo[h]]

(* The store's part of an initial intersection at p: the coordinator knows *)
(* the height when p is the peer's tip.                                    *)
Join(s, p, heightKnown) ==
    LET joined == [s EXCEPT !.anchored = p # None]
    IN  IF heightKnown THEN SetIntersectionAnchor(joined, p) ELSE joined

Accepts(s, h) ==
    /\ ~InSeq(h, s.blocks)
    /\ s.blocks # <<>> => BlockNo[h] > BlockNo[LastOf(s.blocks)]
    /\ \A i \in DOMAIN s.blocks :
          BlockNo[s.blocks[i]] = BlockNo[h] - 1 => Prev[h] = s.blocks[i]

RetainOrphans(orphans, removed) == Newest(orphans \o removed, OrphanCap)

AppendBlock(s, h) ==
    IF ~Accepts(s, h)
    THEN s
    ELSE LET grown == Append(s.blocks, h)
         IN  [s EXCEPT !.blocks = Newest(grown, Capacity),
                       !.blockNo = BlockNo[h],
                       !.orphans = RetainOrphans(@, Oldest(grown, Capacity))]

(* `rollback_to` a point that the store must drop everything for: Origin,  *)
(* or a block before the oldest stored one.                                *)
BeforeWindow(s, p) ==
    \/ p = None
    \/ /\ p # ServableAnchor(s)
       /\ s.blocks # <<>>
       /\ Slot[s.blocks[1]] > Slot[p]

UpTo(seq, p) == SubSeq(seq, 1, CHOOSE i \in DOMAIN seq : seq[i] = p)

After(seq, p) == SubSeq(seq, 1 + (CHOOSE i \in DOMAIN seq : seq[i] = p), Len(seq))

ClearTo(s, p) ==
    [s EXCEPT !.blocks = <<>>, !.target = p, !.orphans = RetainOrphans(@, s.blocks)]

TruncateTo(s, p) ==
    [s EXCEPT !.blocks = UpTo(@, p), !.orphans = RetainOrphans(@, After(s.blocks, p))]

(* The end of `rollback_to`: block_no and target follow the blocks left.   *)
Retarget(s) ==
    IF s.blocks = <<>>
    THEN [s EXCEPT !.blockNo = 0, !.target = None]
    ELSE [s EXCEPT !.blockNo = BlockNo[LastOf(s.blocks)], !.target = LastOf(s.blocks)]

(* Mutant: the live chain is truncated, but the bodies are not retained.   *)
MutRollbackTo(s, p) ==
    IF BeforeWindow(s, p)
    THEN [ClearTo(s, p) EXCEPT !.anchor = None, !.blockNo = 0]
    ELSE IF p = ServableAnchor(s)
    THEN ClearTo(s, p)
    ELSE Retarget(IF InSeq(p, s.blocks) THEN [s EXCEPT !.blocks = UpTo(@, p)] ELSE s)

RollbackTo(s, p) ==
    IF BeforeWindow(s, p)
    THEN [ClearTo(s, p) EXCEPT !.anchor = None, !.blockNo = 0]
    ELSE IF p = ServableAnchor(s)
    THEN ClearTo(s, p)
    ELSE Retarget(IF InSeq(p, s.blocks) THEN TruncateTo(s, p) ELSE s)

-----------------------------------------------------------------------------
(* `find_intersection`: the first of the points that the store can serve   *)
(* from, Unset when there is none.                                         *)
Offers(s, p) ==
    IF p = None THEN RootsAtGenesis(s) ELSE p = ServableAnchor(s) \/ InSeq(p, s.blocks)

FindIntersection(s, points) ==
    LET offered == {i \in DOMAIN points : Offers(s, points[i])}
    IN  IF offered = {} THEN Unset
        ELSE points[CHOOSE i \in offered : \A j \in offered : i <= j]

(* `intersection_candidates`: newest first, at distances 0, 1, 3, 7, ...   *)
(* from the tip, and Origin.                                               *)
IntersectionCandidates(blocks, max) ==
    LET n == Len(blocks)
        depths == {k \in 0..n : 2^k - 1 < n /\ k + 1 < max}
    IN  Append([i \in {k + 1 : k \in depths} |-> blocks[n - (2^(i - 1) - 1)]], None)

AtTip == [kind |-> "at_tip", block |-> None]
Gone == [kind |-> "gone", block |-> None]
NextBlock(h) == [kind |-> "next", block |-> h]

(* Mutant: Origin is served from the front even of a partial chain.        *)
MutNextAfterCursor(s, p) ==
    LET fromFront == p = None \/ p = ServableAnchor(s)
        after == IF fromFront THEN 0 ELSE CHOOSE i \in DOMAIN s.blocks : s.blocks[i] = p
    IN  IF ~fromFront /\ ~InSeq(p, s.blocks) THEN Gone
        ELSE IF after < Len(s.blocks) THEN NextBlock(s.blocks[after + 1])
        ELSE AtTip

(* `next_after_cursor`: what to serve to a follower that has seen p.       *)
NextAfterCursor(s, p) ==
    LET atAnchor == p # None /\ p = ServableAnchor(s)
        fromFront == p = None \/ atAnchor
        after == IF fromFront THEN 0 ELSE CHOOSE i \in DOMAIN s.blocks : s.blocks[i] = p
    IN  IF ~fromFront /\ ~InSeq(p, s.blocks) THEN Gone
        ELSE IF fromFront /\ ~RootsAtGenesis(s) /\ ~atAnchor THEN AtTip
        ELSE IF after < Len(s.blocks) THEN NextBlock(s.blocks[after + 1])
        ELSE AtTip

ServableRollbackTarget(s) ==
    IF s.target = None \/ InSeq(s.target, s.blocks) THEN s.target ELSE ServableAnchor(s)

(* `get_range`, and `get_orphans` for what has left the live chain.        *)
GetRange(s, from, to) ==
    IF ~InSeq(to, s.blocks) THEN <<>>
    ELSE LET prefix == UpTo(s.blocks, to)
         IN  IF InSeq(from, prefix)
             THEN SubSeq(prefix, CHOOSE i \in DOMAIN prefix : prefix[i] = from, Len(prefix))
             ELSE prefix

GetOrphans(s, from, to) ==
    IF from # to THEN <<>> ELSE SelectSeq(s.orphans, LAMBDA b : b = to)
=============================================================================
