--------------------------- MODULE ChainTreeSpec ----------------------------
(***************************************************************************)
(* The chain tree under any sequence of calls of its mutating methods, in  *)
(* any order: headers inserted parents first or children first, sync       *)
(* anchors, blacklist changes, pruning below the security window and the   *)
(* removal of an abandoned suffix.                                         *)
(*                                                                         *)
(* The theorems below hold for every universe of blocks and every order of *)
(* calls.                                                                  *)
(***************************************************************************)
EXTENDS ChainTree, WellFoundedInduction, TLAPS

VARIABLE tree

vars == <<tree>>

Init == tree = EmptyTree

InsertBlock(h) == tree' = Insert(tree, h)

InsertAnchor(h, heightKnown) == tree' = InsertChainStart(tree, h, heightKnown)

SetBlacklist(B) == tree' = UpdateBlacklist(tree, B)

Prune(min) == tree' = PruneBelow(tree, min)

Abandon(no) == tree' = RemoveAbove(tree, no)

Heights == {BlockNo[h] : h \in Hash}

Next ==
    \/ \E h \in Hash : InsertBlock(h)
    \/ \E h \in Hash, heightKnown \in BOOLEAN : InsertAnchor(h, heightKnown)
    \/ \E B \in SUBSET Hash : SetBlacklist(B)
    \/ \E min \in Heights : Prune(min)
    \/ \E no \in Heights : Abandon(no)

Spec == Init /\ [][Next]_vars

-----------------------------------------------------------------------------
(* The tree is a tree value; roots are nodes and only roots lack a height. *)
TypeOK ==
    /\ tree \in Tree
    /\ tree.heightless \subseteq tree.roots
    /\ tree.roots \subseteq tree.nodes

(* The cached best tip is what a scan of the whole tree would find: the    *)
(* highest block that is neither blacklisted nor an heir of a blacklisted  *)
(* block, lower hash first.  The code keeps it up to date incrementally in *)
(* `update_best_tip` and skips the scan in `prune_below` when it believes  *)
(* that the cache cannot have changed.                                     *)
BestTipAccurate ==
    IF tree.best = None THEN Eligible(tree) = {} ELSE IsBest(tree, tree.best)

(* Pruning old blocks frees an heir of a blacklisted block only by         *)
(* dropping a blacklisted block (`prune_below`: "descendant tips may       *)
(* become newly eligible").                                                *)
PruneKeepsTaint ==
    [][ (/\ tree'.nodes \subseteq tree.nodes
         /\ tree'.blacklist = tree.blacklist
         /\ tree.blacklist \cap (tree.nodes \ tree'.nodes) = {})
        => Eligible(tree') \subseteq Eligible(tree) ]_vars

-----------------------------------------------------------------------------
(* The proofs.                                                             *)

WellFormed(t) ==
    /\ t \in Tree
    /\ t.heightless \subseteq t.roots
    /\ t.roots \subseteq t.nodes

(* The cache of t is accurate.                                             *)
Accurate(t) == IF t.best = None THEN Eligible(t) = {} ELSE IsBest(t, t.best)

-----------------------------------------------------------------------------
(* A nonempty set of natural numbers has a least element.                  *)
LEMMA NatMin ==
    ASSUME NEW T \in SUBSET Nat, T # {}
    PROVE  \E m \in T : \A y \in T : m <= y
<1>1. PICK m \in T : \A y \in T : ~(<<y, m>> \in OpToRel(<, Nat))
  BY Zenon, NatLessThanWellFounded, WFMin
<1>2. \A y \in T : y < m => <<y, m>> \in OpToRel(<, Nat)
  BY Zenon DEF OpToRel
<1>3. \A y \in T : ~(y < m)
  BY <1>1, <1>2, Zenon
<1>4. \A y \in T : m <= y
  BY <1>3
<1> QED BY <1>4

(* The number a block counts as is a block number.                         *)
LEMMA NumberType ==
    ASSUME NEW t, NEW h \in Hash
    PROVE  NumberOf(t, h) \in 0..MaxBlockNo
BY BlockNoAssumption DEF NumberOf

(* A tree with an eligible block has a best one.                           *)
LEMMA BestExists ==
    ASSUME NEW t, t.nodes \subseteq Hash, Eligible(t) # {}
    PROVE  \E h \in Hash : IsBest(t, h)
<1> DEFINE Gap(h) == MaxBlockNo - NumberOf(t, h)
           Gaps == {Gap(h) : h \in Eligible(t)}
<1>1. Eligible(t) \subseteq Hash
  BY DEF Eligible
<1>2. Gaps \in SUBSET Nat /\ Gaps # {}
  BY <1>1, NumberType, BlockNoAssumption
<1>3. PICK m \in Gaps : \A y \in Gaps : m <= y
  BY Zenon, <1>2, NatMin
<1> DEFINE Top == {h \in Eligible(t) : Gap(h) = m}
<1>4. Top \in SUBSET Nat /\ Top # {}
  BY Zenon, <1>1, HashAssumption
<1>5. PICK h \in Top : \A g \in Top : h <= g
  BY Zenon, <1>4, NatMin
<1>6. ASSUME NEW g \in Eligible(t) \ {h}
      PROVE  BetterIn(t, h, g)
  <2>1. Gap(h) <= Gap(g) /\ (Gap(h) = Gap(g) => h <= g)
    BY <1>3, <1>5
  <2>2. h \in Hash /\ g \in Hash
    BY <1>1
  <2>3. NumberOf(t, h) \in 0..MaxBlockNo /\ NumberOf(t, g) \in 0..MaxBlockNo
    BY <2>2, NumberType
  <2>4. h \in Nat /\ g \in Nat
    BY <2>2, HashAssumption
  <2> QED BY <2>1, <2>3, <2>4, BlockNoAssumption DEF BetterIn, IsBetterTip
<1> QED BY <1>1, <1>6 DEF IsBest

(* A full scan finds the best tip.                                         *)
LEMMA RecomputeAccurate ==
    ASSUME NEW t \in Tree
    PROVE  /\ RecomputeBestTip(t) \in Tree
           /\ Accurate(RecomputeBestTip(t))
<1> DEFINE r == RecomputeBestTip(t)
<1>1. Eligible(t) # {} => BestEligible(t) \in Hash /\ IsBest(t, BestEligible(t))
  <2> SUFFICES ASSUME Eligible(t) # {}
               PROVE  BestEligible(t) \in Hash /\ IsBest(t, BestEligible(t))
    OBVIOUS
  <2>1. \E h \in Hash : IsBest(t, h)
    BY BestExists DEF Tree
  <2> QED BY <2>1 DEF BestEligible
<1>2. Eligible(t) = {} => BestEligible(t) = None
  BY DEF BestEligible
<1>3. r \in Tree /\ r.best = BestEligible(t)
  BY <1>1, <1>2 DEF RecomputeBestTip, Tree
<1>4. Eligible(r) = Eligible(t)
  BY DEF RecomputeBestTip, Tree, Eligible, IsBlacklisted, Ancestors
<1>5. \A h : IsBest(r, h) <=> IsBest(t, h)
  BY <1>4 DEF IsBest, BetterIn, NumberOf, RecomputeBestTip, Tree
<1> QED BY Zenon, <1>1, <1>2, <1>3, <1>4, <1>5, HashAssumption DEF Accurate

-----------------------------------------------------------------------------
(* Adding a node: what an heir loses and what it keeps.                    *)

(* u is t with the new node h, as a normal block or as a root.             *)
Grown(t, u, h) ==
    /\ t \in Tree /\ u \in Tree
    /\ h \in Hash \ t.nodes
    /\ u.nodes = t.nodes \cup {h}
    /\ u.roots \ {h} = t.roots \ {h}
    /\ u.heightless \ {h} = t.heightless \ {h}
    /\ u.blacklist = t.blacklist
    /\ u.best = t.best

(* An insert takes no ancestor from a block.                               *)
LEMMA AncestorsGrow ==
    ASSUME NEW t, NEW u, NEW h, Grown(t, u, h), NEW g \in t.nodes
    PROVE  Ancestors(t, g) \subseteq Ancestors(u, g)
BY DEF Grown, Ancestors, Tree

(* A chain through h that reaches a in u makes a an ancestor of h.         *)
LEMMA AncestorsThrough ==
    ASSUME NEW t, NEW u, NEW h, Grown(t, u, h), NEW g \in t.nodes,
           NEW a \in Ancestors(u, g), h \in Segment(a, g)
    PROVE  a \in Ancestors(u, h)
<1>1. g \in Hash /\ h \in Hash /\ h \in Anc[g] /\ a \in Anc[h]
  BY DEF Grown, Tree, Segment
<1>2. Segment(a, h) \subseteq Segment(a, g)
  BY <1>1, AncAssumption DEF Segment
<1>3. \A x \in Segment(a, g) :
        /\ x = g \/ x \in u.nodes
        /\ x = a \/ x \in u.nodes \ u.roots
  BY DEF Ancestors
<1>4. g \in u.nodes
  BY DEF Grown
<1> QED BY <1>1, <1>2, <1>3, <1>4 DEF Ancestors

(* When the new node is not tainted, no other block changes its taint.     *)
LEMMA GrowCleanTaint ==
    ASSUME NEW t, NEW u, NEW h, Grown(t, u, h), ~IsBlacklisted(u, h),
           NEW g \in t.nodes
    PROVE  IsBlacklisted(u, g) <=> IsBlacklisted(t, g)
<1>1. u.blacklist = t.blacklist
  BY DEF Grown
<1>2. IsBlacklisted(t, g) => IsBlacklisted(u, g)
  BY <1>1, AncestorsGrow DEF IsBlacklisted
<1>3. ASSUME IsBlacklisted(u, g)
      PROVE  IsBlacklisted(t, g)
  <2>1. PICK a \in Ancestors(u, g) : a \in u.blacklist
    BY <1>3 DEF IsBlacklisted
  <2>2. h \notin Segment(a, g)
    BY <2>1, AncestorsThrough DEF IsBlacklisted
  <2>3. a \in Ancestors(t, g)
    BY <2>2 DEF Ancestors, Grown, Tree
  <2> QED BY <2>1, <2>3, <1>1 DEF IsBlacklisted
<1> QED BY <1>2, <1>3

(* An insert that grows the tree changes no number.                        *)
LEMMA GrowNumbers ==
    ASSUME NEW t, NEW u, NEW h, Grown(t, u, h), NEW g \in t.nodes
    PROVE  NumberOf(u, g) = NumberOf(t, g)
BY DEF Grown, NumberOf, Tree

(* The comparison of tips is transitive ...                                *)
LEMMA BetterTransitive ==
    ASSUME NEW t, NEW a \in Hash, NEW b \in Hash, NEW c \in Hash,
           BetterIn(t, a, b), BetterIn(t, b, c)
    PROVE  BetterIn(t, a, c)
<1>1. NumberOf(t, a) \in Int /\ NumberOf(t, b) \in Int /\ NumberOf(t, c) \in Int
  BY NumberType, BlockNoAssumption
<1> QED BY <1>1, HashAssumption DEF BetterIn, IsBetterTip

(* ... and total.                                                          *)
LEMMA BetterTotal ==
    ASSUME NEW t, NEW a \in Hash, NEW b \in Hash, a # b, ~BetterIn(t, a, b)
    PROVE  BetterIn(t, b, a)
<1>1. NumberOf(t, a) \in Int /\ NumberOf(t, b) \in Int
  BY NumberType, BlockNoAssumption
<1> QED BY <1>1, HashAssumption DEF BetterIn, IsBetterTip

(* `update_best_tip` restores the accuracy of the cache after an insert.   *)
LEMMA UpdateAccurate ==
    ASSUME NEW t, NEW u, NEW h, Grown(t, u, h), Accurate(t)
    PROVE  UpdateBestTip(u, h) \in Tree /\ Accurate(UpdateBestTip(u, h))
<1> DEFINE r == UpdateBestTip(u, h)
<1>0. u \in Tree /\ u.best = t.best /\ h \in Hash /\ t.nodes \subseteq Hash
  BY DEF Grown, Tree
<1>1. \A g, x \in t.nodes : BetterIn(u, g, x) <=> BetterIn(t, g, x)
  BY GrowNumbers DEF BetterIn
<1>2. t.best # None => t.best \in t.nodes
  BY DEF Accurate, IsBest, Eligible
<1>3. CASE IsBlacklisted(u, h)
  <2>1. CASE u.best # None /\ IsBlacklisted(u, u.best)
    BY <1>0, <1>3, <2>1, RecomputeAccurate DEF UpdateBestTip
  <2>2. CASE ~(u.best # None /\ IsBlacklisted(u, u.best))
    <3>1. r = u
      BY <1>3, <2>2 DEF UpdateBestTip
    <3>2. Eligible(u) \subseteq Eligible(t)
      <4>1. \A g \in t.nodes : IsBlacklisted(t, g) => IsBlacklisted(u, g)
        BY AncestorsGrow DEF IsBlacklisted, Grown
      <4> QED BY <4>1, <1>3 DEF Eligible, Grown
    <3>3. CASE u.best = None
      BY <3>1, <3>2, <3>3, <1>0 DEF Accurate
    <3>4. CASE u.best # None
      <4>1. u.best \in Eligible(u)
        BY <3>4, <2>2, <1>0, <1>2 DEF Eligible, Grown
      <4>2. \A g \in Eligible(u) \ {u.best} : BetterIn(u, u.best, g)
        BY <3>2, <3>4, <1>0, <1>1, <1>2 DEF Accurate, IsBest, Eligible
      <4> QED BY <3>1, <3>4, <4>1, <4>2, <1>0 DEF Accurate, IsBest
    <3> QED BY <3>3, <3>4
  <2> QED BY <2>1, <2>2
<1>4. CASE ~IsBlacklisted(u, h)
  <2>1. Eligible(u) = Eligible(t) \cup {h}
    BY <1>4, GrowCleanTaint DEF Eligible, Grown
  <2>2. h \notin t.nodes /\ h # None
    BY HashAssumption DEF Grown
  <2>3. CASE u.best = None
    <3>1. r = [u EXCEPT !.best = h]
      BY <1>4, <2>3 DEF UpdateBestTip
    <3>2. Eligible(u) = {h}
      BY <2>1, <2>3, <1>0 DEF Accurate
    <3>3. r \in Tree /\ r.best = h /\ Eligible(r) = Eligible(u)
      BY <3>1, <1>0 DEF Tree, Eligible, IsBlacklisted, Ancestors
    <3> QED BY <3>2, <3>3, <2>2 DEF Accurate, IsBest
  <2>4. CASE u.best # None /\ BetterIn(u, h, u.best)
    <3>1. r = [u EXCEPT !.best = h]
      BY <1>4, <2>4 DEF UpdateBestTip
    <3>2. r \in Tree /\ r.best = h /\ Eligible(r) = Eligible(u)
      BY <3>1, <1>0 DEF Tree, Eligible, IsBlacklisted, Ancestors
    <3>3. ASSUME NEW g \in Eligible(u) \ {h}
          PROVE  BetterIn(u, h, g)
      <4>1. g \in Eligible(t) /\ g \in t.nodes /\ g \in Hash
        BY <2>1, <1>0 DEF Eligible
      <4>2. g = u.best \/ BetterIn(u, u.best, g)
        BY <4>1, <2>4, <1>0, <1>1, <1>2 DEF Accurate, IsBest
      <4> QED BY <4>1, <4>2, <2>4, <1>0, <1>2, BetterTransitive
    <3>4. \A g, x : BetterIn(r, g, x) <=> BetterIn(u, g, x)
      BY <3>1, <1>0 DEF BetterIn, NumberOf, Tree
    <3> QED BY <3>2, <3>3, <3>4, <2>1, <2>2 DEF Accurate, IsBest
  <2>5. CASE u.best # None /\ ~BetterIn(u, h, u.best)
    <3>1. r = u
      BY <1>4, <2>5 DEF UpdateBestTip
    <3>2. BetterIn(u, u.best, h)
      BY <2>5, <2>2, <1>0, <1>2, BetterTotal
    <3>3. u.best \in Eligible(u)
      BY <2>1, <2>5, <1>0 DEF Accurate, IsBest
    <3>4. \A g \in Eligible(u) \ {u.best} : BetterIn(u, u.best, g)
      BY <3>2, <2>1, <2>5, <1>0, <1>1, <1>2 DEF Accurate, IsBest, Eligible
    <3> QED BY <3>1, <3>3, <3>4, <2>5, <1>0 DEF Accurate, IsBest
  <2> QED BY <2>3, <2>4, <2>5
<1> QED BY <1>3, <1>4

-----------------------------------------------------------------------------
(* Dropping nodes.                                                         *)

(* A tainted block that stays keeps its taint when everything dropped is   *)
(* lower than what stays and no blacklisted block is dropped.              *)
LEMMA DropKeepsTaint ==
    ASSUME NEW t \in Tree, t.heightless \subseteq t.roots, NEW D \in SUBSET t.nodes,
           t.blacklist \cap D = {},
           \A d \in D, k \in t.nodes \ D : NumberOf(t, d) < NumberOf(t, k),
           NEW g \in t.nodes \ D, IsBlacklisted(t, g)
    PROVE  IsBlacklisted(Drop(t, D), g)
<1> DEFINE u == Drop(t, D)
<1>1. u.nodes = t.nodes \ D /\ u.roots = t.roots \ D /\ u.blacklist = t.blacklist
  BY DEF Drop, Tree
<1>2. PICK a \in Ancestors(t, g) : a \in t.blacklist
  BY DEF IsBlacklisted
<1>3. g \in Hash /\ a \in t.nodes \ D /\ a \in Hash
  BY <1>2, AncAssumption DEF Ancestors, Segment, Tree
<1>4. ASSUME NEW x \in Segment(a, g)
      PROVE  x \notin D
  <2>1. x \in Hash /\ a \in Anc[x] /\ x \in t.nodes
    BY <1>2, <1>3, AncAssumption DEF Ancestors, Segment
  <2>2. CASE x = a
    BY <2>2, <1>3
  <2>3. CASE x # a
    <3>1. x \in t.nodes \ t.roots /\ BlockNo[a] < BlockNo[x]
      BY <2>1, <2>3, <1>2, HeightAssumption DEF Ancestors
    <3>2. NumberOf(t, x) = BlockNo[x] /\ NumberOf(t, a) \in {0, BlockNo[a]}
      BY <3>1 DEF NumberOf
    <3>3. NumberOf(t, a) < NumberOf(t, x)
      BY <3>1, <3>2, <2>1, <1>3, BlockNoAssumption
    <3>4. NumberOf(t, a) \in Int /\ NumberOf(t, x) \in Int
      BY <2>1, <1>3, NumberType, BlockNoAssumption
    <3> QED BY <3>3, <3>4, <1>3
  <2> QED BY <2>2, <2>3
<1>5. a \in Ancestors(u, g)
  BY <1>1, <1>2, <1>4 DEF Ancestors
<1> QED BY <1>1, <1>2, <1>5 DEF IsBlacklisted

(* ... and when everything dropped is higher than what stays.              *)
LEMMA DropAboveKeepsTaint ==
    ASSUME NEW t \in Tree, t.heightless \subseteq t.roots, NEW D \in SUBSET t.nodes,
           \A d \in D, k \in t.nodes \ D : NumberOf(t, k) < NumberOf(t, d),
           NEW g \in t.nodes \ D, IsBlacklisted(t, g)
    PROVE  IsBlacklisted(Drop(t, D), g)
<1> DEFINE u == Drop(t, D)
<1>1. u.nodes = t.nodes \ D /\ u.roots = t.roots \ D /\ u.blacklist = t.blacklist
  BY DEF Drop, Tree
<1>2. PICK a \in Ancestors(t, g) : a \in t.blacklist
  BY DEF IsBlacklisted
<1>3. g \in Hash /\ a \in Anc[g] /\ a \in Hash /\ g \in Segment(a, g)
  BY <1>2, AncAssumption DEF Ancestors, Segment, Tree
<1>4. ASSUME NEW x \in Segment(a, g)
      PROVE  x \notin D
  <2>1. x \in Hash /\ x \in Anc[g] /\ a \in Anc[x]
    BY <1>3, AncAssumption DEF Segment
  <2>2. CASE x = g
    BY <2>2
  <2>3. CASE x # g
    <3>1. BlockNo[x] < BlockNo[g]
      BY <1>3, <2>1, <2>3, HeightAssumption
    <3>2. g # a
      <4>1. CASE x = a
        BY <2>3, <4>1
      <4>2. CASE x # a
        <5>1. BlockNo[a] < BlockNo[x] /\ BlockNo[a] \in Int /\ BlockNo[x] \in Int /\ BlockNo[g] \in Int
          BY <1>3, <2>1, <4>2, HeightAssumption, BlockNoAssumption
        <5> QED BY <3>1, <5>1
      <4> QED BY <4>1, <4>2
    <3>3. g \in t.nodes \ t.roots
      BY <1>2, <1>3, <3>2 DEF Ancestors
    <3>4. NumberOf(t, g) = BlockNo[g] /\ NumberOf(t, x) \in {0, BlockNo[x]}
      BY <3>3 DEF NumberOf
    <3>5. NumberOf(t, x) < NumberOf(t, g)
      BY <1>3, <2>1, <3>1, <3>4, BlockNoAssumption
    <3>6. NumberOf(t, g) \in Int /\ NumberOf(t, x) \in Int
      BY <1>3, <2>1, NumberType, BlockNoAssumption
    <3> QED BY <3>5, <3>6
  <2> QED BY <2>2, <2>3
<1>5. a \in Ancestors(u, g)
  BY <1>1, <1>2, <1>4 DEF Ancestors
<1> QED BY <1>1, <1>2, <1>5 DEF IsBlacklisted

(* Dropping nodes never taints a block that stays.                         *)
LEMMA DropTaintsNothing ==
    ASSUME NEW t \in Tree, NEW D \in SUBSET t.nodes, NEW g \in t.nodes \ D,
           IsBlacklisted(Drop(t, D), g)
    PROVE  IsBlacklisted(t, g)
BY DEF IsBlacklisted, Ancestors, Drop, Tree

(* Dropping nodes leaves a tree.                                           *)
LEMMA DropType ==
    ASSUME NEW t \in Tree, NEW D \in SUBSET t.nodes
    PROVE  Drop(t, D) \in Tree
BY Zenon DEF Drop, Tree

(* Pruning below a number keeps the tree and its cached tip in order.      *)
LEMMA PruneAccurate ==
    ASSUME NEW t, WellFormed(t), Accurate(t), NEW min \in Int
    PROVE  WellFormed(PruneBelow(t, min)) /\ Accurate(PruneBelow(t, min))
<1> DEFINE D == {h \in t.nodes : NumberOf(t, h) < min}
           u == Drop(t, D)
<1>0. t \in Tree /\ D \in SUBSET t.nodes /\ u \in Tree
  BY DropType DEF WellFormed
<1>1. CASE t.best \in D \/ D \cap t.blacklist # {}
  <2>1. PruneBelow(t, min) = RecomputeBestTip(u)
    BY <1>1 DEF PruneBelow
  <2>2. WellFormed(RecomputeBestTip(u))
    BY Zenon, <1>0, RecomputeAccurate DEF WellFormed, RecomputeBestTip, Drop, Tree
  <2> QED BY <2>1, <2>2, <1>0, RecomputeAccurate
<1>2. CASE ~(t.best \in D \/ D \cap t.blacklist # {})
  <2>1. PruneBelow(t, min) = u
    BY <1>2 DEF PruneBelow
  <2>2. WellFormed(u)
    BY Zenon, <1>0 DEF WellFormed, Drop, Tree
  <2>3. \A d \in D, k \in t.nodes \ D : NumberOf(t, d) < NumberOf(t, k)
    <3> SUFFICES ASSUME NEW d \in D, NEW k \in t.nodes \ D
                 PROVE  NumberOf(t, d) < NumberOf(t, k)
      OBVIOUS
    <3>1. NumberOf(t, d) \in Int /\ NumberOf(t, k) \in Int
      BY <1>0, NumberType, BlockNoAssumption DEF Tree
    <3> QED BY <3>1
  <2>4. \A g \in t.nodes \ D : IsBlacklisted(u, g) <=> IsBlacklisted(t, g)
    <3> SUFFICES ASSUME NEW g \in t.nodes \ D
                 PROVE  IsBlacklisted(u, g) <=> IsBlacklisted(t, g)
      OBVIOUS
    <3> HIDE DEF D, u
    <3>1. t.blacklist \cap D = {} /\ t.heightless \subseteq t.roots
      BY <1>2 DEF WellFormed
    <3>2. IsBlacklisted(t, g) => IsBlacklisted(u, g)
      BY <1>0, <2>3, <3>1, DropKeepsTaint DEF u
    <3>3. IsBlacklisted(u, g) => IsBlacklisted(t, g)
      BY <1>0, DropTaintsNothing DEF u
    <3> QED BY <3>2, <3>3
  <2>5. u.nodes = t.nodes \ D /\ u.best = t.best
    BY Zenon, <1>0 DEF Drop, Tree
  <2>6. Eligible(u) = Eligible(t) \ D
    BY <2>4, <2>5 DEF Eligible
  <2>7. \A g, x \in t.nodes \ D : BetterIn(u, g, x) <=> BetterIn(t, g, x)
    BY Zenon, <1>0 DEF BetterIn, NumberOf, Drop, Tree
  <2>8. Accurate(u)
    <3>1. CASE t.best = None
      BY <3>1, <2>5, <2>6 DEF Accurate
    <3>2. CASE t.best # None
      <4>1. t.best \in Eligible(u)
        BY <3>2, <2>6, <1>2 DEF Accurate, IsBest
      <4>2. \A g \in Eligible(u) \ {t.best} : BetterIn(t, t.best, g)
        BY <3>2, <2>6 DEF Accurate, IsBest
      <4>3. \A g \in Eligible(u) \ {t.best} : BetterIn(u, t.best, g)
        BY <4>1, <4>2, <2>5, <2>7 DEF Eligible
      <4> QED BY Zenon, <3>2, <4>1, <4>3, <2>5 DEF Accurate, IsBest
    <3> QED BY <3>1, <3>2
  <2> QED BY <2>1, <2>2, <2>8
<1> QED BY <1>1, <1>2

(* So does removing what is above a number,                                *)
LEMMA RemoveAboveAccurate ==
    ASSUME NEW t, WellFormed(t), Accurate(t), NEW no
    PROVE  WellFormed(RemoveAbove(t, no)) /\ Accurate(RemoveAbove(t, no))
<1> DEFINE D == {h \in t.nodes : NumberOf(t, h) > no}
           u == Drop(t, D)
<1>0. t \in Tree /\ u \in Tree
  BY DropType DEF WellFormed
<1>1. WellFormed(RecomputeBestTip(u)) /\ Accurate(RecomputeBestTip(u))
  BY Zenon, <1>0, RecomputeAccurate DEF WellFormed, RecomputeBestTip, Drop, Tree
<1> QED BY <1>1 DEF RemoveAbove

-----------------------------------------------------------------------------
(* an insert that updates the cached tip,                                  *)
LEMMA InsertAccurate ==
    ASSUME NEW t, WellFormed(t), Accurate(t), NEW h \in Hash
    PROVE  WellFormed(Insert(t, h)) /\ Accurate(Insert(t, h))
<1>1. CASE h \in t.nodes
  BY <1>1 DEF Insert
<1>2. CASE h \notin t.nodes
  <2> DEFINE u == [t EXCEPT !.nodes = @ \cup {h}]
  <2>1. Grown(t, u, h)
    BY <1>2 DEF Grown, WellFormed, Tree
  <2>2. UpdateBestTip(u, h) \in Tree /\ Accurate(UpdateBestTip(u, h))
    BY <2>1, UpdateAccurate
  <2>3. WellFormed(UpdateBestTip(u, h))
    BY <2>2 DEF WellFormed, UpdateBestTip, RecomputeBestTip, Tree
  <2> QED BY <1>2, <2>2, <2>3 DEF Insert
<1> QED BY <1>1, <1>2

(* the insert of the start of a chain,                                     *)
LEMMA InsertChainStartAccurate ==
    ASSUME NEW t, WellFormed(t), Accurate(t), NEW h \in Hash, NEW known \in BOOLEAN
    PROVE  WellFormed(InsertChainStart(t, h, known)) /\ Accurate(InsertChainStart(t, h, known))
<1>1. CASE h \in t.nodes
  BY <1>1 DEF InsertChainStart
<1>2. CASE h \notin t.nodes
  <2> DEFINE u == [t EXCEPT !.nodes = @ \cup {h}, !.roots = @ \cup {h},
                            !.heightless = IF known THEN @ ELSE @ \cup {h}]
  <2>1. Grown(t, u, h)
    BY Zenon, <1>2 DEF Grown, WellFormed, Tree
  <2>2. UpdateBestTip(u, h) \in Tree /\ Accurate(UpdateBestTip(u, h))
    BY <2>1, UpdateAccurate
  <2>3. WellFormed(UpdateBestTip(u, h))
    BY <2>2 DEF WellFormed, UpdateBestTip, RecomputeBestTip, Tree
  <2> QED BY <1>2, <2>2, <2>3 DEF InsertChainStart
<1> QED BY <1>1, <1>2

(* and a new blacklist.                                                    *)
LEMMA UpdateBlacklistAccurate ==
    ASSUME NEW t, WellFormed(t), Accurate(t), NEW B \in SUBSET Hash
    PROVE  WellFormed(UpdateBlacklist(t, B)) /\ Accurate(UpdateBlacklist(t, B))
<1> DEFINE u == [t EXCEPT !.blacklist = B]
<1>1. u \in Tree /\ u.heightless = t.heightless /\ u.roots = t.roots /\ u.nodes = t.nodes
  BY DEF WellFormed, Tree
<1>2. WellFormed(RecomputeBestTip(u)) /\ Accurate(RecomputeBestTip(u))
  BY Zenon, <1>1, RecomputeAccurate DEF WellFormed, RecomputeBestTip, Tree
<1> QED BY <1>2 DEF UpdateBlacklist

-----------------------------------------------------------------------------
(* The inductive invariant: the tree is well formed and its cache is       *)
(* accurate.  Well-formedness is needed because a root without a height    *)
(* has number 0, which is below every block that can have it as ancestor.  *)
IInv == WellFormed(tree) /\ Accurate(tree)

(* Every method of the tree preserves the type and the accuracy of the     *)
(* cached best tip, whatever the blocks, the order of insertion, the       *)
(* blacklists and the pruning thresholds are.                              *)
THEOREM ChainTreeInvariant == Spec => []IInv
<1>1. Init => IInv
  BY DEF Init, IInv, WellFormed, Accurate, EmptyTree, Tree, Eligible
<1>2. ASSUME IInv, [Next]_vars
      PROVE  IInv'
  <2>1. ASSUME NEW h \in Hash, InsertBlock(h)
        PROVE  IInv'
    BY <1>2, <2>1, InsertAccurate DEF IInv, InsertBlock, WellFormed, Accurate
  <2>2. ASSUME NEW h \in Hash, NEW known \in BOOLEAN, InsertAnchor(h, known)
        PROVE  IInv'
    BY <1>2, <2>2, InsertChainStartAccurate DEF IInv, InsertAnchor
  <2>3. ASSUME NEW B \in SUBSET Hash, SetBlacklist(B)
        PROVE  IInv'
    BY <1>2, <2>3, UpdateBlacklistAccurate DEF IInv, SetBlacklist
  <2>4. ASSUME NEW min \in Heights, Prune(min)
        PROVE  IInv'
    <3>1. min \in Int
      BY BlockNoAssumption DEF Heights
    <3> QED BY <1>2, <2>4, <3>1, PruneAccurate DEF IInv, Prune
  <2>5. ASSUME NEW no \in Heights, Abandon(no)
        PROVE  IInv'
    BY <1>2, <2>5, RemoveAboveAccurate DEF IInv, Abandon
  <2>6. CASE UNCHANGED vars
    BY <1>2, <2>6 DEF IInv, vars
  <2> QED BY <1>2, <2>1, <2>2, <2>3, <2>4, <2>5, <2>6 DEF Next
<1> QED BY <1>1, <1>2, PTL DEF Spec

(* The type invariant of the chain tree.                                   *)
THEOREM ChainTreeTypeOK == Spec => []TypeOK
<1>1. IInv => TypeOK
  BY DEF IInv, WellFormed, TypeOK
<1> QED BY <1>1, ChainTreeInvariant, PTL

(* `best_tip` is accurate after every call.                                *)
THEOREM ChainTreeBestTipAccurate == Spec => []BestTipAccurate
<1>1. IInv => BestTipAccurate
  BY DEF IInv, Accurate, BestTipAccurate
<1> QED BY <1>1, ChainTreeInvariant, PTL

-----------------------------------------------------------------------------
(* What is eligible depends on the nodes, the roots and the blacklist.     *)
LEMMA EligibleOf ==
    ASSUME NEW t, NEW u, t.nodes = u.nodes, t.roots = u.roots, t.blacklist = u.blacklist
    PROVE  Eligible(t) = Eligible(u)
BY DEF Eligible, IsBlacklisted, Ancestors

(* The nodes dropped by a call that frees no heir of a blacklisted block.  *)
LEMMA DropFreesNone ==
    ASSUME NEW t \in Tree, NEW D \in SUBSET t.nodes, NEW u,
           u = Drop(t, D) \/ u = RecomputeBestTip(Drop(t, D)),
           \A g \in t.nodes \ D : IsBlacklisted(t, g) => IsBlacklisted(Drop(t, D), g)
    PROVE  Eligible(u) \subseteq Eligible(t)
<1> DEFINE d == Drop(t, D)
<1>1. d \in Tree /\ d.nodes = t.nodes \ D
  BY Zenon, DropType DEF Drop, Tree
<1>2. Eligible(d) \subseteq Eligible(t)
  BY <1>1 DEF Eligible
<1> HIDE DEF d
<1>3. Eligible(u) = Eligible(d)
  <2>1. CASE u = d
    BY <2>1
  <2>2. CASE u = RecomputeBestTip(d)
    <3>1. u.nodes = d.nodes /\ u.roots = d.roots /\ u.blacklist = d.blacklist
      BY <1>1, <2>2 DEF RecomputeBestTip, Tree
    <3> QED BY <3>1, EligibleOf
  <2> QED BY <2>1, <2>2 DEF d
<1> QED BY <1>2, <1>3

(* `prune_below` and `remove_above` never make an heir of a blacklisted    *)
(* block eligible unless they drop a blacklisted block, whatever was       *)
(* inserted before, with or without its height.                            *)
THEOREM ChainTreePruneKeepsTaint == Spec => PruneKeepsTaint
<1> DEFINE Frees == Eligible(tree') \subseteq Eligible(tree)
           Shrinks == /\ tree'.nodes \subseteq tree.nodes
                      /\ tree'.blacklist = tree.blacklist
                      /\ tree.blacklist \cap (tree.nodes \ tree'.nodes) = {}
<1>1. ASSUME IInv, [Next]_vars, Shrinks
      PROVE  Frees
  <2>0. WellFormed(tree) /\ tree \in Tree /\ tree.heightless \subseteq tree.roots /\ tree.nodes \subseteq Hash
    BY <1>1 DEF IInv, WellFormed, Tree
  <2>1. ASSUME NEW h \in Hash, InsertBlock(h)
        PROVE  tree' = tree
    <3>1. CASE h \in tree.nodes
      BY <2>1, <3>1 DEF InsertBlock, Insert
    <3>2. CASE h \notin tree.nodes
      <4>1. h \in tree'.nodes
        BY <2>0, <2>1, <3>2 DEF InsertBlock, Insert, UpdateBestTip, RecomputeBestTip, Tree
      <4> QED BY <1>1, <3>2, <4>1
    <3> QED BY <3>1, <3>2
  <2>2. ASSUME NEW h \in Hash, NEW known \in BOOLEAN, InsertAnchor(h, known)
        PROVE  tree' = tree
    <3>1. CASE h \in tree.nodes
      BY <2>2, <3>1 DEF InsertAnchor, InsertChainStart
    <3>2. CASE h \notin tree.nodes
      <4>1. h \in tree'.nodes
        BY <2>0, <2>2, <3>2 DEF InsertAnchor, InsertChainStart, UpdateBestTip, RecomputeBestTip, Tree
      <4> QED BY <1>1, <3>2, <4>1
    <3> QED BY <3>1, <3>2
  <2>3. ASSUME NEW B \in SUBSET Hash, SetBlacklist(B)
        PROVE  tree' = tree
    <3>1. tree' = tree \/ (tree'.blacklist = B /\ B # tree.blacklist)
      BY <2>0, <2>3 DEF SetBlacklist, UpdateBlacklist, RecomputeBestTip, Tree
    <3> QED BY <1>1, <3>1
  <2>4. ASSUME NEW min \in Heights, Prune(min)
        PROVE  Frees
    <3> DEFINE D == {h \in tree.nodes : NumberOf(tree, h) < min}
    <3>1. D \in SUBSET tree.nodes /\ (tree' = Drop(tree, D) \/ tree' = RecomputeBestTip(Drop(tree, D)))
      BY <2>4 DEF Prune, PruneBelow
    <3>2. tree'.nodes = tree.nodes \ D
      BY Zenon, <2>0, <3>1, DropType DEF Drop, RecomputeBestTip, Tree
    <3>3. tree.blacklist \cap D = {}
      BY <1>1, <3>1, <3>2
    <3>4. ASSUME NEW d \in D, NEW k \in tree.nodes \ D
          PROVE  NumberOf(tree, d) < NumberOf(tree, k)
      <4>1. NumberOf(tree, d) \in Int /\ NumberOf(tree, k) \in Int /\ min \in Int
        BY <2>0, NumberType, BlockNoAssumption DEF Heights
      <4> QED BY <4>1
    <3> HIDE DEF D
    <3>5. \A g \in tree.nodes \ D : IsBlacklisted(tree, g) => IsBlacklisted(Drop(tree, D), g)
      BY <2>0, <3>1, <3>3, <3>4, DropKeepsTaint
    <3> QED BY <2>0, <3>1, <3>5, DropFreesNone
  <2>5. ASSUME NEW no \in Heights, Abandon(no)
        PROVE  Frees
    <3> DEFINE D == {h \in tree.nodes : NumberOf(tree, h) > no}
    <3>1. CASE D = {}
      BY <2>5, <3>1 DEF Abandon, RemoveAbove
    <3>2. CASE D # {}
      <4>1. D \in SUBSET tree.nodes /\ tree' = RecomputeBestTip(Drop(tree, D))
        BY <2>5, <3>2 DEF Abandon, RemoveAbove
      <4>2. ASSUME NEW d \in D, NEW k \in tree.nodes \ D
            PROVE  NumberOf(tree, k) < NumberOf(tree, d)
        <5>1. NumberOf(tree, d) \in Int /\ NumberOf(tree, k) \in Int /\ no \in Int
          BY <2>0, NumberType, BlockNoAssumption DEF Heights
        <5> QED BY <5>1
      <4> HIDE DEF D
      <4>3. \A g \in tree.nodes \ D : IsBlacklisted(tree, g) => IsBlacklisted(Drop(tree, D), g)
        BY <2>0, <4>1, <4>2, DropAboveKeepsTaint
      <4> QED BY <2>0, <4>1, <4>3, DropFreesNone
    <3> QED BY <3>1, <3>2
  <2>6. CASE UNCHANGED vars
    BY <2>6 DEF vars
  <2> QED BY <1>1, <2>1, <2>2, <2>3, <2>4, <2>5, <2>6 DEF Next
<1>2. IInv /\ [Next]_vars => [Shrinks => Frees]_vars
  BY <1>1
<1>3. PruneKeepsTaint <=> [][Shrinks => Frees]_vars
  BY DEF PruneKeepsTaint
<1> QED BY <1>2, <1>3, ChainTreeInvariant, PTL DEF Spec
=============================================================================
