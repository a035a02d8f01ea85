----------------------------- MODULE ChainTree ------------------------------
(***************************************************************************)
(* The chain tree (shared-rs/consensus/src/chain_tree.rs) as a data type:  *)
(* a tree value is a record of                                             *)
(*    nodes      the hashes of the inserted blocks                         *)
(*    roots      the nodes inserted as ChainStart: sync anchors, which     *)
(*               have no parent in the tree                                *)
(*    heightless the roots inserted with block number 0 because the peer   *)
(*               did not report their height                               *)
(*    blacklist  the hashes that may not be part of the best chain         *)
(*    best       the cached best tip, or None                              *)
(* and a method is an operator from tree values to tree values.  Display   *)
(* data (tx counts, the snapshot for the UI) is left out.                  *)
(***************************************************************************)
EXTENDS Blocks

Tree ==
    [nodes : SUBSET Hash, roots : SUBSET Hash, heightless : SUBSET Hash,
     blacklist : SUBSET Hash, best : Hash \cup {None}]

EmptyTree ==
    [nodes |-> {}, roots |-> {}, heightless |-> {}, blacklist |-> {}, best |-> None]

-----------------------------------------------------------------------------
(* `block_number`, with the `unwrap_or(0)` of its callers.                 *)
NumberOf(t, h) == IF h \in t.nodes \ t.heightless THEN BlockNo[h] ELSE 0

(* `ancestors`: the blocks reached from h by following parent links inside *)
(* the tree.  The walk ends at genesis, at a ChainStart root or at a gap.  *)
Ancestors(t, h) ==
    {a \in Anc[h] : \A x \in Segment(a, h) :
        /\ x = h \/ x \in t.nodes
        /\ x = a \/ x \in t.nodes \ t.roots}

(* `is_blacklisted`: h is blacklisted or a visible heir of such a block.   *)
IsBlacklisted(t, h) == \E b \in t.blacklist : b \in Ancestors(t, h)

Eligible(t) == {h \in t.nodes : ~IsBlacklisted(t, h)}

BetterIn(t, h, g) == IsBetterTip(NumberOf(t, h), h, NumberOf(t, g), g)

(* h wins against all other blocks that may be the tip.                    *)
IsBest(t, h) ==
    /\ h \in Eligible(t)
    /\ \A g \in Eligible(t) \ {h} : BetterIn(t, h, g)

BestEligible(t) ==
    IF Eligible(t) = {} THEN None ELSE CHOOSE h \in Hash : IsBest(t, h)

RecomputeBestTip(t) == [t EXCEPT !.best = BestEligible(t)]

-----------------------------------------------------------------------------
UpdateBlacklist(t, B) ==
    IF t.blacklist = B THEN t ELSE RecomputeBestTip([t EXCEPT !.blacklist = B])

(* Mutant: an inserted blacklisted block is ignored altogether.            *)
MutUpdateBestTip(t, h) ==
    IF IsBlacklisted(t, h) \/ (t.best # None /\ ~BetterIn(t, h, t.best))
    THEN t
    ELSE [t EXCEPT !.best = h]

(* `update_best_tip`, run after h became a node.  A blacklisted h may have *)
(* closed the gap between a blacklisted block and the current best tip.    *)
UpdateBestTip(t, h) ==
    IF IsBlacklisted(t, h)
    THEN IF t.best # None /\ IsBlacklisted(t, t.best) THEN RecomputeBestTip(t) ELSE t
    ELSE IF t.best = None \/ BetterIn(t, h, t.best) THEN [t EXCEPT !.best = h] ELSE t

Insert(t, h) ==
    IF h \in t.nodes THEN t ELSE UpdateBestTip([t EXCEPT !.nodes = @ \cup {h}], h)

(* The height of a sync anchor is known only when it is the peer's tip.    *)
InsertChainStart(t, h, heightKnown) ==
    IF h \in t.nodes
    THEN t
    ELSE UpdateBestTip(
            [t EXCEPT !.nodes = @ \cup {h},
                      !.roots = @ \cup {h},
                      !.heightless = IF heightKnown THEN @ ELSE @ \cup {h}], h)

Drop(t, H) ==
    [t EXCEPT !.nodes = @ \ H, !.roots = @ \ H, !.heightless = @ \ H]

(* Mutant: only the blocks right below the threshold are pruned.           *)
MutPruneBelow(t, min) ==
    RecomputeBestTip(Drop(t, {h \in t.nodes : NumberOf(t, h) = min - 1}))

PruneBelow(t, min) ==
    LET dropped == {h \in t.nodes : NumberOf(t, h) < min}
    IN  IF t.best \in dropped \/ dropped \cap t.blacklist # {}
        THEN RecomputeBestTip(Drop(t, dropped))
        ELSE Drop(t, dropped)

RemoveAbove(t, no) ==
    LET dropped == {h \in t.nodes : NumberOf(t, h) > no}
    IN  IF dropped = {} THEN t ELSE RecomputeBestTip(Drop(t, dropped))
=============================================================================
