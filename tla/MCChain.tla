------------------------------ MODULE MCChain -------------------------------
(***************************************************************************)
(* The two chain structures of a node, each against everything its callers *)
(* can do: the chain store with one ChainSync session, and the chain tree. *)
(* They share no state; `active` says which of them moves.                 *)
(*                                                                         *)
(* The store's blocks are the chain 1 <- 2 <- 3 and its fork 1 <- 4; block *)
(* 1 is the child of genesis and has number 0.  The follower starts with   *)
(* nothing or with the chain up to 3.  The tree's blocks are the chain     *)
(* 2 <- 3 <- 4 and the fork 1 (off 2, ties with 3), so that ties, gaps and *)
(* forks all occur.                                                        *)
(***************************************************************************)
EXTENDS ChainSyncServer

CONSTANT Components

VARIABLES active, tree

MCHash == 1..4
MCPrev == <<0, 1, 2, 1>>
MCBlockNo == <<0, 1, 2, 1>>
MCSlot == <<0, 1, 3, 2>>
MCAnc == <<{1}, {1, 2}, {1, 2, 3}, {1, 4}>>
MCOwnChains == {<<>>, <<1, 2, 3>>}

Tree == INSTANCE ChainTreeSpec WITH
    Prev <- <<2, 0, 2, 3>>, BlockNo <- <<2, 1, 2, 3>>, Slot <- <<4, 1, 2, 3>>, MaxBlockNo <- 3,
    Anc <- <<{1, 2}, {2}, {2, 3}, {2, 3, 4}>>

allVars == <<vars, tree, active>>

AllInit == active \in Components /\ Init /\ Tree!Init

AllNext ==
    /\ UNCHANGED active
    /\ \/ active = "session" /\ Next /\ UNCHANGED tree
       \/ active = "tree" /\ Tree!Next /\ UNCHANGED vars

AllSpec ==
    /\ AllInit /\ [][AllNext]_allVars
    /\ WF_vars(active = "session" /\ Task)
    /\ WF_vars(active = "session" /\ ParkTimeout)

-----------------------------------------------------------------------------
(* BestTipAccurate of ChainTreeSpec: the cached best tip is the one that a *)
(* scan of the whole tree would find.                                      *)
BestTipAccurate == Tree!BestTipAccurate

(* PruneKeepsTaint of ChainTreeSpec: pruning frees an heir of a            *)
(* blacklisted block only by dropping a blacklisted block.                 *)
PruneKeepsTaint == Tree!PruneKeepsTaint
=============================================================================
