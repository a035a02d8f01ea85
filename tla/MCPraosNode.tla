---------------------------- MODULE MCPraosNode -----------------------------
(***************************************************************************)
(* The block 1 with two chains on top: 2, and 3 <- 4.  Block 1 is the      *)
(* child of genesis and has number 0.  The variable `scenario` says under  *)
(* which constants the node runs:                                          *)
(*    forks    those of the .cfg                                           *)
(*    faults   one connected peer, a small store, a node that may join     *)
(*             above genesis and a disturbance of any kind                 *)
(*    control  one connected peer, a block that the ledger refuses, forced *)
(*             reorgs and blacklists                                       *)
(***************************************************************************)
EXTENDS PraosNode

CONSTANT Scenarios

VARIABLE scenario

MCHash == 1..4
MCPrev == <<0, 1, 1, 3>>
MCBlockNo == <<0, 1, 1, 2>>
MCSlot == <<0, 1, 2, 4>>
MCAnc == <<{1}, {1, 2}, {1, 3}, {1, 3, 4}>>

(* The block 1 with 2 <- 3 and 4 <- 5 <- 6 on top.                         *)
DeepHash == 1..6
DeepPrev == <<0, 1, 2, 1, 4, 5>>
DeepBlockNo == <<0, 1, 2, 1, 2, 3>>
DeepSlot == <<0, 1, 3, 2, 4, 5>>
DeepAnc == <<{1}, {1, 2}, {1, 2, 3}, {1, 4}, {1, 4, 5}, {1, 4, 5, 6}>>

AnyFault == {"rollback", "disconnect", "no_blocks", "delay", "control"}

Fau == INSTANCE PraosNode WITH
    Capacity <- 2, SyncPoints <- {0, 1}, OtherTips <- {0}, OwnBlocks <- {},
    Faults <- AnyFault, MaxFaults <- 1

Con == INSTANCE PraosNode WITH
    Invalid <- {3}, OwnBlocks <- {}, Reorgs <- {1}, BlacklistTips <- {0, 2, 3, 4},
    MaxQueue <- 3, Faults <- {"control"}, MaxFaults <- 2

allVars == <<node, store, queue, ledger, fetches, session, faults, scenario>>

AllInit ==
    /\ scenario \in Scenarios
    /\ scenario = "forks" => Init
    /\ scenario = "faults" => Fau!Init
    /\ scenario = "control" => Con!Init

(* Only peer 1 connects.                                                   *)
Alone == UNCHANGED session[2]

AllNext ==
    /\ UNCHANGED scenario
    /\ \/ scenario = "forks" /\ Next
       \/ scenario = "faults" /\ Fau!Next /\ Alone
       \/ scenario = "control" /\ Con!Next /\ Alone

AllSpec == AllInit /\ [][AllNext]_allVars

FairAllSpec == AllSpec /\ (scenario = "forks" => Fairness)

-----------------------------------------------------------------------------
(* QueueProjection of PraosNode, where the ledger refuses no block: the    *)
(* validator's projected tip is where its queue of commands ends.          *)
QueueProjected ==
    /\ scenario = "forks" => QueueProjection
    /\ scenario = "faults" => Fau!QueueProjection

(* SubmittedPending and AdoptedKnown of PraosNode: a block submitted to    *)
(* the validator still has its Apply in the queue and its body in the      *)
(* cache, and the adopted tip is in the tree, also when a block is refused *)
(* or a reorg is forced.                                                   *)
InUseKept ==
    /\ scenario = "forks" => SubmittedPending /\ AdoptedKnown
    /\ scenario = "faults" => Fau!AdoptedKnown
    /\ scenario = "control" => Con!SubmittedPending

(* ServesAdopted and ServesClean of PraosNode: with nothing left to        *)
(* validate, the store serves the adopted chain, and no block of it is on  *)
(* the blacklist.                                                          *)
ServesRight ==
    /\ scenario = "forks" => ServesAdopted
    /\ scenario = "control" => Con!ServesClean

(* AdoptedImproves of PraosNode, where nothing forces the node back: the   *)
(* adopted tip is only replaced by a better one.                           *)
ForksImprove == [][scenario = "forks" => Improves]_allVars

(* AdoptsAnnounced of PraosNode: no peer is left for good on a chain that  *)
(* is better than the adopted one.                                         *)
ForksAdopted == scenario = "forks" => AdoptsAnnounced
=============================================================================
