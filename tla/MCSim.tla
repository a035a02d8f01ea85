-------------------------------- MODULE MCSim --------------------------------
(***************************************************************************)
(* The four node models of the simulator, on networks of two and three     *)
(* nodes, and the sequential engine that runs them.  The initial state     *)
(* chooses one of them with a scenario (active).  The scenario of nodes    *)
(* fixes who wins which lottery, which transactions users submit, and      *)
(* Slow: the messages and tasks that may take until a later slot; all      *)
(* others are handled before the slot ends.                                *)
(***************************************************************************)
EXTENDS Naturals, Sequences, FiniteSets

CONSTANTS Scenarios,
          Idle        \* the CPUs of the engine take no time

VARIABLES active,
          node, net, tasks, timers, now, minted, submitted, \* of the nodes
          shard, time, inbox, cancelled, reference          \* of the engine

sim_vars == <<node, net, tasks, timers, now, minted, submitted>>
engine_vars == <<shard, time, inbox, cancelled, reference>>
vars == <<active, sim_vars, engine_vars>>

Two == {1, 2}
Three == {1, 2, 3}
OfTwo(n) == Two \ {n}
OfThree(n) == Three \ {n}
Line(n) == IF n = 2 THEN {1, 3} ELSE {2}

SlowEb(n, kind) == kind = "EB"
SlowEbTx(n, kind) == kind \in {"EB", "Tx"}
SlowEbAt2(n, kind) == n = 2 /\ kind = "EB"
SlowEbAt3(n, kind) == n = 3 /\ kind = "EB"
SlowVotesAt2(n, kind) == n = 2 /\ kind \in {"Votes", "VTBundleValidated"}
SlowHeaderAt3(n, kind) == IF n = 3 THEN kind \in {"AnnounceRBHeader", "RBHeader"} ELSE n = 2 /\ kind = "EB"
SlowVotingAt1(n, kind) == n = 1 /\ kind \in {"VTBundleGenerated", "EB"}
SlowIbAt2(n, kind) == n = 2 /\ kind \in {"IB", "IBHeader"}
SlowIbAt1(n, kind) == n = 1 /\ kind = "IB"
SlowIbsAt3(n, kind) == n = 3 /\ kind \in {"IBBlockValidated", "IBHeaderValidated"}
SlowIbHeaderAt3(n, kind) == n = 3 /\ kind \in {"IB", "IBHeader"}

None_(n) == {}
Own(n) == {n}
OfOne(n) == IF n = 1 THEN {1, 2} ELSE {}
OneOfOne(n) == IF n = 1 THEN {1} ELSE {}
NotOf3(n) == IF n = 3 THEN {} ELSE {n}
Distinct(t) == t
Conflict(t) == 0
Input(t) == IF t = 3 THEN 3 ELSE 0
PoolTxs(n) == IF n = 1 THEN {1, 2} ELSE {3}

One(n) == 1
VrfOf(b) == b[2]
Shard0(t) == 0

-----------------------------------------------------------------------------
(* The adapter of the shared consensus crate.                              *)
Sc == INSTANCE SharedConsensus WITH
        Nodes <- Two, Consumers <- OfTwo, MaxSlot <- 6, Generated <- Own, FromAll <- FALSE, Slow <- SlowEb,
        Wins <- {<<1, 1>>, <<6, 2>>}, Seats <- One, Quorum <- 2, DeltaHdr <- 1, VoteWindow <- 1,
        DiffuseWindow <- 1, Retry <- TRUE, Capacity <- 4, MaxBlock <- 0, MaxEb <- 2,
        PruneEvery <- 100, ChainKeep <- 50, TxMaxAge <- 5
(* Two blocks in one slot.                                                 *)
ScFork == INSTANCE SharedConsensus WITH
        Nodes <- Two, Consumers <- OfTwo, MaxSlot <- 7, Generated <- Own, FromAll <- FALSE, Slow <- SlowEb,
        Wins <- {<<1, 1>>, <<2, 1>>, <<2, 2>>, <<7, 1>>}, Seats <- One, Quorum <- 2, DeltaHdr <- 1,
        VoteWindow <- 1, DiffuseWindow <- 1, Retry <- TRUE, Capacity <- 4, MaxBlock <- 0, MaxEb <- 2,
        PruneEvery <- 2, ChainKeep <- 5, TxMaxAge <- 5
(* Transactions that come after the EB that lists them.                    *)
ScTxs == INSTANCE SharedConsensus WITH
        Nodes <- Two, Consumers <- OfTwo, MaxSlot <- 6, Generated <- OfOne, FromAll <- FALSE, Slow <- SlowEbTx,
        Wins <- {<<1, 1>>, <<6, 2>>}, Seats <- One, Quorum <- 2, DeltaHdr <- 1, VoteWindow <- 1,
        DiffuseWindow <- 1, Retry <- TRUE, Capacity <- 4, MaxBlock <- 0, MaxEb <- 2,
        PruneEvery <- 100, ChainKeep <- 50, TxMaxAge <- 5
(* A block after the one that endorses, with transactions in its body.     *)
ScDrain == INSTANCE SharedConsensus WITH
        Nodes <- Two, Consumers <- OfTwo, MaxSlot <- 7, Generated <- OfOne, FromAll <- FALSE, Slow <- SlowEb,
        Wins <- {<<1, 1>>, <<6, 2>>, <<7, 2>>}, Seats <- One, Quorum <- 2, DeltaHdr <- 1, VoteWindow <- 1,
        DiffuseWindow <- 1, Retry <- FALSE, Capacity <- 4, MaxBlock <- 1, MaxEb <- 2,
        PruneEvery <- 100, ChainKeep <- 50, TxMaxAge <- 5

(* Linear Leios: a full mempool and transactions that conflict.            *)
LlPool == INSTANCE LinearLeios WITH
        Nodes <- Two, Consumers <- OfTwo, MaxSlot <- 3, Generated <- PoolTxs, FromAll <- FALSE, Slow <- SlowEb,
        InputOf <- Input, MaxPool <- 1, MaxPeerBacklog <- 1, Wins <- {<<1, 1>>, <<2, 2>>}, Vrf <- VrfOf,
        Weight <- One, Threshold <- 2, HeaderDeadline <- 1, Gate <- 1, Deadline <- 1, Inclusion <- 2,
        MaxBlock <- 1, MaxEb <- 2, TxMaxAge <- 1, MaxLocalBacklog <- 2, Inline <- FALSE,
        Criteria <- "TxsReceived", Transport <- "announce"
(* EBs and transactions in any order.                                      *)
LlTxs == INSTANCE LinearLeios WITH
        Nodes <- Two, Consumers <- OfTwo, MaxSlot <- 2, Generated <- OfOne, FromAll <- FALSE, Slow <- SlowEbTx,
        InputOf <- Distinct, MaxPool <- 2, MaxPeerBacklog <- 1, Wins <- {<<1, 1>>}, Vrf <- VrfOf,
        Weight <- One, Threshold <- 2, HeaderDeadline <- 1, Gate <- 1, Deadline <- 1, Inclusion <- 2,
        MaxBlock <- 0, MaxEb <- 2, TxMaxAge <- 5, MaxLocalBacklog <- 2, Inline <- FALSE,
        Criteria <- "EbReceived", Transport <- "push"
(* An EB announced before and after its header.                            *)
LlHeader == INSTANCE LinearLeios WITH
        Nodes <- Three, Consumers <- OfThree, MaxSlot <- 2, Generated <- OneOfOne, FromAll <- FALSE,
        Slow <- SlowHeaderAt3,
        InputOf <- Distinct, MaxPool <- 2, MaxPeerBacklog <- 1, Wins <- {<<1, 1>>}, Vrf <- VrfOf,
        Weight <- One, Threshold <- 2, HeaderDeadline <- 1, Gate <- 1, Deadline <- 1, Inclusion <- 2,
        MaxBlock <- 0, MaxEb <- 2, TxMaxAge <- 5, MaxLocalBacklog <- 2, Inline <- FALSE,
        Criteria <- "TxsReceived", Transport <- "announce"
(* Votes that come back through a third node.                              *)
LlVotes == INSTANCE LinearLeios WITH
        Nodes <- Three, Consumers <- OfThree, MaxSlot <- 3, Generated <- OneOfOne, FromAll <- FALSE,
        Slow <- SlowVotesAt2,
        InputOf <- Distinct, MaxPool <- 2, MaxPeerBacklog <- 1, Wins <- {<<1, 1>>, <<3, 2>>}, Vrf <- VrfOf,
        Weight <- One, Threshold <- 3, HeaderDeadline <- 1, Gate <- 1, Deadline <- 1, Inclusion <- 2,
        MaxBlock <- 0, MaxEb <- 2, TxMaxAge <- 5, MaxLocalBacklog <- 2, Inline <- TRUE,
        Criteria <- "FullyValid", Transport <- "push late"
(* Votes for an EB that has been pruned.                                   *)
LlPrune == INSTANCE LinearLeios WITH
        Nodes <- Two, Consumers <- OfTwo, MaxSlot <- 4, Generated <- OneOfOne, FromAll <- TRUE,
        Slow <- SlowVotingAt1,
        InputOf <- Distinct, MaxPool <- 2, MaxPeerBacklog <- 1, Wins <- {<<1, 1>>, <<3, 2>>}, Vrf <- VrfOf,
        Weight <- One, Threshold <- 1, HeaderDeadline <- 1, Gate <- 1, Deadline <- 3, Inclusion <- 2,
        MaxBlock <- 0, MaxEb <- 2, TxMaxAge <- 5, MaxLocalBacklog <- 2, Inline <- FALSE,
        Criteria <- "TxsReceived", Transport <- "announce"

(* Stracciatella: EBs that refer to EBs, and the block that endorses.      *)
VoteOnce(n, slot) == 1
StEbs == INSTANCE Stracciatella WITH
        Nodes <- Two, Consumers <- OfTwo, MaxSlot <- 7, Generated <- Own, FromAll <- FALSE, Slow <- SlowEbAt2,
        InputOf <- Distinct, Wins <- {<<5, 1>>, <<7, 2>>}, EbWins <- {<<2, 1>>, <<2, 2>>, <<5, 2>>},
        VoteWins <- VoteOnce, Vrf <- VrfOf, Threshold <- 2, StageLength <- 1, VoteSlots <- 1, Quality <- 1,
        HeaderDiffusion <- 0, MaxEbAge <- 5, MaxBlock <- 1, MaxEb <- 1, ShardOf <- Shard0, Over <- 0,
        Shards <- 1, ShardGroups <- 1, ShardPeriod <- 1, IncludePrevious <- FALSE, Aggressive <- FALSE,
        Fallback <- TRUE
(* A slot battle, three voters and conflicting transactions.               *)
StBattle == INSTANCE Stracciatella WITH
        Nodes <- Three, Consumers <- OfThree, MaxSlot <- 6, Generated <- NotOf3, FromAll <- TRUE, Slow <- SlowEbAt3,
        InputOf <- Conflict, Wins <- {<<5, 1>>, <<5, 2>>, <<6, 3>>}, EbWins <- {<<2, 1>>},
        VoteWins <- VoteOnce, Vrf <- VrfOf, Threshold <- 2, StageLength <- 1, VoteSlots <- 1, Quality <- 1,
        HeaderDiffusion <- 0, MaxEbAge <- 5, MaxBlock <- 1, MaxEb <- 1, ShardOf <- Shard0, Over <- 0,
        Shards <- 1, ShardGroups <- 1, ShardPeriod <- 1, IncludePrevious <- FALSE, Aggressive <- TRUE,
        Fallback <- TRUE

(* Full Leios: input blocks that share a VRF, on a line.                   *)
IbOnce(n, slot) == IF slot = 1 THEN <<n>> ELSE <<>>
ThreeOf1(n, slot) == IF slot = 1 /\ n = 1 THEN <<1, 2, 3>> ELSE <<>>
VoteOf1(n, slot) == IF n = 1 THEN 1 ELSE 0
IbTwice == INSTANCE SimLeios WITH
        Nodes <- Three, Consumers <- Line, MaxSlot <- 1, Generated <- None_, FromAll <- FALSE, Slow <- SlowIbAt2,
        InputOf <- Distinct, Wins <- {}, EbWins <- {}, IbWins <- IbOnce, VoteWins <- VoteOnce, Vrf <- VrfOf,
        Equivocators <- {1}, Variant <- "Full", Threshold <- 2, StageLength <- 1, VoteSlots <- 1, Quality <- 1,
        HeaderDiffusion <- 0, IbGeneration <- 0, MaxEbAge <- 5, MaxBlock <- 1, MaxIb <- 1, ShardOf <- Shard0,
        Over <- 0, Shards <- 1, ShardGroups <- 1, ShardPeriod <- 1, LateIbs <- FALSE, MaxRequests <- 1,
        Strategy <- "peer", Aggressive <- FALSE, Fallback <- TRUE
(* More input blocks than requests to a peer.                              *)
IbQueue == INSTANCE SimLeios WITH
        Nodes <- Three, Consumers <- OfThree, MaxSlot <- 2, Generated <- None_, FromAll <- FALSE, Slow <- SlowIbsAt3,
        InputOf <- Distinct, Wins <- {}, EbWins <- {}, IbWins <- ThreeOf1, VoteWins <- VoteOnce, Vrf <- VrfOf,
        Equivocators <- {}, Variant <- "Full", Threshold <- 2, StageLength <- 1, VoteSlots <- 1, Quality <- 1,
        HeaderDiffusion <- 0, IbGeneration <- 0, MaxEbAge <- 5, MaxBlock <- 1, MaxIb <- 1, ShardOf <- Shard0,
        Over <- 0, Shards <- 1, ShardGroups <- 1, ShardPeriod <- 1, LateIbs <- FALSE, MaxRequests <- 1,
        Strategy <- "peer", Aggressive <- FALSE, Fallback <- TRUE
(* Transactions that conflict.                                             *)
IbTxs == INSTANCE SimLeios WITH
        Nodes <- Three, Consumers <- OfThree, MaxSlot <- 2, Generated <- Own, FromAll <- FALSE,
        Slow <- SlowIbHeaderAt3,
        InputOf <- Conflict, Wins <- {}, EbWins <- {}, IbWins <- IbOnce, VoteWins <- VoteOnce, Vrf <- VrfOf,
        Equivocators <- {}, Variant <- "FullWithTxReferences", Threshold <- 2, StageLength <- 1, VoteSlots <- 1,
        Quality <- 1, HeaderDiffusion <- 0, IbGeneration <- 0, MaxEbAge <- 5, MaxBlock <- 1, MaxIb <- 1,
        ShardOf <- Shard0, Over <- 0, Shards <- 1, ShardGroups <- 1, ShardPeriod <- 1, LateIbs <- FALSE,
        MaxRequests <- 1, Strategy <- "oldest", Aggressive <- FALSE, Fallback <- TRUE
(* Input blocks, EBs, votes and ranking blocks.                            *)
IbChain == INSTANCE SimLeios WITH
        Nodes <- Two, Consumers <- OfTwo, MaxSlot <- 7, Generated <- Own, FromAll <- FALSE, Slow <- SlowIbAt1,
        InputOf <- Distinct, Wins <- {<<6, 1>>, <<7, 2>>}, EbWins <- {<<3, 1>>, <<5, 1>>}, IbWins <- IbOnce,
        VoteWins <- VoteOf1, Vrf <- VrfOf,
        Equivocators <- {2}, Variant <- "Full", Threshold <- 1, StageLength <- 1, VoteSlots <- 1, Quality <- 1,
        HeaderDiffusion <- 1, IbGeneration <- 1, MaxEbAge <- 5, MaxBlock <- 1, MaxIb <- 1, ShardOf <- Shard0,
        Over <- 0, Shards <- 1, ShardGroups <- 1, ShardPeriod <- 1, LateIbs <- FALSE, MaxRequests <- 1,
        Strategy <- "freshest", Aggressive <- FALSE, Fallback <- TRUE

(* The sequential engine: three nodes on two shards, a relay and a cut of  *)
(* one link; and one without computing time.                               *)
ShardOfOne(n) == IF n = 1 THEN 1 ELSE 0
Distance(a, b) == CASE a = b -> 0 [] {a, b} = {2, 3} -> 1 [] {a, b} = {1, 2} -> 2 [] OTHER -> 3
Sends(n, at) == IF n = 1 THEN {2, 3} ELSE IF Idle \/ at = 0 THEN OfThree(n) ELSE {}
CutOnce(a, b, t) == a = 1 /\ b = 2 /\ t = 2
Engine == INSTANCE Sequential WITH
    Nodes <- Three, Shards <- {0, 1}, ShardOf <- ShardOfOne, Latency <- Distance, SlotSends <- Sends,
    Relays <- OfThree, MaxHops <- 1, CpuTime <- IF Idle THEN 0 ELSE 1, Resolution <- 1,
    SlotTime <- IF Idle THEN 3 ELSE 6, MaxSlot <- IF Idle THEN 3 ELSE 2, Cut <- CutOnce

-----------------------------------------------------------------------------
NodesInit ==
    \/ active = "sc" /\ Sc!Init
    \/ active = "sc fork" /\ ScFork!Init
    \/ active = "sc txs" /\ ScTxs!Init
    \/ active = "sc drain" /\ ScDrain!Init
    \/ active = "ll pool" /\ LlPool!Init
    \/ active = "ll txs" /\ LlTxs!Init
    \/ active = "ll header" /\ LlHeader!Init
    \/ active = "ll votes" /\ LlVotes!Init
    \/ active = "ll prune" /\ LlPrune!Init
    \/ active = "st ebs" /\ StEbs!Init
    \/ active = "st battle" /\ StBattle!Init
    \/ active = "ib twice" /\ IbTwice!Init
    \/ active = "ib queue" /\ IbQueue!Init
    \/ active = "ib txs" /\ IbTxs!Init
    \/ active = "ib chain" /\ IbChain!Init
    \/ active = "engine" /\ Sc!Init

NodesNext ==
    \/ active = "sc" /\ Sc!Next
    \/ active = "sc fork" /\ ScFork!Next
    \/ active = "sc txs" /\ ScTxs!Next
    \/ active = "sc drain" /\ ScDrain!Next
    \/ active = "ll pool" /\ LlPool!Next
    \/ active = "ll txs" /\ LlTxs!Next
    \/ active = "ll header" /\ LlHeader!Next
    \/ active = "ll votes" /\ LlVotes!Next
    \/ active = "ll prune" /\ LlPrune!Next
    \/ active = "st ebs" /\ StEbs!Next
    \/ active = "st battle" /\ StBattle!Next
    \/ active = "ib twice" /\ IbTwice!Next
    \/ active = "ib queue" /\ IbQueue!Next
    \/ active = "ib txs" /\ IbTxs!Next
    \/ active = "ib chain" /\ IbChain!Next

Init == active \in Scenarios /\ NodesInit /\ Engine!Init

Next ==
    /\ UNCHANGED active
    /\ \/ NodesNext /\ UNCHANGED engine_vars
       \/ active = "engine" /\ Engine!Next /\ UNCHANGED sim_vars

(* Each thread of the engine that has not stopped goes on.                 *)
Scheduled == \A s \in {0, 1} :
    ([]<>(active # "engine" \/ Engine!Ended(s))) \/ []<><<active = "engine" /\ Engine!GoesOn(s)>>_engine_vars

Spec == Init /\ [][Next]_vars
FairSpec == Spec /\ Scheduled

-----------------------------------------------------------------------------
(* WaitsIndexed, EbsReach, ChainsAgree, CertSound and NoneTwice of         *)
(* SharedConsensus: an EB with transactions missing is in the index of     *)
(* each, in the end every EB is complete and all nodes have one chain, a   *)
(* certificate is a quorum of distinct voters, and no transaction is twice *)
(* on a chain.                                                             *)
AdapterSound ==
    /\ active = "sc" =>
          Sc!WaitsIndexed /\ Sc!EbsReach /\ Sc!ChainsAgree /\ Sc!CertSound /\ Sc!NoneTwice
    /\ active = "sc fork" =>
          ScFork!WaitsIndexed /\ ScFork!EbsReach /\ ScFork!ChainsAgree /\ ScFork!CertSound /\ ScFork!NoneTwice
    /\ active = "sc txs" =>
          ScTxs!WaitsIndexed /\ ScTxs!EbsReach /\ ScTxs!ChainsAgree /\ ScTxs!CertSound /\ ScTxs!NoneTwice
    /\ active = "sc drain" =>
          ScDrain!WaitsIndexed /\ ScDrain!ChainsAgree /\ ScDrain!CertSound /\ ScDrain!NoneTwice

(* PoolSound, WaitsAccounted, EbReaches, CertSound and QuorumOnce of       *)
(* LinearLeios: the indices of the mempool are exact, an EB waits for      *)
(* transactions that will release it, in the end every EB is validated     *)
(* everywhere, a certificate counts a committee member once, and a quorum  *)
(* is reported once.                                                       *)
LinearSound ==
    /\ active = "ll pool" =>
          LlPool!PoolSound /\ LlPool!EbReaches /\ LlPool!CertSound /\ LlPool!QuorumOnce
    /\ active = "ll txs" =>
          LlTxs!PoolSound /\ LlTxs!WaitsAccounted /\ LlTxs!EbReaches /\ LlTxs!CertSound /\ LlTxs!QuorumOnce
    /\ active = "ll header" =>
          LlHeader!PoolSound /\ LlHeader!WaitsAccounted /\ LlHeader!EbReaches /\ LlHeader!CertSound /\ LlHeader!QuorumOnce
    /\ active = "ll votes" =>
          LlVotes!PoolSound /\ LlVotes!WaitsAccounted /\ LlVotes!EbReaches /\ LlVotes!CertSound /\ LlVotes!QuorumOnce
    /\ active = "ll prune" =>
          LlPrune!PoolSound /\ LlPrune!WaitsAccounted /\ LlPrune!EbReaches /\ LlPrune!CertSound /\ LlPrune!QuorumOnce

(* PoolsNest, AllReach, NeverPanics, EndorsedOnce and CertifiedOnly of     *)
(* Stracciatella: its two mempools agree, in the end every EB and block is *)
(* at every node, no handler panics, and a block endorses what a quorum    *)
(* voted for, once on a chain.                                             *)
StracciatellaSound ==
    /\ active = "st ebs" =>
          StEbs!PoolsNest /\ StEbs!AllReach /\ StEbs!NeverPanics /\ StEbs!EndorsedOnce /\ StEbs!CertifiedOnly
    /\ active = "st battle" =>
          StBattle!PoolsNest /\ StBattle!AllReach /\ StBattle!NeverPanics /\ StBattle!EndorsedOnce /\ StBattle!CertifiedOnly

(* IbsReach, EquivocationProven and PoolsNest of SimLeios: in the end      *)
(* every input block is at every node, who forwards one of two headers     *)
(* with one VRF forwards the other too, and the mempools nest.             *)
FullSound ==
    /\ active = "ib twice" =>
          IbTwice!EquivocationProven /\ IbTwice!PoolsNest
    /\ active = "ib queue" =>
          IbQueue!IbsReach /\ IbQueue!EquivocationProven /\ IbQueue!PoolsNest
    /\ active = "ib txs" =>
          IbTxs!IbsReach /\ IbTxs!EquivocationProven /\ IbTxs!PoolsNest
    /\ active = "ib chain" =>
          IbChain!EquivocationProven /\ IbChain!PoolsNest

(* EachOnce and AllStop of Sequential: no message between shards is lost   *)
(* or handled twice, and no shards wait for each other for ever.           *)
EngineSound ==
    /\ [](active = "engine" => Engine!EachOnce)
    /\ active = "engine" ~> active = "engine" /\ Engine!Stopped

(* Deterministic of Sequential: neither the split into shards nor the      *)
(* scheduling of their threads shows in a simulation.                      *)
Deterministic == active = "engine" => Engine!Deterministic
=============================================================================
