------------------------------ MODULE MCEngine ------------------------------
(***************************************************************************)
(* The mempool, and the parts of the simulator around its nodes: engines,  *)
(* links, sharding, partitions and what becomes of the events.  The        *)
(* initial state chooses the component that moves (active).                *)
(*                                                                         *)
(* The mempool: three transactions, of which two exceed a ranking block's  *)
(* body by themselves, and three EBs: one that the node may forge in slot  *)
(* 1, a remote one of the same slot with which it shares transactions, and *)
(* a remote one of slot 3, which ends the retention of the other two.      *)
(*                                                                         *)
(* The other components have nothing in common, and only one of them has a *)
(* state at a time: each takes its variables from x1 .. x13, and leaves 0  *)
(* in those it has no use for.                                             *)
(***************************************************************************)
EXTENDS Mempool

CONSTANT Modes

VARIABLES active, x1, x2, x3, x4, x5, x6, x7, x8, x9, x10, x11, x12, x13

x5to13 == <<x5, x6, x7, x8, x9, x10, x11, x12, x13>>
x6to13 == <<x6, x7, x8, x9, x10, x11, x12, x13>>
x9to13 == <<x9, x10, x11, x12, x13>>
x10to13 == <<x10, x11, x12, x13>>
simVars == <<x1, x2, x3, x4, x5to13>>
allVars == <<active, vars, simVars>>

MCSize == <<1, 2, 2>>
ASSUME WithoutSelects ==
    \A s \in UNION {[1..n -> Tx] : n \in 0..4}, S \in SUBSET Tx :
        Without(s, S) = SelectSeq(s, LAMBDA t : t \notin S)

MCEbSlot == [e \in EB |-> IF e = 30 THEN 3 ELSE 1]
MCContent == [e \in RemoteEB |-> IF e = 20 THEN {1, 2} ELSE {2}]

-----------------------------------------------------------------------------
Three == {1, 2, 3}

(* The actor engine: on one shard with a transaction, and on two.          *)
OneShard(n) == 0
ShardEach(n) == n - 1
Near(a, b) == IF a = b THEN 0 ELSE 1
SendsOnce(n, at) == IF at = 0 /\ n = 1 THEN {2} ELSE {}
NoRelays(n) == {}
Act == INSTANCE ActorEngine WITH
    clock <- x1, coord <- x2, actor <- x3, net <- x4, inbox <- x5, txs <- x6, handled <- x7,
    stopped <- x8, panicked <- x9,
    Nodes <- {1, 2}, Shards <- {0}, ShardOf <- OneShard, Latency <- Near, SlotSends <- SendsOnce,
    Relays <- NoRelays, MaxHops <- 0, CpuTime <- 1, TxTimes <- {1}, TxNode <- 1, SlotTime <- 3, MaxSlot <- 1
ActTwo == INSTANCE ActorEngine WITH
    clock <- x1, coord <- x2, actor <- x3, net <- x4, inbox <- x5, txs <- x6, handled <- x7,
    stopped <- x8, panicked <- x9,
    Nodes <- {1, 2}, Shards <- {0, 1}, ShardOf <- ShardEach, Latency <- Near, SlotSends <- SendsOnce,
    Relays <- NoRelays, MaxHops <- 0, CpuTime <- 1, TxTimes <- {}, TxNode <- 1, SlotTime <- 3, MaxSlot <- 1

(* Links that share the bandwidth, that have no limit, and whose event     *)
(* stays where it is.                                                      *)
Link == INSTANCE SimLink WITH
    link <- x1, now <- x2, event <- x3, sent <- x4, received <- x5,
    Second <- 6, Latency <- 2, Bandwidth <- 4, Protocols <- {1, 2}, Sizes <- {1, 4}, MaxSends <- 3,
    LastSend <- 2, Moves <- TRUE
LinkFree == INSTANCE SimLink WITH
    link <- x1, now <- x2, event <- x3, sent <- x4, received <- x5,
    Second <- 6, Latency <- 2, Bandwidth <- 0, Protocols <- {1, 2}, Sizes <- {1, 4}, MaxSends <- 3,
    LastSend <- 2, Moves <- TRUE
LinkFast == INSTANCE SimLink WITH
    link <- x1, now <- x2, event <- x3, sent <- x4, received <- x5,
    Second <- 6, Latency <- 1, Bandwidth <- 9, Protocols <- {1, 2}, Sizes <- {1, 4}, MaxSends <- 3,
    LastSend <- 3, Moves <- FALSE
Tcp == INSTANCE TcpLink WITH
    now <- x1, state <- x2, send_cursor <- x3, latency_queue <- x4, sends <- x5, arrivals <- x6,
    fragments <- x7, received <- x8,
    Latency <- 3, PerByte <- 1, InitialWindow <- 2, IdleTime <- 2, Sizes <- {2, 5}, MaxSends <- 3,
    LastSend <- 6

(* Two windows of a partition that may overlap, on a line of three nodes.  *)
Isolate == [name : {"x"}, kind : {"isolate"}, from : {{1}, {2}}, to : {{}}, direction : {"both", "from-to"},
            start : 0..2, stop : {0, 2, 3}]
Between == [name : {"y"}, kind : {"set"}, from : {{2}}, to : {{1}, {1, 3}}, direction : {"both", "to-from"},
            start : {1, 2}, stop : {0, 1, 3}]
Parts == INSTANCE Partition WITH
    scenarios <- x1, runtime <- x2, time <- x3, emitted <- x4,
    Nodes <- Three, Edges <- {{1, 2}, {2, 3}}, Scenarios <- (Isolate \X Between) \cup {<<>>}, MaxTime <- 4

(* All networks of four nodes with latencies 0 to 2 and a link fixed.      *)
Four == 0..3
Pairs == {p \in Four \X Four : p[1] < p[2]}
Latencies == {f \in [Pairs -> 0..3] : f[<<0, 1>>] = 1 /\ f[<<2, 3>>] \in {0, 2}}
LinksOf(f) == {[a |-> p[1], b |-> p[2], latency |-> f[p]] : p \in {q \in Pairs : f[q] < 3}}
Shd == INSTANCE Sharding WITH
    links <- x1, strategy <- x2, lookup <- x3, bisections <- x4,
    Nodes <- Four, Topologies <- {LinksOf(f) : f \in Latencies}, ShardCount <- 2, MaxSizePct <- 1000

(* The stream of events of two shards, and the reports made of it.         *)
Str == INSTANCE EventStream WITH
    now <- x1, sent <- x2, chan <- x3, buffered <- x4, high <- x5, out <- x6, totals <- x7, seconds <- x8,
    slots <- x9, cancelled <- x10, simulation <- x11, monitor <- x12, report <- x13,
    Shards <- {1, 2}, Skew <- 2, MaxLag <- 1, Window <- 2, Bucket <- 2, MaxEvents <- 1, Slots <- 2

StakeOf(n) == IF n = 1 THEN 0 ELSE n
Vts == INSTANCE VoteStats WITH
    clock <- x1, events <- x2, generated <- x3, delays <- x4, seen <- x5, collapsed <- x6, coverage <- x7,
    quorums <- x8, processed <- x9, obsolete <- x10, first <- x11, crossed <- x12,
    Nodes <- Three, Producer <- 1, Target <- 2, Weight <- StakeOf, Den <- 4, MaxDelay <- 2, MaxEvents <- 3

(* Transactions in input blocks and EBs, and in EBs of Linear Leios.       *)
IbOf(i) == [pipeline |-> IF i = "i1" THEN 1 ELSE 2, txs |-> IF i = "i1" THEN {"t1"} ELSE {"t1", "t2"}]
FullEb(e) == [pipeline |-> IF e = "e1" THEN 1 ELSE 2, txs |-> {}, ibs |-> IF e = "e1" THEN {"i1"} ELSE {"i1", "i2"},
              ebs |-> {}]
LinearEb(e) == [pipeline |-> 1, txs |-> IF e = "e1" THEN {"t1"} ELSE {"t2"}, ibs |-> {},
                ebs |-> IF e = "e1" THEN {} ELSE {"e1"}]
RbOf(r) == CASE r = "r1" -> [slot |-> 2, producer |-> 1, vrf |-> 5, txs |-> {}, eb |-> "e1"]
             [] r = "r2" -> [slot |-> 2, producer |-> 2, vrf |-> 3, txs |-> {"t1"}, eb |-> "none"]
             [] r = "r3" -> [slot |-> 3, producer |-> 1, vrf |-> 4, txs |-> {"t2"}, eb |-> "e2"]
TxFull == INSTANCE TxMonitor WITH
    slot <- x1, emitted <- x2, votes <- x3, live <- x4, libs <- x5, lebs <- x6, lost <- x7, type <- x8,
    included <- x9, blocks <- x10, published <- x11, rejected <- x12, status <- x13,
    Txs <- {"t1", "t2"}, Ibs <- {"i1", "i2"}, Ebs <- {"e1", "e2"}, Rbs <- {"r1", "r2", "r3"},
    EbOf <- FullEb, Threshold <- 1, StageLength <- 1, MaxSlot <- 5
TxLinear == INSTANCE TxMonitor WITH
    slot <- x1, emitted <- x2, votes <- x3, live <- x4, libs <- x5, lebs <- x6, lost <- x7, type <- x8,
    included <- x9, blocks <- x10, published <- x11, rejected <- x12, status <- x13,
    Txs <- {"t1", "t2"}, Ibs <- {}, Ebs <- {"e1", "e2"}, Rbs <- {"r1", "r2", "r3"},
    EbOf <- LinearEb, Threshold <- 1, StageLength <- 2, MaxSlot <- 5

-----------------------------------------------------------------------------
Zero10 == x10 = 0 /\ x11 = 0 /\ x12 = 0 /\ x13 = 0
Zero9 == x9 = 0 /\ Zero10
Zero6 == x6 = 0 /\ x7 = 0 /\ x8 = 0 /\ Zero9
Zero5 == x5 = 0 /\ Zero6

SimInit ==
    \/ active = "mempool" /\ x1 = 0 /\ x2 = 0 /\ x3 = 0 /\ x4 = 0 /\ Zero5
    \/ active = "actor" /\ Act!Init /\ Zero10
    \/ active = "actor shards" /\ ActTwo!Init /\ Zero10
    \/ active \in {"link", "link free", "link fast"} /\ Link!Init /\ Zero6
    \/ active = "tcp" /\ Tcp!Init /\ Zero9
    \/ active = "partition" /\ Parts!Init /\ Zero5
    \/ active = "sharding" /\ Shd!Init /\ Zero5
    \/ active = "stream" /\ Str!Init
    \/ active = "votes" /\ Vts!Init /\ x13 = 0
    \/ active = "txs" /\ TxFull!Init
    \/ active = "txs linear" /\ TxLinear!Init

SimNext ==
    \/ active = "actor" /\ Act!Next /\ UNCHANGED x10to13
    \/ active = "actor shards" /\ ActTwo!Next /\ UNCHANGED x10to13
    \/ active = "link" /\ Link!Next /\ UNCHANGED x6to13
    \/ active = "link free" /\ LinkFree!Next /\ UNCHANGED x6to13
    \/ active = "link fast" /\ LinkFast!Next /\ UNCHANGED x6to13
    \/ active = "tcp" /\ Tcp!Next /\ UNCHANGED x9to13
    \/ active = "partition" /\ Parts!Next /\ UNCHANGED x5to13
    \/ active = "sharding" /\ Shd!Next /\ UNCHANGED x5to13
    \/ active = "stream" /\ Str!Next
    \/ active = "votes" /\ Vts!Next /\ UNCHANGED x13
    \/ active = "txs" /\ TxFull!Next
    \/ active = "txs linear" /\ TxLinear!Next

AllInit == active \in Modes /\ Init /\ SimInit
AllNext ==
    /\ UNCHANGED active
    /\ \/ active = "mempool" /\ Next /\ UNCHANGED simVars
       \/ SimNext /\ UNCHANGED vars

AllSpec == AllInit /\ [][AllNext]_allVars

-----------------------------------------------------------------------------
(* NeverPanics, NeverHangs and SlotsOnTime of ActorEngine, CutExact and    *)
(* EdgesOnce of Partition, ZeroTogether, LookaheadBest and NeverWorse of   *)
(* Sharding, and what SimLink and TcpLink promise: the engines and links   *)
(* lose nothing, repeat nothing and keep the time.                         *)
EnginesSound ==
    /\ active = "actor" => Act!NeverPanics /\ Act!NeverHangs /\ Act!SlotsOnTime
    /\ active = "actor shards" => ActTwo!NeverPanics /\ ActTwo!NeverHangs /\ ActTwo!SlotsOnTime
    /\ active = "link" => Link!InOrder /\ Link!NotEarly /\ Link!OnTime /\ Link!NoneStuck
    /\ active = "link free" => LinkFree!InOrder /\ LinkFree!NotEarly /\ LinkFree!OnTime /\ LinkFree!NoneStuck
    /\ active = "link fast" => LinkFast!InOrder /\ LinkFast!NotEarly /\ LinkFast!NoneStuck /\ LinkFast!NeverSpins
    /\ active = "tcp" => Tcp!WindowConserved /\ Tcp!RateBounded /\ Tcp!ArriveInOrder
    /\ active = "partition" => Parts!CutExact /\ Parts!EdgesOnce
    /\ active = "sharding" => Shd!ZeroTogether /\ Shd!LookaheadBest /\ Shd!NeverWorse

(* OutputInOrder, PublishedWhole and OutputWhole of EventStream,           *)
(* CoverageExact, QuantileExact and RepeatsCounted of VoteStats, and       *)
(* LiveExact, BattlesSettled and StatusAgrees of TxMonitor: what is        *)
(* reported of a simulation is what happened in it.                        *)
ReportsExact ==
    /\ active = "stream" => Str!OutputInOrder /\ Str!PublishedWhole /\ Str!OutputWhole
    /\ active = "votes" => Vts!CoverageExact /\ Vts!QuantileExact /\ Vts!RepeatsCounted
    /\ active = "txs" => TxFull!LiveExact /\ TxFull!BattlesSettled /\ TxFull!StatusAgrees
    /\ active = "txs linear" => TxLinear!LiveExact /\ TxLinear!BattlesSettled /\ TxLinear!StatusAgrees

(* HeldForMessages of ActorEngine: the time does not pass a message that   *)
(* is under way.                                                           *)
Held == /\ active = "actor" => Act!Holds
        /\ active = "actor shards" => ActTwo!Holds
HeldForMessages == [][Held]_allVars
=============================================================================
