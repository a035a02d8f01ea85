------------------------------- MODULE MCNet --------------------------------
(***************************************************************************)
(* The network of net-core, component by component.  The initial state     *)
(* chooses the component that moves (active); the others keep their        *)
(* initial state, so that the state spaces add up instead of multiplying:  *)
(*   "mux"        two protocols of different traffic classes over one      *)
(*                connection, with messages larger than a segment and      *)
(*                ingress queues of one segment;                           *)
(*   "lossy mux"  the same with one sender, on a transport that may fail;  *)
(*   "protocols"  the eight mini-protocols, client against server;         *)
(*   "txs"        transactions pulled from two peers that announce the     *)
(*                same ones, with a window and one connection that drops;  *)
(*   "life"       the coordinator with a configured and a discovered       *)
(*                address, dials that fail, a blocklist and shutdown;      *)
(*   "accept"     two endpoints of one address dial in while a configured  *)
(*                peer is up, with command channels of one command;        *)
(*   "fetch"      a range fetched from one of two peers that may reset;    *)
(*   "serve"      the other commands, a simulated delay, rollbacks and a   *)
(*                peer that falls silent;                                  *)
(*   "leios"      the Leios store and a LeiosNotify connection;            *)
(*   "quit"       the same with a client that quits, for the liveness.     *)
(***************************************************************************)
EXTENDS Naturals, Sequences, FiniteSets

VARIABLES
    active,
    egress, open, writing, sched, muxer, bearer, routes, ingress, reader, demuxer, sent, got,
    proto, state, pc, wire, error,
    queue, fed, announced, bodies, msg, outstanding, dedup, requested, received,
    coord, peer_events, delayed, accepting, inbound, running, told, waiting, added,
    store, inputs, clock, control, offers_seen, forwarded, conn, client, requests, replies, heard

mux_vars == <<egress, open, writing, sched, muxer, bearer, routes, ingress, reader, demuxer, sent, got>>
protocol_vars == <<proto, state, pc, wire, error>>
tx_vars == <<queue, fed, announced, bodies, msg, outstanding, dedup, requested, received>>
peer_vars == <<coord, peer_events, delayed, accepting, inbound, running, told, waiting, added>>
leios_vars == <<store, inputs, clock, control, offers_seen, forwarded, conn, client, requests, replies,
                heard>>
vars == <<active, mux_vars, protocol_vars, tx_vars, peer_vars, leios_vars>>

-----------------------------------------------------------------------------
MessageSize(m) == IF m = "y" THEN 1 ELSE 3
MuxScript(k) == IF k = "chainsync" THEN <<"b">> ELSE <<"x", "y">>
FaultScript(k) == IF k = "chainsync" THEN <<>> ELSE <<"x", "y">>
MuxPid(k) == IF k = "chainsync" THEN 2 ELSE 3
MuxWeight(p) == IF p = 2 THEN 0 ELSE 1
MuxLimit(k) == IF k = "chainsync" THEN 3 ELSE 2
MuxMaxSize(k) == 4
Mx == INSTANCE Mux WITH
        KeyOrder <- <<"chainsync", "blockfetch">>, Pid <- MuxPid, Weight <- MuxWeight,
        Script <- MuxScript, Size <- MessageSize, SduSize <- 2, QueueSize <- 1, BearerSize <- 1,
        Limit <- MuxLimit, MaxSize <- MuxMaxSize, Known <- {"chainsync", "blockfetch"}, Lossy <- FALSE
Mf == INSTANCE Mux WITH
        KeyOrder <- <<"chainsync", "blockfetch">>, Pid <- MuxPid, Weight <- MuxWeight,
        Script <- FaultScript, Size <- MessageSize, SduSize <- 2, QueueSize <- 1, BearerSize <- 1,
        Limit <- MuxLimit, MaxSize <- MuxMaxSize, Known <- {"chainsync", "blockfetch"}, Lossy <- TRUE

(* Both instances are ones that the theorems about Mux cover.              *)
ASSUME MuxWellformed == Mx!Wellformed /\ Mf!Wellformed

Mp == INSTANCE MiniProtocols WITH Window <- 2, Breaks <- TRUE

TxFeed(p) == IF p = "p1" THEN <<"t1", "u", "t2">> ELSE <<"t2", "t1", "t1">>
Ts == INSTANCE TxSubmission WITH
        Peers <- {"p1", "p2"}, Txs <- {"t1", "t2", "u"}, Parseable <- {"t1", "t2"},
        MaxUnacked <- 2, DedupCap <- 3, Feed <- TxFeed, Drops <- {"p1"}

-----------------------------------------------------------------------------
OneIp(r) == "ip"
(* The remotes are the same in every mode, so that the initial states are. *)
Life == INSTANCE Coordinator WITH
    Configured <- {"a"}, Discovered <- {"d"}, Remotes <- {"r1", "r2"}, Ip <- OneIp, Loopback <- {"lo"},
    MaxPeers <- 2, MaxPerIp <- 1, MaxHandshaking <- 0, CommandCapacity <- 2, Duplex <- TRUE,
    Delayed <- {}, MaxBackoff <- 4, Chain <- <<>>, Requests <- {},
    Commands <- {"AddPeer", "AddDiscoveredPeer", "SetPeerBlocklist", "Shutdown"},
    Faults <- {"dial", "reset"}, MaxId <- 3, MaxEvents <- 1

Acc == INSTANCE Coordinator WITH
    Configured <- {"a"}, Discovered <- {}, Remotes <- {"r1", "r2"}, Ip <- OneIp, Loopback <- {"lo"},
    MaxPeers <- 2, MaxPerIp <- 1, MaxHandshaking <- 1, CommandCapacity <- 1, Duplex <- TRUE,
    Delayed <- {}, MaxBackoff <- 2, Chain <- <<"b1">>, Requests <- {},
    Commands <- {"DropInboundPeers", "ReIntersect", "Shutdown"},
    Faults <- {"reset"}, MaxId <- 3, MaxEvents <- 2

Fet == INSTANCE Coordinator WITH
    Configured <- {"a", "b"}, Discovered <- {}, Remotes <- {"r1", "r2"}, Ip <- OneIp, Loopback <- {"lo"},
    MaxPeers <- 2, MaxPerIp <- 1, MaxHandshaking <- 0, CommandCapacity <- 1, Duplex <- TRUE,
    Delayed <- {}, MaxBackoff <- 1, Chain <- <<"b1", "b2">>, Requests <- {<<"b1", "b2">>},
    Commands <- {"AddPeer", "FetchBlockRange"}, Faults <- {"reset", "announces"},
    MaxId <- 2, MaxEvents <- 2

Srv == INSTANCE Coordinator WITH
    Configured <- {"a"}, Discovered <- {}, Remotes <- {"r1", "r2"}, Ip <- OneIp, Loopback <- {"lo"},
    MaxPeers <- 2, MaxPerIp <- 1, MaxHandshaking <- 0, CommandCapacity <- 1, Duplex <- TRUE,
    Delayed <- {"a"}, MaxBackoff <- 1, Chain <- <<"b1", "b2">>, Requests <- {},
    Commands <- {"AddPeer", "FetchBlock", "Dispatch", "DiscoverPeers"},
    Faults <- {"announces", "rolls back", "silent"}, MaxId <- 1, MaxEvents <- 2

EbSlot(e) == <<1, 3, 4>>[e]
HeaderEb(h) == IF h = "h1" THEN 1 ELSE 2
In(kind, source, what) == [kind |-> kind, source |-> source, what |-> what]
Local == "local"
LeiosScenarios == {
    {In("announce", Local, "h1"), In("block", Local, 1), In("block", "p", 2),
     In("tick", Local, 3), In("tick", Local, 5)},
    {In("announce", Local, "h1"), In("block", "p", 1), In("block", Local, 1), In("quit", "p", 0)},
    {In("manifest", Local, 2), In("some txs", "q", 2), In("txs", Local, 2), In("announce", "q", "h2")},
    {In("offer", "q", 1), In("offer", "q", 2), In("offer", "q", 3), In("votes", "q", {"v"}),
     In("votes", "q", {"v", "w"}), In("votes", Local, {"v", "w"})}}
Leios == INSTANCE LeiosDiffusion WITH
    told <- heard, dedup <- offers_seen, Slot <- EbSlot, Announces <- HeaderEb, Idx <- {0, 1}, Capacity <- 1, Retention <- 3,
    MaxNotifications <- 3, RetryInterval <- 2, MaxRetries <- 1, Conns <- {"p"},
    Scenarios <- LeiosScenarios, Depth <- 1, MaxPending <- 3, Window <- 2,
    Controls <- {[echo |-> FALSE, withhold |-> FALSE], [echo |-> FALSE, withhold |-> TRUE]}

-----------------------------------------------------------------------------
Transport == {"mux", "lossy mux", "protocols", "txs"}
Coordinating == {"life", "accept", "fetch", "serve"}
Notifying == {"leios", "quit"}
Muxing == active \in {"mux", "lossy mux"}

Init ==
    /\ active \in Transport \cup Coordinating \cup Notifying
    /\ Mx!Init /\ Ts!Init /\ Mp!Init
    /\ active # "protocols" => proto = "handshake"
    /\ IF active \in {"life", "accept"} THEN Life!Init
       ELSE IF active = "serve" THEN Srv!Init ELSE Fet!Init
    /\ Leios!Init
    /\ CASE active = "leios" -> control.withhold <=> In("quit", "p", 0) \in inputs
         [] OTHER -> ~control.withhold /\ In("quit", "p", 0) \in inputs

MuxNext ==
    \/ active = "mux" /\ Mx!Next
    \/ active = "lossy mux" /\ Mf!Next
CoordNext ==
    \/ active = "life" /\ Life!Next
    \/ active = "accept" /\ Acc!Next
    \/ active = "fetch" /\ Fet!Next
    \/ active = "serve" /\ Srv!Next

Next ==
    /\ UNCHANGED active
    /\ \/ MuxNext /\ UNCHANGED <<protocol_vars, tx_vars, peer_vars, leios_vars>>
       \/ active = "protocols" /\ Mp!Next /\ UNCHANGED <<mux_vars, tx_vars, peer_vars, leios_vars>>
       \/ active = "txs" /\ Ts!Next /\ UNCHANGED <<mux_vars, protocol_vars, peer_vars, leios_vars>>
       \/ CoordNext /\ UNCHANGED <<mux_vars, protocol_vars, tx_vars, leios_vars>>
       \/ /\ active \in Notifying /\ Leios!Next
          /\ UNCHANGED <<mux_vars, protocol_vars, tx_vars, peer_vars>>

(* The fairness of each component, while it is the active one: its tasks,  *)
(* and both ends of a connection, keep being polled.                       *)
Spec ==
    /\ Init /\ [][Next]_vars
    /\ WF_mux_vars(Muxing /\ (Mx!Schedule \/ Mx!WriteSegment \/ Mx!MuxerEnds))
    /\ WF_mux_vars(Muxing /\ (Mx!Demux \/ Mx!DemuxEof))
    /\ \A k \in Mx!Keys : WF_mux_vars(Muxing /\ (Mx!Decode(k) \/ Mx!Receive(k)))
    /\ \A r \in Mp!Roles : WF_protocol_vars(active = "protocols" /\ (Mp!Send(r) \/ Mp!Recv(r)))
    /\ \A p \in {"p1", "p2"} : WF_tx_vars(active = "txs" /\ Ts!Step(p))
    /\ WF_peer_vars(active = "fetch" /\ Fet!PeerEvent)
    /\ \A p \in Fet!Ids : WF_peer_vars(active = "fetch" /\ Fet!TaskStep(p))
    /\ WF_leios_vars(active = "quit" /\ Leios!Polled("p"))
    /\ WF_leios_vars(active = "quit" /\ Leios!Downstream("p"))

-----------------------------------------------------------------------------
(* ChannelSpec of Mux: the connection implements the abstract FIFO         *)
(* channels of Channels.                                                   *)
MuxChannels == Mx!ChannelSpec

(* CounterExact of Mux: the ingress counter, which the demuxer checks      *)
(* against the limit, is exactly the bytes not taken yet.                  *)
CounterExact == Mx!CounterExact

(* Conforming and NeverStuck of MiniProtocols: no end sends without agency *)
(* or receives what it cannot handle, and the ends never wait for each     *)
(* other.                                                                  *)
ProtocolsSound == Mp!Conforming /\ Mp!NeverStuck

(* PullSound of TxSubmission: the window is kept, no body outlives its     *)
(* announcement, and no body is requested from two peers.                  *)
PullSound == Ts!PullSound

(* ConnectsPaired, OneLivePerAddress, SlotsExact, NothingLeftBehind and    *)
(* ConfiguredKept of Coordinator: what it keeps per peer and per address   *)
(* agrees with the tasks alive and with what the application was told.     *)
PeersSound ==
    /\ active = "life" => Life!ConnectsPaired
    /\ active = "accept" => Acc!ConnectsPaired
    /\ active = "fetch" => Fet!ConnectsPaired
    /\ active = "serve" => Srv!ConnectsPaired
    /\ active \in Coordinating =>
          Life!OneLivePerAddress /\ Life!SlotsExact /\ Life!NothingLeftBehind /\ Life!ConfiguredKept

(* CreditsExact, NoOfferLost, ForwardedOnce and NeverMiscounted of         *)
(* LeiosDiffusion: requests and answers balance, the cursor passes no      *)
(* offer that is not owed or sent, and an offer is surfaced once.          *)
NotifySound ==
    active \in Notifying =>
        Leios!CreditsExact /\ Leios!NoOfferLost /\ Leios!ForwardedOnce /\ Leios!NeverMiscounted

(* AnnouncedFirst and OfferedOnce of LeiosDiffusion: on a connection an    *)
(* offer follows the announcement, and nothing is offered twice.           *)
OffersInOrder == Leios!AnnouncedFirst /\ Leios!OfferedOnce

(* Replied of MiniProtocols, Pulled of TxSubmission, FetchAnswered of      *)
(* Coordinator, OffersReach and QuitAnswered of LeiosDiffusion: whoever    *)
(* waits for an answer gets it.  As `active` never changes, the answers    *)
(* that different components wait for are one leads-to formula; where one  *)
(* component can wait for two, i tells them apart.                         *)
Waits(i) ==
    \/ active = "protocols" /\ Mp!Waiting
    \/ active = "txs" /\ Ts!Queued(<<"t1", "t2">>[i])
    \/ active = "fetch" /\ Fet!Fetching(<<"b1", "b2">>)
    \/ active = "quit" /\ (IF i = 1 THEN Leios!Owed("p", 1) ELSE Leios!Quitting("p"))
Served(i) ==
    \/ active = "protocols" /\ Mp!Served
    \/ active = "txs" /\ Ts!Arrived(<<"t1", "t2">>[i])
    \/ active = "fetch" /\ Fet!FetchEnded(<<"b1", "b2">>)
    \/ active = "quit" /\ (IF i = 1 THEN Leios!Settled("p", 1) ELSE Leios!Quit("p"))
AllAnswered == \A i \in {1, 2} : Waits(i) ~> Served(i)
=============================================================================
