--------------------------- MODULE MiniProtocols ---------------------------
(***************************************************************************)
(* The mini-protocols of net-core/src/protocols over a FIFO channel pair.  *)
(* A protocol is a state machine with an agency in every state; a Runner   *)
(* at each end tracks the state and refuses to send or to receive against  *)
(* it.  On top of the two Runners run the client helpers and the server    *)
(* handlers, as automata over "!m" (send m) and "?m" (receive m).          *)
(***************************************************************************)
EXTENDS Naturals, Sequences, FiniteSets

CONSTANTS Window,   \* how many messages the transport holds in one direction
          Breaks    \* whether a connection may break

VARIABLES proto,   \* the protocol of this connection
          state,   \* state[r]: the protocol state the Runner of role r is in
          pc,      \* pc[r]: where the program of role r is
          wire,    \* wire[r]: the messages sent by role r and not received yet
          error    \* error[r]: the ProtocolError the program of r ended with

vars == <<proto, state, pc, wire, error>>

Roles == {"client", "server"}
Other(r) == IF r = "client" THEN "server" ELSE "client"

-----------------------------------------------------------------------------
(* The protocols: initial_state, agency, transition, and the states whose  *)
(* receiver has a timeout.                                                 *)

Handshake ==
    [init |-> "Propose", client |-> {"Propose"}, server |-> {"Confirm"}, timed |-> {"Propose", "Confirm"},
     trans |-> {<<"Propose", "ProposeVersions", "Confirm">>, <<"Confirm", "AcceptVersion", "Done">>,
                <<"Confirm", "Refuse", "Done">>, <<"Confirm", "QueryReply", "Done">>}]

ChainSync ==
    [init |-> "StIdle", client |-> {"StIdle"}, server |-> {"StCanAwait", "StMustReply", "StIntersect"},
     timed |-> {"StIdle", "StCanAwait", "StMustReply", "StIntersect"},
     trans |-> {<<"StIdle", "RequestNext", "StCanAwait">>, <<"StIdle", "FindIntersect", "StIntersect">>,
                <<"StIdle", "Done", "StDone">>, <<"StCanAwait", "AwaitReply", "StMustReply">>,
                <<"StCanAwait", "RollForward", "StIdle">>, <<"StCanAwait", "RollBackward", "StIdle">>,
                <<"StMustReply", "RollForward", "StIdle">>, <<"StMustReply", "RollBackward", "StIdle">>,
                <<"StIntersect", "IntersectFound", "StIdle">>, <<"StIntersect", "IntersectNotFound", "StIdle">>}]

BlockFetch ==
    [init |-> "StIdle", client |-> {"StIdle"}, server |-> {"StBusy", "StStreaming"},
     timed |-> {"StBusy", "StStreaming"},
     trans |-> {<<"StIdle", "RequestRange", "StBusy">>, <<"StIdle", "ClientDone", "StDone">>,
                <<"StBusy", "StartBatch", "StStreaming">>, <<"StBusy", "NoBlocks", "StIdle">>,
                <<"StStreaming", "Block", "StStreaming">>, <<"StStreaming", "BatchDone", "StIdle">>}]

KeepAlive ==
    [init |-> "StClient", client |-> {"StClient"}, server |-> {"StServer"}, timed |-> {"StClient", "StServer"},
     trans |-> {<<"StClient", "KeepAlive", "StServer">>, <<"StClient", "Done", "StDone">>,
                <<"StServer", "KeepAliveResponse", "StClient">>}]

TxSubmission ==
    [init |-> "StInit", client |-> {"StInit", "StTxIdsBlocking", "StTxIdsNonBlocking", "StTxs"},
     server |-> {"StIdle"}, timed |-> {"StTxIdsNonBlocking", "StTxs"},
     trans |-> {<<"StInit", "Init", "StIdle">>, <<"StIdle", "RequestTxIdsBlocking", "StTxIdsBlocking">>,
                <<"StIdle", "RequestTxIdsNonBlocking", "StTxIdsNonBlocking">>,
                <<"StIdle", "RequestTxs", "StTxs">>, <<"StTxIdsBlocking", "ReplyTxIds", "StIdle">>,
                <<"StTxIdsBlocking", "Done", "StDone">>, <<"StTxIdsNonBlocking", "ReplyTxIds", "StIdle">>,
                <<"StTxs", "ReplyTxs", "StIdle">>}]

PeerSharing ==
    [init |-> "StIdle", client |-> {"StIdle"}, server |-> {"StBusy"}, timed |-> {"StBusy"},
     trans |-> {<<"StIdle", "ShareRequest", "StBusy">>, <<"StIdle", "Done", "StDone">>,
                <<"StBusy", "SharePeers", "StIdle">>}]

LeiosNotify ==
    [init |-> "StIdle", client |-> {"StIdle"}, server |-> {"StBusy", "StQuit"}, timed |-> {"StQuit"},
     trans |-> {<<"StIdle", "RequestNext", "StBusy">>, <<"StIdle", "Quit", "StQuit">>,
                <<"StQuit", "Done", "StDone">>}
               \cup {<<"StBusy", m, "StIdle">> :
                       m \in {"Canceled", "BlockAnnouncement", "BlockOffer", "BlockTxsOffer", "Votes"}}]

LeiosFetch ==
    [init |-> "StIdle", client |-> {"StIdle"}, server |-> {"StBlock", "StBlockTxs"},
     timed |-> {"StBlock", "StBlockTxs"},
     trans |-> {<<"StIdle", "BlockRequest", "StBlock">>, <<"StBlock", "Block", "StIdle">>,
                <<"StIdle", "BlockTxsRequest", "StBlockTxs">>, <<"StBlockTxs", "BlockTxs", "StIdle">>,
                <<"StIdle", "Done", "StDone">>}]

Protocol == [handshake |-> Handshake, chainsync |-> ChainSync, blockfetch |-> BlockFetch,
             keepalive |-> KeepAlive, txsubmission |-> TxSubmission, peersharing |-> PeerSharing,
             leiosnotify |-> LeiosNotify, leiosfetch |-> LeiosFetch]

Agency(p, s) == CASE s \in Protocol[p].client -> "client"
                  [] s \in Protocol[p].server -> "server"
                  [] OTHER -> "nobody"

(* Protocol::transition: the next state, or none for InvalidMessage.       *)
Transition(p, s, m) == {t[3] : t \in {u \in Protocol[p].trans : u[1] = s /\ u[2] = m}}

-----------------------------------------------------------------------------
(* The programs: a step is <<pc, "!" or "?", message, pc'>>.               *)

(* handshake::run_client and run_server.                                   *)
HandshakeClient == {<<"go", "!", "ProposeVersions", "wait">>, <<"wait", "?", "AcceptVersion", "end">>,
                    <<"wait", "?", "Refuse", "end">>, <<"wait", "?", "QueryReply", "end">>}
HandshakeServer == {<<"go", "?", "ProposeVersions", "negotiate">>, <<"negotiate", "!", "AcceptVersion", "end">>,
                    <<"negotiate", "!", "Refuse", "end">>}

(* chainsync::find_intersection, request_next, done; serve_chainsync.      *)
ChainSyncClient == {<<"go", "!", "FindIntersect", "find">>, <<"find", "?", "IntersectFound", "go">>,
                    <<"find", "?", "IntersectNotFound", "go">>, <<"go", "!", "RequestNext", "next">>,
                    <<"next", "?", "RollForward", "go">>, <<"next", "?", "RollBackward", "go">>,
                    <<"next", "?", "AwaitReply", "awaited">>, <<"awaited", "?", "RollForward", "go">>,
                    <<"awaited", "?", "RollBackward", "go">>, <<"go", "!", "Done", "end">>}
MutChainSyncServer ==  (* Mutant: the server may say AwaitReply again while it awaits. *)
    {<<"go", "?", "FindIntersect", "find">>, <<"find", "!", "IntersectFound", "go">>,
     <<"go", "?", "RequestNext", "next">>, <<"next", "!", "AwaitReply", "awaited">>,
     <<"awaited", "!", "AwaitReply", "awaited">>, <<"awaited", "!", "RollForward", "go">>,
     <<"go", "?", "Done", "end">>}
ChainSyncServer == {<<"go", "?", "FindIntersect", "find">>, <<"find", "!", "IntersectFound", "go">>,
                    <<"find", "!", "IntersectNotFound", "go">>, <<"go", "?", "RequestNext", "next">>,
                    <<"next", "!", "RollForward", "go">>, <<"next", "!", "RollBackward", "go">>,
                    <<"next", "!", "AwaitReply", "awaited">>, <<"awaited", "!", "RollForward", "go">>,
                    <<"awaited", "!", "RollBackward", "go">>, <<"go", "?", "Done", "end">>}

(* blockfetch::request_range, recv_block, done; serve_blockfetch.          *)
BlockFetchClient == {<<"go", "!", "RequestRange", "ask">>, <<"ask", "?", "StartBatch", "batch">>,
                     <<"ask", "?", "NoBlocks", "go">>, <<"batch", "?", "Block", "batch">>,
                     <<"batch", "?", "BatchDone", "go">>, <<"go", "!", "ClientDone", "end">>}
BlockFetchServer == {<<"go", "?", "RequestRange", "look">>, <<"look", "!", "StartBatch", "first">>,
                     <<"look", "!", "NoBlocks", "go">>, <<"first", "!", "Block", "batch">>,
                     <<"batch", "!", "Block", "batch">>, <<"batch", "!", "BatchDone", "go">>,
                     <<"go", "?", "ClientDone", "end">>}

(* keepalive::keep_alive, done; serve_keepalive.                           *)
KeepAliveClient == {<<"go", "!", "KeepAlive", "wait">>, <<"wait", "?", "KeepAliveResponse", "go">>,
                    <<"go", "!", "Done", "end">>}
KeepAliveServer == {<<"go", "?", "KeepAlive", "echo">>, <<"echo", "!", "KeepAliveResponse", "round">>,
                    <<"round", "?", "KeepAlive", "echo">>, <<"go", "?", "Done", "end">>,
                    <<"round", "?", "Done", "end">>}

(* txsubmission::run_client; serve_txsubmission with fetch_fresh_txs.      *)
TxSubmissionClient == {<<"go", "!", "Init", "loop">>, <<"loop", "?", "RequestTxIdsBlocking", "block">>,
                       <<"loop", "?", "RequestTxIdsNonBlocking", "ids">>, <<"loop", "?", "RequestTxs", "txs">>,
                       <<"block", "!", "ReplyTxIds", "loop">>, <<"block", "!", "Done", "end">>,
                       <<"ids", "!", "ReplyTxIds", "loop">>, <<"txs", "!", "ReplyTxs", "loop">>}
TxSubmissionServer == {<<"go", "?", "Init", "loop">>, <<"loop", "!", "RequestTxIdsBlocking", "ids">>,
                       <<"ids", "?", "ReplyTxIds", "fresh">>, <<"ids", "?", "Done", "end">>,
                       <<"fresh", "!", "RequestTxIdsBlocking", "ids">>, <<"fresh", "!", "RequestTxs", "txs">>,
                       <<"txs", "?", "ReplyTxs", "loop">>}

(* peersharing::share_request, done; serve_peersharing.                    *)
PeerSharingClient == {<<"go", "!", "ShareRequest", "wait">>, <<"wait", "?", "SharePeers", "go">>,
                      <<"go", "!", "Done", "end">>}
PeerSharingServer == {<<"go", "?", "ShareRequest", "reply">>, <<"reply", "!", "SharePeers", "go">>,
                      <<"go", "?", "Done", "end">>}

(* leios_notify::request_next and done, the one-request client; against it *)
(* any server that follows the protocol.                                   *)
Notifications == {"BlockAnnouncement", "BlockOffer", "BlockTxsOffer", "Votes"}
LeiosNotifyClient == {<<"go", "!", "RequestNext", "wait">>, <<"wait", "?", "Canceled", "quit">>,
                      <<"quit", "!", "Quit", "drain">>, <<"go", "!", "Quit", "drain">>,
                      <<"drain", "?", "Done", "end">>}
                     \cup {<<"wait", "?", n, "go">> : n \in Notifications}
LeiosNotifyServer == {<<"go", "?", "RequestNext", "busy">>, <<"busy", "!", "Canceled", "go">>,
                      <<"go", "?", "Quit", "ack">>, <<"ack", "!", "Done", "end">>}
                     \cup {<<"busy", "!", n, "go">> : n \in Notifications}

(* leios_fetch::fetch_block, fetch_block_txs, done; serve_leios_fetch.     *)
LeiosFetchClient == {<<"go", "!", "BlockRequest", "block">>, <<"block", "?", "Block", "go">>,
                     <<"go", "!", "BlockTxsRequest", "txs">>, <<"txs", "?", "BlockTxs", "go">>,
                     <<"go", "!", "Done", "end">>}
LeiosFetchServer == {<<"go", "?", "BlockRequest", "block">>, <<"block", "!", "Block", "go">>,
                     <<"go", "?", "BlockTxsRequest", "txs">>, <<"txs", "!", "BlockTxs", "go">>,
                     <<"go", "?", "Done", "end">>}

Program ==
    [handshake    |-> [client |-> HandshakeClient, server |-> HandshakeServer],
     chainsync    |-> [client |-> ChainSyncClient, server |-> ChainSyncServer],
     blockfetch   |-> [client |-> BlockFetchClient, server |-> BlockFetchServer],
     keepalive    |-> [client |-> KeepAliveClient, server |-> KeepAliveServer],
     txsubmission |-> [client |-> TxSubmissionClient, server |-> TxSubmissionServer],
     peersharing  |-> [client |-> PeerSharingClient, server |-> PeerSharingServer],
     leiosnotify  |-> [client |-> LeiosNotifyClient, server |-> LeiosNotifyServer],
     leiosfetch   |-> [client |-> LeiosFetchClient, server |-> LeiosFetchServer]]

Steps(r, dir) == {t \in Program[proto][r] : t[1] = pc[r] /\ t[2] = dir}
Takes(r, m) == {t[4] : t \in {u \in Steps(r, "?") : u[3] = m}}

Init == /\ proto \in DOMAIN Protocol
        /\ state = [r \in Roles |-> Protocol[proto].init]
        /\ pc = [r \in Roles |-> "go"]
        /\ wire = [r \in Roles |-> <<>>]
        /\ error = [r \in Roles |-> "none"]

Fail(r, e) == /\ error' = [error EXCEPT ![r] = e]
              /\ pc' = [pc EXCEPT ![r] = "end"]

(* Runner::send: refused without agency or against the state machine; the  *)
(* state advances once the codec has taken the message.                    *)
Send(r) ==
    \E t \in Steps(r, "!") :
      LET next == Transition(proto, state[r], t[3])
      IN  /\ Len(wire[r]) < Window
          /\ IF Agency(proto, state[r]) # r \/ next = {}
             THEN /\ Fail(r, IF Agency(proto, state[r]) # r THEN "AgencyViolation" ELSE "InvalidMessage")
                  /\ UNCHANGED <<state, wire>>
             ELSE /\ \E s \in next : state' = [state EXCEPT ![r] = s]
                  /\ wire' = [wire EXCEPT ![r] = Append(@, t[3])]
                  /\ pc' = [pc EXCEPT ![r] = t[4]]
                  /\ UNCHANGED error
          /\ UNCHANGED proto

(* Runner::recv: the other side must have agency; the message must be a    *)
(* transition, and one the program's match has an arm for.                 *)
Recv(r) ==
    /\ Steps(r, "?") # {}
    /\ IF Agency(proto, state[r]) # Other(r)
       THEN Fail(r, "AgencyViolation") /\ UNCHANGED <<state, wire>>
       ELSE LET m == Head(wire[Other(r)])
                next == Transition(proto, state[r], m)
            IN  /\ wire[Other(r)] # <<>>
                /\ wire' = [wire EXCEPT ![Other(r)] = Tail(@)]
                /\ IF next = {} \/ Takes(r, m) = {}
                   THEN Fail(r, "InvalidMessage") /\ state' = state
                   ELSE /\ \E s \in next : state' = [state EXCEPT ![r] = s]
                        /\ \E to \in Takes(r, m) : pc' = [pc EXCEPT ![r] = to]
                        /\ UNCHANGED error
    /\ UNCHANGED proto

(* A receive times out in a state with a timeout; serve_keepalive waits    *)
(* for the first MsgKeepAlive without one (recv_untimed).                  *)
Timeout(r) ==
    /\ Breaks
    /\ Steps(r, "?") # {} /\ state[r] \in Protocol[proto].timed
    /\ ~(proto = "keepalive" /\ r = "server" /\ pc[r] = "go")
    /\ wire[Other(r)] = <<>>
    /\ Fail(r, "Timeout")
    /\ UNCHANGED <<proto, state, wire>>

(* The connection breaks: both programs see MuxError::Shutdown.            *)
Shutdown == /\ Breaks /\ \E r \in Roles : pc[r] # "end"
            /\ error' = [r \in Roles |-> IF pc[r] = "end" THEN error[r] ELSE "Shutdown"]
            /\ pc' = [r \in Roles |-> "end"]
            /\ UNCHANGED <<proto, state, wire>>

Next == \/ \E r \in Roles : Send(r) \/ Recv(r) \/ Timeout(r)
        \/ Shutdown

(* Both programs run as tasks that are always polled again.                *)
Spec == Init /\ [][Next]_vars /\ \A r \in Roles : WF_vars(Send(r) \/ Recv(r))

-----------------------------------------------------------------------------
(* No program of this repository ever makes a Runner report an agency      *)
(* violation or an invalid message against the other program of the same   *)
(* protocol, although the two Runners advance at different times.          *)
Conforming == \A r \in Roles : error[r] \notin {"AgencyViolation", "InvalidMessage"}

(* The two ends never wait for each other: while both programs run, one of *)
(* them can move (the agency tables of both ends name exactly one sender   *)
(* whenever nothing is in flight).                                         *)
NeverStuck == (\A r \in Roles : pc[r] # "end") =>
                \/ \E r \in Roles : wire[r] # <<>>
                \/ \E r \in Roles : Steps(r, "!") # {} /\ Agency(proto, state[r]) = r

Waiting == pc["client"] \notin {"go", "loop", "batch", "end"}
Served == pc["client"] \in {"go", "loop", "batch"} \/ \E r \in Roles : pc[r] = "end"

(* A client that waits for a reply gets one, and so returns from its       *)
(* helper, unless a program ends (the server may stream blocks for ever).  *)
Replied == Waiting ~> Served
=============================================================================
