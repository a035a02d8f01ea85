---------------------------- MODULE Coordinator ----------------------------
(***************************************************************************)
(* The multi-peer coordinator (net-core: multi_peer/coordinator.rs) with   *)
(* the peer tasks it spawns (peer/duplex_task.rs, peer/peer_task.rs and    *)
(* peer/command_dispatch.rs) and the accept loop.  The coordinator is one  *)
(* task: a step handles one peer event, one command, one accepted          *)
(* connection or the due reconnections, and then removes the peers that    *)
(* were scheduled for removal meanwhile.  A peer task runs beside it, owns *)
(* a connection, and talks to it over channels only.                       *)
(*                                                                         *)
(* Time is left out: which reconnections are due, whether a connection was *)
(* held long enough to count as stable and whether a re-intersection comes *)
(* too early are choices.  The peer with the lowest round-trip time is any *)
(* of the candidates.                                                      *)
(***************************************************************************)
EXTENDS Naturals, Sequences, FiniteSets, SequencesExt

CONSTANTS Configured,      \* the addresses the application adds with AddPeer
          Discovered,      \* ... and with AddDiscoveredPeer
          Remotes,         \* the remote endpoints that dial us
          Ip(_),           \* the address part of an endpoint
          Loopback,        \* the addresses exempt from the limit
          MaxPeers, MaxPerIp, MaxHandshaking, CommandCapacity,
          Duplex,          \* config.duplex: run_duplex_task or run_peer_task
          Delayed,         \* the addresses with a simulated inbound delay
          MaxBackoff,      \* MAX_RECONNECT_BACKOFF, in units of the base
          Chain,           \* the points a peer announces, in order
          Requests,        \* the ranges <<from, to>> the application asks for
          Commands,        \* the commands the application issues
          Faults,          \* what may go wrong on a connection
          MaxId, MaxEvents \* bounds on the peers ever added and the events in flight

None == "none"
NoPeer == MaxId
Ids == 0..(MaxId - 1)
Ips == {Ip(r) : r \in Remotes}
Range2(s) == {s[i] : i \in DOMAIN s}

VARIABLES coord,        \* the Coordinator
          peer_events,  \* the fan-in channel of all peer tasks
          delayed,      \* the buffer of delayed events of run()
          accepting,    \* the endpoints in the handshake
          inbound,      \* inbound_connections
          running,      \* the main loop has not ended
          told,         \* the peers as the application sees them: new, up, gone
          waiting,      \* the points the application waits for
          added         \* the addresses dialled for AddPeer

vars == <<coord, peer_events, delayed, accepting, inbound, running, told, waiting, added>>

Put(f, k, v) == [x \in DOMAIN f \union {k} |-> IF x = k THEN v ELSE f[x]]
Without(f, S) == [x \in DOMAIN f \ S |-> f[x]]

Init == /\ coord = [peers |-> <<>>, next_peer_id |-> 0, pending_fetches |-> <<>>,
                    reconnect_queue |-> <<>>, speculative |-> {}, throttle |-> <<>>,
                    ip_counts |-> [i \in Ips |-> 0], removals |-> <<>>, blocklist |-> {},
                    inflight |-> <<>>, hostile |-> {}, out |-> <<>>]
        /\ peer_events = <<>> /\ delayed = <<>> /\ accepting = {} /\ inbound = <<>>
        /\ running = TRUE
        /\ told = [p \in Ids |-> "new"] /\ waiting = {} /\ added = {}

---------------------------------------------------------------------------
(* What the coordinator emits, and what the application makes of it.       *)

Event(k, id, from, to) == [kind |-> k, id |-> id, from |-> from, to |-> to]
emit_event(c, e) == [c EXCEPT !.out = Append(@, e)]

Told(es) == IF es = <<>> THEN told ELSE [p \in Ids |->
    FoldLeft(LAMBDA v, e :
                 CASE e.id # p -> v
                   [] e.kind = "PeerConnected" -> IF v = "new" THEN "up" ELSE "error"
                   [] e.kind = "PeerDisconnected" -> IF v = "up" THEN "gone" ELSE "error"
                   [] OTHER -> v,
             told[p], es)]

Answered(es) ==
    UNION {{e.from, e.to} : e \in {x \in Range2(es) : x.kind \in {"BlockReceived", "BlockFetchFailed"}}}

---------------------------------------------------------------------------
(* Peers: their state, their command channel, their removal.               *)

Peer(addr, accepted, backoff) ==
    [address |-> addr, ip_guard |-> accepted, backoff |-> backoff, task |-> "dialing",
     commands |-> <<>>, connected |-> FALSE, peer_sharing |-> TRUE, fragment |-> <<>>,
     rolled_back_to |-> None]

add_peer_with_backoff(c, addr, backoff) ==
    [c EXCEPT !.peers = Put(@, c.next_peer_id, Peer(addr, FALSE, backoff)),
              !.next_peer_id = @ + 1]

Live(c, id) == c.peers[id].task # "finished"
has_live_peer_for_address(c, addr) ==
    \E id \in DOMAIN c.peers : c.peers[id].address = addr /\ Live(c, id)

(* Schedule the peers whose task has exited for removal, each once.        *)
reap_finished_peers(c) ==
    LET dead == {id \in DOMAIN c.peers : ~Live(c, id)}
                    \ {c.removals[i].id : i \in DOMAIN c.removals}
    IN  IF dead = {} THEN c
        ELSE [c EXCEPT !.removals = @ \o SetToSeq({[id |-> id, reason |-> "reaped"] : id \in dead})]
LiveCount(c) == Cardinality({id \in DOMAIN c.peers : Live(c, id)})

(* try_send to the command channel of a peer; failing removes the peer.    *)
Accepts(c, id) == /\ id \in DOMAIN c.peers /\ Live(c, id)
                  /\ Len(c.peers[id].commands) < CommandCapacity
send_peer_command(c, id, cmd) ==
    IF id \notin DOMAIN c.peers THEN c
    ELSE IF Accepts(c, id) THEN [c EXCEPT !.peers[id].commands = Append(@, cmd)]
    ELSE [c EXCEPT !.removals = Append(@, [id |-> id,
              reason |-> IF Live(c, id) THEN "channel full" ELSE "channel closed"])]
SendAll(c, ids, cmd) == IF ids = {} THEN c ELSE
    FoldLeft(LAMBDA d, id : send_peer_command(d, id, cmd), c, SetToSeq(ids))

Command(k, from, to) == [kind |-> k, from |-> from, to |-> to]
Disconnect == Command("Disconnect", None, None)

LocalReasons == {"disconnect requested", "channel full", "channel closed"}

(* A request outstanding when the peer tore the connection down.           *)
MarkHostile(c, id, reason) ==
    IF id \notin DOMAIN c.inflight THEN c
    ELSE [c EXCEPT !.inflight = Without(@, {id}),
                   !.hostile = IF reason \in LocalReasons THEN @ ELSE @ \union {c.inflight[id]}]

(* Outbound peers reconnect unless their first dial was speculative; what  *)
(* is known of the ephemeral address of an accepted one is dropped.        *)
Reschedule(c, p, stable) ==
    IF p.ip_guard THEN [c EXCEPT !.throttle = Without(@, {p.address}),
                                 !.ip_counts[Ip(p.address)] = @ - 1]
    ELSE IF p.address \in c.speculative
    THEN [c EXCEPT !.speculative = @ \ {p.address}]
    ELSE LET backoff == IF stable /\ p.connected THEN 1 ELSE p.backoff
         IN  [c EXCEPT !.reconnect_queue = Append(@, [address |-> p.address,
                 backoff |-> IF 2 * backoff < MaxBackoff THEN 2 * backoff ELSE MaxBackoff])]

(* The fetches assigned to the peer are reported as failed.                *)
Orphans(c, id) == {pt \in DOMAIN c.pending_fetches : c.pending_fetches[pt] = id}
MutFailOrphans(c, id) ==  (* Mutant: the fetches of a removed peer are dropped silently. *)
    [c EXCEPT !.pending_fetches = Without(@, Orphans(c, id))]
FailOrphans(c, id) == IF Orphans(c, id) = {} THEN c ELSE
    [c EXCEPT !.out = @ \o SetToSeq({Event("BlockFetchFailed", id, pt, pt) : pt \in Orphans(c, id)}),
              !.pending_fetches = Without(@, Orphans(c, id))]

remove_peer(c, id, reason, stable) ==
    LET d == MarkHostile(c, id, reason)
    IN  IF id \notin DOMAIN d.peers THEN d
        ELSE LET p == d.peers[id]
                 e == FailOrphans(Reschedule([d EXCEPT !.peers = Without(@, {id})], p, stable), id)
             IN  IF p.connected THEN emit_event(e, Event("PeerDisconnected", id, None, None)) ELSE e

(* The end of an iteration of the main loop: the scheduled removals, then  *)
(* what the application was told; it now also waits for the given points.  *)
Drained(c, stable) ==
    IF c.removals = <<>> THEN c
    ELSE FoldLeft(LAMBDA d, r : remove_peer(d, r.id, r.reason, stable), [c EXCEPT !.removals = <<>>], c.removals)
Finish(c, points) ==
    \E stable \in IF c.removals = <<>> THEN {FALSE} ELSE BOOLEAN :
        LET d == Drained(c, stable)
        IN  /\ coord' = [d EXCEPT !.out = <<>>]
            /\ told' = Told(d.out)
            /\ waiting' = (waiting \union points) \ Answered(d.out)

---------------------------------------------------------------------------
(* handle_peer_event.                                                      *)

MutOnConnected(c, id, e) ==  (* Mutant: a stale Connected is forwarded. *)
    emit_event(IF id \notin DOMAIN c.peers THEN c
               ELSE [c EXCEPT !.peers[id].connected = TRUE,
                              !.speculative = @ \ {c.peers[id].address}],
               Event("PeerConnected", id, None, None))
OnConnected(c, id, e) ==
    IF id \notin DOMAIN c.peers THEN c
    ELSE emit_event([c EXCEPT !.peers[id].connected = TRUE,
                              !.peers[id].peer_sharing = e.from = "shares",
                              !.speculative = @ \ {c.peers[id].address}],
                    Event("PeerConnected", id, None, None))

Appended(fragment, pt) == IF pt \in Range2(fragment) THEN fragment ELSE Append(fragment, pt)
Truncated(fragment, pt) ==
    IF pt \in Range2(fragment)
    THEN SubSeq(fragment, 1, CHOOSE i \in DOMAIN fragment : fragment[i] = pt) ELSE fragment

OnIntersectionFound(c, id, e) ==
    IF id \notin DOMAIN c.peers THEN c ELSE [c EXCEPT !.peers[id].fragment = <<e.from>>]
OnHeaderAnnounced(c, id, e) ==
    emit_event(IF id \notin DOMAIN c.peers THEN c
               ELSE [c EXCEPT !.peers[id].fragment = Appended(@, e.from),
                              !.peers[id].rolled_back_to = None],
               Event("TipAdvanced", id, e.from, None))
OnRolledBack(c, id, e) ==
    LET dup == id \in DOMAIN c.peers /\ c.peers[id].rolled_back_to = e.from
        d == IF id \notin DOMAIN c.peers THEN c
             ELSE [c EXCEPT !.peers[id].fragment = Truncated(@, e.from),
                            !.peers[id].rolled_back_to = e.from]
    IN  IF dup THEN d ELSE emit_event(d, Event("RolledBack", id, e.from, None))

OnBlockFetched(c, id, e) ==
    emit_event([c EXCEPT !.pending_fetches = Without(@, {e.from})],
               Event("BlockReceived", id, e.from, e.from))
OnBlockFetchFailed(c, id, e) ==
    emit_event([c EXCEPT !.pending_fetches = Without(@, {e.from, e.to})],
               Event("BlockFetchFailed", id, e.from, e.to))
OnPeersDiscovered(c, id) == [c EXCEPT !.inflight = Without(@, {id})]

handle_peer_event(c, id, e, stable) ==
    CASE e.kind = "Connected" -> OnConnected(c, id, e)
      [] e.kind = "IntersectionFound" -> OnIntersectionFound(c, id, e)
      [] e.kind = "HeaderAnnounced" -> OnHeaderAnnounced(c, id, e)
      [] e.kind = "RolledBack" -> OnRolledBack(c, id, e)
      [] e.kind = "BlockFetched" -> OnBlockFetched(c, id, e)
      [] e.kind = "BlockFetchFailed" -> OnBlockFetchFailed(c, id, e)
      [] e.kind = "PeersDiscovered" -> OnPeersDiscovered(c, id)
      [] e.kind = "Failed" -> remove_peer(c, id, e.from, stable)

(* The swap_remove loop over the due events of the buffer: the order in    *)
(* which they are handled, and what stays.                                 *)
RECURSIVE SwapRemove(_, _, _)
SwapRemove(d, due, i) ==
    IF i > Len(d) THEN [order |-> <<>>, rest |-> d]
    ELSE IF d[i].at > due THEN SwapRemove(d, due, i + 1)
    ELSE LET r == SwapRemove(IF i = Len(d) THEN Front(d)
                             ELSE Front([d EXCEPT ![i] = Last(d)]), due, i)
         IN  [r EXCEPT !.order = <<d[i]>> \o @]

(* A peer event: handled, or buffered when the peer has a simulated delay. *)
PeerEvent ==
    /\ running /\ peer_events # <<>>
    /\ peer_events' = Tail(peer_events)
    /\ LET h == Head(peer_events)
       IN  IF h.id \in DOMAIN coord.peers /\ coord.peers[h.id].address \in Delayed
           THEN /\ Len(delayed) < MaxEvents
                /\ delayed' = Append(delayed, [at |-> Len(delayed) + 1, id |-> h.id, ev |-> h.ev])
                /\ UNCHANGED <<coord, told, waiting>>
           ELSE /\ UNCHANGED delayed
                /\ \E stable \in IF h.ev.kind = "Failed" THEN BOOLEAN ELSE {FALSE} :
                       Finish(handle_peer_event(coord, h.id, h.ev, stable), {})
    /\ UNCHANGED <<accepting, inbound, running, added>>

(* The deadline of some delayed events has passed.                         *)
DelayedEvents ==
    /\ running /\ delayed # <<>>
    /\ \E due \in 1..Len(delayed), stable \in BOOLEAN :
           LET r == SwapRemove(delayed, due, 1)
               c == FoldLeft(LAMBDA d, x : handle_peer_event(d, x.id, x.ev, stable), coord, r.order)
           IN  /\ delayed' = [i \in DOMAIN r.rest |-> [r.rest[i] EXCEPT !.at = @ - due]]
               /\ Finish(c, {})
    /\ UNCHANGED <<peer_events, accepting, inbound, running, added>>

---------------------------------------------------------------------------
(* handle_network_command: c is the outcome of the handler.                *)

Handled(c, points) == /\ Finish(c, points)
                      /\ UNCHANGED <<peer_events, delayed, accepting, inbound, running>>
Only(c, points) == Handled(c, points) /\ UNCHANGED added

May(cmd) == running /\ cmd \in Commands

(* The conditions of AddPeer and AddDiscoveredPeer; the cap is checked     *)
(* with the finished peers reaped.                                         *)
Dial(addr, speculative) ==
    /\ coord.next_peer_id < MaxId
    /\ LET reaped == reap_finished_peers(coord)
           dialed == add_peer_with_backoff([reaped EXCEPT !.speculative = @ \union speculative], addr, 1)
       IN  Handled(IF addr \in coord.blocklist \/ has_live_peer_for_address(coord, addr) THEN coord
                   ELSE IF LiveCount(coord) >= MaxPeers THEN reaped ELSE dialed, {})

AddPeer(addr) ==
    /\ May("AddPeer") /\ addr \in Configured /\ Dial(addr, {})
    /\ added' = IF coord'.next_peer_id > coord.next_peer_id THEN added \union {addr} ELSE added
AddDiscoveredPeer(addr) ==
    May("AddDiscoveredPeer") /\ addr \in Discovered /\ Dial(addr, {addr}) /\ UNCHANGED added

Holders(pt) == {id \in DOMAIN coord.peers : pt \in Range2(coord.peers[id].fragment)}

(* Route the fetch to a peer and remember it under the last point.         *)
Fetched(id, from, to) ==
    LET c == send_peer_command(coord, id, Command("FetchBlocks", from, to))
    IN  IF Accepts(coord, id) THEN [c EXCEPT !.pending_fetches = Put(@, to, id)] ELSE c

FetchBlock(pt) ==
    /\ May("FetchBlock") /\ pt \notin DOMAIN coord.pending_fetches
    /\ \E id \in Holders(pt) : Only(Fetched(id, pt, pt), {})

(* The peer that announced the chain, when it is still there, else one     *)
(* that has the point; every failure is reported.                          *)
FetchBlockRange(from, to, peer) ==
    /\ May("FetchBlockRange") /\ <<from, to>> \in Requests
    /\ LET direct == {peer} \intersect DOMAIN coord.peers
           targets == IF direct # {} THEN direct ELSE Holders(to)
           failed(c, id) == emit_event(c, Event("BlockFetchFailed", id, from, to))
       IN  IF to \in DOMAIN coord.pending_fetches THEN Only(coord, {to})
           ELSE IF targets = {} THEN Only(failed(coord, NoPeer), {to})
           ELSE \E id \in targets :
                    LET c == Fetched(id, from, to)
                    IN  Only(IF Accepts(coord, id) THEN c ELSE failed(c, id), {to})

(* Re-intersection is throttled per address; `when` says how the request   *)
(* lies to the backoff of the previous one.                                *)
Throttled(c, addr, when) ==
    [c EXCEPT !.throttle = Put(@, addr,
        IF addr \notin DOMAIN @ \/ when = "quiet" THEN 1
        ELSE IF 2 * @[addr] < MaxBackoff THEN 2 * @[addr] ELSE MaxBackoff)]
ReIntersect(id) ==
    /\ May("ReIntersect") /\ id \in DOMAIN coord.peers
    /\ LET addr == coord.peers[id].address
       IN  \E when \in {"early", "soon", "quiet"} :
               Only(IF when = "early" /\ addr \in DOMAIN coord.throttle THEN coord
                       ELSE send_peer_command(Throttled(coord, addr, when), id,
                                              Command("ReIntersect", None, None)), {})

(* DiscoverPeers and DiscoverPeersFrom: only peers that share and have not *)
(* reset an earlier request are asked; an enqueued request is in flight.   *)
DiscoverPeers(id) ==
    /\ May("DiscoverPeers") /\ id \in DOMAIN coord.peers
    /\ coord.peers[id].peer_sharing /\ coord.peers[id].address \notin coord.hostile
    /\ LET c == send_peer_command(coord, id, Command("RequestPeers", None, None))
       IN  Only(IF Accepts(coord, id)
                   THEN [c EXCEPT !.inflight = Put(@, id, coord.peers[id].address)] ELSE c, {})

(* FetchLeiosBlock, FetchLeiosBlockTxs and ProvideTxs go to the given peer.*)
Dispatch(id) == May("Dispatch") /\ Only(send_peer_command(coord, id, Command("Other", None, None)), {})

DropInboundPeers ==
    /\ May("DropInboundPeers")
    /\ Only(SendAll(coord, {id \in DOMAIN coord.peers : coord.peers[id].ip_guard}, Disconnect), {})

SetPeerBlocklist(addresses) ==
    /\ May("SetPeerBlocklist") /\ addresses # coord.blocklist
    /\ Only(SendAll([coord EXCEPT !.blocklist = addresses],
                       {id \in DOMAIN coord.peers : coord.peers[id].address \in addresses}, Disconnect), {})

(* Shutdown: the loop ends, and the remaining tasks are aborted; dropping  *)
(* the peers releases their slots.                                         *)
Shutdown ==
    /\ May("Shutdown")
    /\ running' = FALSE
    /\ coord' = [coord EXCEPT !.peers = <<>>,
           !.ip_counts = [i \in Ips |-> @[i] - Cardinality({id \in DOMAIN coord.peers :
                              coord.peers[id].ip_guard /\ Ip(coord.peers[id].address) = i})]]
    /\ UNCHANGED <<peer_events, delayed, accepting, inbound, told, waiting, added>>

(* process_reconnections over the due entries: parked while blocklisted or *)
(* at the cap, dropped when the address is connected again.                *)
Reconnect(c, e) ==
    IF e.address \in c.blocklist THEN [c EXCEPT !.reconnect_queue = Append(@, e)]
    ELSE IF has_live_peer_for_address(c, e.address) THEN c
    ELSE LET r == reap_finished_peers(c)
         IN  IF LiveCount(c) >= MaxPeers THEN [r EXCEPT !.reconnect_queue = Append(@, e)]
             ELSE add_peer_with_backoff(r, e.address, e.backoff)
process_reconnections ==
    /\ running
    /\ \E due \in (SUBSET DOMAIN coord.reconnect_queue) \ {{}} :
           LET q == coord.reconnect_queue
               pick(S) == FoldLeft(LAMBDA s, i : IF i \in S THEN Append(s, q[i]) ELSE s, <<>>, [i \in DOMAIN q |-> i])
           IN  /\ coord.next_peer_id + Cardinality(due) <= MaxId
               /\ Only(FoldLeft(Reconnect, [coord EXCEPT !.reconnect_queue = pick(DOMAIN q \ due)], pick(due)), {})

---------------------------------------------------------------------------
(* The accept loop and its handshake tasks.                                *)

Accept(r) ==
    /\ running /\ r \notin accepting /\ r \notin Range2(inbound)
    /\ \A id \in DOMAIN coord.peers : coord.peers[id].address # r
    /\ Ip(r) \in Loopback \/ coord.ip_counts[Ip(r)] < MaxPerIp
    /\ Cardinality(accepting) < MaxHandshaking
    /\ accepting' = accepting \union {r}
    /\ coord' = [coord EXCEPT !.ip_counts[Ip(r)] = @ + 1]
    /\ UNCHANGED <<peer_events, delayed, inbound, running, told, waiting, added>>

(* The handshake ends: the connection and its guard go to the coordinator, *)
(* or the guard is dropped.                                                *)
Handshaken(r, ok) ==
    /\ r \in accepting
    /\ accepting' = accepting \ {r}
    /\ IF ok /\ running THEN inbound' = Append(inbound, r) /\ UNCHANGED coord
       ELSE coord' = [coord EXCEPT !.ip_counts[Ip(r)] = @ - 1] /\ UNCHANGED inbound
    /\ UNCHANGED <<peer_events, delayed, running, told, waiting, added>>

add_accepted_peer(c, r) ==
    [c EXCEPT !.peers = Put(@, c.next_peer_id, Peer(r, TRUE, 0)), !.next_peer_id = @ + 1]
InboundConnection ==
    /\ running /\ inbound # <<>> /\ coord.next_peer_id < MaxId
    /\ inbound' = Tail(inbound)
    /\ LET r == Head(inbound)
           c == reap_finished_peers(coord)
       IN  Finish(IF LiveCount(coord) < MaxPeers THEN add_accepted_peer(c, r)
                  ELSE [c EXCEPT !.ip_counts[Ip(r)] = @ - 1], {})
    /\ UNCHANGED <<peer_events, delayed, accepting, running, added>>

---------------------------------------------------------------------------
(* The peer tasks.                                                         *)

Send(id, evs) == /\ Len(peer_events) + Len(evs) <= MaxEvents
                 /\ peer_events' = peer_events \o [i \in DOMAIN evs |-> [id |-> id, ev |-> evs[i]]]
Ev(k, from, to) == [kind |-> k, from |-> from, to |-> to]
Failed(reason) == Ev("Failed", reason, None)

Task(id, from, to) == /\ id \in DOMAIN coord.peers /\ coord.peers[id].task \in from
                      /\ coord' = [coord EXCEPT !.peers[id].task = to]
                      /\ UNCHANGED <<delayed, accepting, inbound, running, told, waiting, added>>
MayFail(f) == f \in Faults

Connects(id) == /\ Task(id, {"dialing"}, "up")
                /\ \E sharing \in {"shares"} \union {s \in {"declines"} : MayFail("declines")} :
                       Send(id, <<Ev("Connected", sharing, None)>>)
DialFails(id) == /\ MayFail("dial") /\ id \in DOMAIN coord.peers /\ ~coord.peers[id].ip_guard
                 /\ Task(id, {"dialing"}, "finished")
                 /\ Send(id, <<Failed("dial failed")>>)

(* A protocol of the connection fails: its sub-task reports it and ends.   *)
ProtocolFails(id) == /\ MayFail("reset") /\ Task(id, {"up"}, "failing")
                     /\ Send(id, <<Failed("reset")>>)
(* The task notices that a protocol it watches has ended.  Only the duplex *)
(* task reports its own end.                                               *)
TaskEnds(id) == /\ MayFail("reset") /\ Task(id, {"failing"}, "finished")
                /\ Send(id, IF Duplex THEN <<Failed("reset")>> ELSE <<>>)
(* The keep-alive watchdog of a silent peer.                               *)
Watchdog(id) == /\ MayFail("silent") /\ Duplex /\ Task(id, {"up"}, "finished")
                /\ Send(id, <<Failed("reset")>>)

(* The outcomes of a fetch: the range, no blocks, or a stream that breaks. *)
Between(from, to) == LET at(x) == CHOOSE i \in DOMAIN Chain : Chain[i] = x
                     IN  [i \in 1..(at(to) - at(from) + 1) |-> Chain[at(from) + i - 1]]
Blocks(s) == [i \in DOMAIN s |-> Ev("BlockFetched", s[i], s[i])]
FetchOutcomes(from, to) ==
    LET s == Between(from, to)
    IN  {[evs |-> Blocks(s), task |-> "up"], [evs |-> <<Ev("BlockFetchFailed", from, to)>>, task |-> "up"]}
        \union IF ~MayFail("reset") THEN {}
               ELSE {[evs |-> Blocks(SubSeq(s, 1, n)) \o <<Failed("reset")>>, task |-> "failing"] : n \in 0..(Len(s) - 1)}

(* dispatch_command and the sub-task that serves it.                       *)
Outcomes(cmd) ==
    CASE cmd.kind = "Disconnect" ->
            {[evs |-> IF Duplex THEN <<Failed("disconnect requested")>> ELSE <<>>, task |-> "finished"]}
      [] cmd.kind = "FetchBlocks" -> FetchOutcomes(cmd.from, cmd.to)
      [] cmd.kind = "RequestPeers" -> {[evs |-> <<Ev("PeersDiscovered", None, None)>>, task |-> "up"]}
      [] cmd.kind = "ReIntersect" -> {[evs |-> <<Ev("IntersectionFound", Chain[1], None)>>, task |-> "up"]}
      [] cmd.kind = "Other" -> {[evs |-> <<>>, task |-> "up"]}
DispatchCommand(id) ==
    /\ id \in DOMAIN coord.peers /\ coord.peers[id].commands # <<>>
    /\ \/ coord.peers[id].task = "up"
       \/ coord.peers[id].task = "failing" /\ Head(coord.peers[id].commands) = Disconnect
    /\ \E o \in Outcomes(Head(coord.peers[id].commands)) :
           /\ coord' = [coord EXCEPT !.peers[id].task = o.task, !.peers[id].commands = Tail(@)]
           /\ Send(id, o.evs)
    /\ UNCHANGED <<delayed, accepting, inbound, running, told, waiting, added>>

(* ChainSync: the first header, the next one, or a rollback by one.        *)
Announced(id) == LET seen == {i \in DOMAIN Chain :
                         \/ id \in DOMAIN coord.peers /\ Chain[i] \in Range2(coord.peers[id].fragment)
                         \/ \E j \in DOMAIN peer_events : peer_events[j].id = id /\ peer_events[j].ev.from = Chain[i]
                         \/ \E j \in DOMAIN delayed : delayed[j].id = id /\ delayed[j].ev.from = Chain[i]}
                 IN  IF seen = {} THEN 0 ELSE CHOOSE i \in seen : \A j \in seen : j <= i
Announces(id) == /\ MayFail("announces") /\ Announced(id) < Len(Chain)
                 /\ Task(id, {"up"}, "up")
                 /\ Send(id, <<Ev("HeaderAnnounced", Chain[Announced(id) + 1], None)>>)
RollsBack(id) == /\ MayFail("rolls back") /\ Announced(id) > 1
                 /\ Task(id, {"up"}, "up")
                 /\ Send(id, <<Ev("RolledBack", Chain[Announced(id) - 1], None)>>)

TaskStep(id) == Connects(id) \/ DispatchCommand(id) \/ TaskEnds(id)
Next == \/ PeerEvent \/ DelayedEvents \/ process_reconnections \/ InboundConnection
        \/ \E a \in Configured : AddPeer(a)
        \/ \E a \in Discovered : AddDiscoveredPeer(a)
        \/ \E i \in DOMAIN Chain : FetchBlock(Chain[i])
        \/ \E r \in Requests, p \in Ids \union {NoPeer} : FetchBlockRange(r[1], r[2], p)
        \/ \E p \in Ids : ReIntersect(p) \/ DiscoverPeers(p) \/ Dispatch(p)
        \/ \E S \in SUBSET Configured : SetPeerBlocklist(S)
        \/ DropInboundPeers \/ Shutdown
        \/ \E r \in Remotes : Accept(r)
        \/ \E r \in Remotes, ok \in BOOLEAN : Handshaken(r, ok)
        \/ \E p \in Ids : TaskStep(p) \/ DialFails(p) \/ ProtocolFails(p) \/ Watchdog(p) \/ Announces(p) \/ RollsBack(p)

---------------------------------------------------------------------------
(* Properties.                                                             *)

Up == {p \in DOMAIN coord.peers : coord.peers[p].connected}
Outbound == {p \in DOMAIN coord.peers : ~coord.peers[p].ip_guard}

(* The application sees the connections in pairs: one PeerConnected, then  *)
(* at most one PeerDisconnected, and the peers it believes connected are   *)
(* the connected peers of the coordinator, however the removals race with  *)
(* the events in flight (remove_peer, handle_peer_event).                  *)
ConnectsPaired == /\ \A p \in Ids : told[p] # "error"
                  /\ running => {p \in Ids : told[p] = "up"} = Up

(* At most one live task dials or holds an outbound address, and the live  *)
(* peers never exceed max_peers (has_live_peer_for_address and             *)
(* reap_finished_peers at AddPeer, accept and reconnect).                  *)
OneLivePerAddress ==
    /\ \A p, q \in Outbound : (p # q /\ coord.peers[p].address = coord.peers[q].address)
                                  => ~(Live(coord, p) /\ Live(coord, q))
    /\ LiveCount(coord) <= MaxPeers

(* The count of an address is the number of its guards alive (handshakes,  *)
(* queued connections, accepted peers) and respects max_connections_per_ip *)
(* (IpCountGuard, the accept loop).                                        *)
SlotsExact ==
    \A i \in Ips :
        /\ coord.ip_counts[i] = Cardinality({r \in accepting : Ip(r) = i})
                              + Len(SelectSeq(inbound, LAMBDA r : Ip(r) = i))
                              + Cardinality({p \in DOMAIN coord.peers : coord.peers[p].ip_guard
                                                                     /\ Ip(coord.peers[p].address) = i})
        /\ i \notin Loopback => coord.ip_counts[i] <= MaxPerIp

(* What is kept per peer goes with it: pending fetches and PeerSharing     *)
(* requests name present peers, and throttle entries of accepted peers do  *)
(* not outlive them (remove_peer).                                         *)
NothingLeftBehind ==
    running => /\ Range2(coord.pending_fetches) \subseteq DOMAIN coord.peers
               /\ DOMAIN coord.inflight \subseteq DOMAIN coord.peers
               /\ \A r \in DOMAIN coord.throttle \intersect Remotes :
                      \E p \in DOMAIN coord.peers : coord.peers[p].address = r

(* A configured address, once added, stays a peer or in the reconnection   *)
(* queue whatever fails (remove_peer, process_reconnections).              *)
Kept(a) == \/ \E p \in Outbound : coord.peers[p].address = a
           \/ \E i \in DOMAIN coord.reconnect_queue : coord.reconnect_queue[i].address = a
ConfiguredKept == running => \A a \in added : Kept(a)

Fetching(r) == r[2] \in waiting
FetchEnded(r) == r[2] \notin waiting \/ ~running

(* Every FetchBlockRange is answered: the point is received, or a failure  *)
(* names it (FetchBlockRange, BlockFetchFailed, the orphans of             *)
(* remove_peer).                                                           *)
FetchAnswered == \A r \in Requests : Fetching(r) ~> FetchEnded(r)
=============================================================================
