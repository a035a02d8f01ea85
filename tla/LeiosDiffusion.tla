--------------------------- MODULE LeiosDiffusion ---------------------------
(***************************************************************************)
(* Leios data through a node: the coordinator's handlers put what peers    *)
(* deliver and what the application produces into the Leios store          *)
(* (multi_peer/coordinator.rs), and on every connection a LeiosNotify      *)
(* responder (peer/server_handlers.rs, peer/leios_notify_state.rs) turns   *)
(* the log of the store into answers to the requests a pipelining client   *)
(* (protocols/leios_notify/mod.rs) keeps outstanding, while LeiosFetch     *)
(* serves the bodies.                                                      *)
(*                                                                         *)
(* The responder reads the store several times in one pass (cutoff, ready  *)
(* offers, log, ready offers again for each entry); each read is a step of *)
(* its own, since the coordinator may change the store in between.         *)
(*                                                                         *)
(* The Leios store (net-core: store/leios_store.rs) as operators on its    *)
(* state: endorser blocks (EBs), the ranking-block headers that announce   *)
(* them, transaction bodies, manifests and votes, with the log of          *)
(* notifications the LeiosNotify responders follow.  Every operation runs  *)
(* under the store's mutex, so it is one step of whoever calls it.         *)
(*                                                                         *)
(* An EB is its BlockKey, a number that stands for its place in the key    *)
(* order; a header is a model value that announces one EB.  Sizes are left *)
(* out: the byte bound on announcements acts like the bound on their       *)
(* number.                                                                 *)
(***************************************************************************)
EXTENDS Naturals, Sequences, FiniteSets, SequencesExt, FiniteSetsExt

CONSTANTS Slot(_),           \* the slot of an EB
          Announces(_),      \* the EB a header announces
          Idx,               \* the manifest indices of an EB
          Capacity,          \* capacity: bound on the blocks
          Retention,         \* retention_slots
          MaxNotifications,  \* MAX_NOTIFICATIONS
          RetryInterval, MaxRetries

Local == "local"             \* source = None

EmptyStore == [blocks |-> {}, announcements |-> <<>>, own_offers |-> <<>>, block_txs |-> <<>>,
               eb_tx_hashes |-> {}, votes |-> <<>>, notifications |-> <<>>, pruned |-> 0,
               max_slot |-> 0]

(* A notification: an offer of a body or of the transactions of an EB, the *)
(* announcement of one, or votes; with the slot it ages by.                *)
Note(kind, what, slot) == [kind |-> kind, what |-> what, slot |-> slot]
BlockOffer(e) == Note("block", e, Slot(e))
BlockTxsOffer(e) == Note("txs", e, Slot(e))
BlockAnnouncement(h) == Note("announce", h, Slot(Announces(h)))
VotesNote(vs, slot) == Note("votes", vs, slot)

SetAt(f, k, v) == [x \in DOMAIN f \cup {k} |-> IF x = k THEN v ELSE f[x]]
Keep(f, S) == [x \in DOMAIN f \cap S |-> f[x]]

-----------------------------------------------------------------------------
retention_cutoff(st) == IF st.max_slot > Retention THEN st.max_slot - Retention ELSE 0

notification_evictable(n, cutoff) == n.slot < cutoff

Sources(source) == IF source = Local THEN {} ELSE {source}

(* The last queued entry with this very content, 0 if there is none.       *)
Queued(st, n) ==
    Max({0} \cup {i \in DOMAIN st.notifications :
                    LET m == st.notifications[i].note IN m.kind = n.kind /\ m.what = n.what})
Merge(st, i, source) ==
    [st EXCEPT !.notifications[i].sources = @ \cup Sources(source)]
Push(st, source, n) ==
    [st EXCEPT !.notifications = Append(@, [sources |-> Sources(source), note |-> n])]

push_notification(st, source, n, was_new) ==
    LET cutoff == retention_cutoff(st)
        offer == n.kind \in {"block", "txs"}
    IN  IF cutoff > 0 /\ notification_evictable(n, cutoff) THEN st
        ELSE IF offer /\ Queued(st, n) > 0 THEN Merge(st, Queued(st, n), source)
        ELSE IF offer /\ ~was_new THEN st
        ELSE Push(st, source, n)

-----------------------------------------------------------------------------
(* Eviction: the slot window on every map and on the front of the log,     *)
(* then the bounds on announcements, log and blocks, oldest first.         *)
Recent(S, cutoff) == {e \in S : Slot(e) >= cutoff}

FrontRun(log, cutoff) ==
    CHOOSE n \in 0..Len(log) :
      /\ \A i \in 1..n : notification_evictable(log[i].note, cutoff)
      /\ n < Len(log) => ~notification_evictable(log[n + 1].note, cutoff)
PopFront(st, n) ==
    [st EXCEPT !.notifications = SubSeq(@, n + 1, Len(@)), !.pruned = @ + n]

WindowEvicted(st) ==
    LET cutoff == retention_cutoff(st)
        aged == [st EXCEPT !.blocks = Recent(@, cutoff),
                           !.block_txs = Keep(@, Recent(DOMAIN @, cutoff)),
                           !.eb_tx_hashes = Recent(@, cutoff),
                           !.votes = Keep(@, {v \in DOMAIN @ : @[v] >= cutoff})]
    IN  IF cutoff = 0 THEN st ELSE PopFront(aged, FrontRun(st.notifications, cutoff))

AnnouncementsEvicted(st) ==
    LET from(e) == {f \in DOMAIN st.announcements : f >= e}
        count(e) == FoldSet(LAMBDA f, n : n + Len(st.announcements[f]), 0, from(e))
    IN  [st EXCEPT !.announcements =
            Keep(@, {e \in Recent(DOMAIN @, retention_cutoff(st)) : count(e) <= MaxNotifications})]

LogBounded(st) ==
    LET excess == Len(st.notifications) - MaxNotifications
    IN  IF excess > 0 THEN PopFront(st, excess) ELSE st

BlocksBounded(st) ==
    LET old == {e \in st.blocks : Cardinality({f \in st.blocks : f > e}) >= Capacity}
    IN  [st EXCEPT !.blocks = @ \ old, !.block_txs = Keep(@, DOMAIN @ \ old)]

evict_old(st) == BlocksBounded(LogBounded(AnnouncementsEvicted(WindowEvicted(st))))

-----------------------------------------------------------------------------
(* The operations; each ends in bump_version, which evicts.                *)

inject_block(st, e, source) ==
    LET was_new == e \notin st.blocks
        slot == Max({st.max_slot, Slot(e)})
        stored == [st EXCEPT
            !.blocks = @ \cup {e}, !.max_slot = slot,
            !.own_offers = IF source = Local /\ was_new
                           THEN SetAt(@, e, [first |-> slot, retries |-> 0, fetched |-> FALSE])
                           ELSE @]
    IN  evict_old(push_notification(stored, source, BlockOffer(e), was_new))

(* A header a peer relays never advances the retention clock.              *)
announce_block(st, h, source) ==
    LET e == Announces(h)
        known == IF e \in DOMAIN st.announcements THEN st.announcements[e] ELSE <<>>
        was_new == \A i \in DOMAIN known : known[i] # h
        stored == [st EXCEPT
            !.max_slot = IF source = Local THEN Max({@, Slot(e)}) ELSE @,
            !.announcements = SetAt(@, e, IF was_new THEN Append(known, h) ELSE known)]
        n == BlockAnnouncement(h)
    IN  evict_old(IF Queued(stored, n) > 0 THEN Merge(stored, Queued(stored, n), source)
                  ELSE IF was_new THEN push_notification(stored, source, n, TRUE)
                  ELSE stored)

inject_block_txs(st, e, indices, source) ==
    LET held == IF e \in DOMAIN st.block_txs THEN st.block_txs[e] ELSE {}
        stored == [st EXCEPT !.block_txs = SetAt(@, e, held \cup indices),
                             !.max_slot = Max({@, Slot(e)})]
    IN  evict_old(push_notification(stored, source, BlockTxsOffer(e), held = {}))
inject_block_txs_full(st, e, source) == inject_block_txs(st, e, Idx, source)

inject_votes(st, vs, source) ==
    LET new == vs \ DOMAIN st.votes
        stored == [st EXCEPT !.votes = [v \in DOMAIN @ \cup vs |-> IF v \in vs THEN st.max_slot ELSE @[v]]]
    IN  IF vs = {} THEN st
        ELSE evict_old(IF new = {} THEN stored
                       ELSE push_notification(stored, source, VotesNote(new, st.max_slot), TRUE))

record_eb_manifest(st, e) ==
    evict_old([st EXCEPT !.eb_tx_hashes = @ \cup {e}, !.max_slot = Max({@, Slot(e)})])

(* The wall clock; it evicts without waking anybody.                       *)
IsEmpty(st) == /\ st.blocks = {} /\ st.announcements = <<>> /\ st.block_txs = <<>>
               /\ st.eb_tx_hashes = {} /\ st.votes = <<>> /\ st.notifications = <<>>
tick_slot(st, slot) ==
    LET ticked == [st EXCEPT !.max_slot = slot]
    IN  IF slot <= st.max_slot THEN st
        ELSE IF IsEmpty(st) THEN ticked ELSE evict_old(ticked)

(* Offer again, past the deduplication, our own EBs nobody fetched.        *)
Unfetched(st) ==
    {e \in DOMAIN st.own_offers : /\ Slot(e) > retention_cutoff(st)
                                  /\ ~st.own_offers[e].fetched
                                  /\ st.own_offers[e].retries < MaxRetries}
Due(st, slot) ==
    {e \in Unfetched(st) \cap st.blocks :
       slot >= st.own_offers[e].first + RetryInterval * (st.own_offers[e].retries + 1)}
reoffer_unfetched(st, slot) ==
    LET due == Due(st, slot)
        kept == [st EXCEPT !.own_offers = [e \in Unfetched(st) |->
                    IF e \in due THEN [@[e] EXCEPT !.retries = @ + 1] ELSE @[e]]]
        again(s, e) == Push(s, Local, BlockOffer(e))
    IN  IF due = {} THEN kept
        ELSE evict_old(FoldLeft(again, kept, SetToSortSeq(due, <)))

(* What the responders read.                                               *)
get_block(st, e) ==
    IF e \in DOMAIN st.own_offers THEN [st EXCEPT !.own_offers[e].fetched = TRUE] ELSE st
has_offer(st, e, kind) ==
    IF kind = "txs" THEN e \in DOMAIN st.block_txs ELSE e \in st.blocks
announcement(st, e) ==
    IF e \in DOMAIN st.announcements /\ st.announcements[e] # <<>>
    THEN {Head(st.announcements[e])} ELSE {}
notification_count(st) == st.pruned + Len(st.notifications)

(* The entries after a logical position, and that position once it is      *)
(* brought back between the pruned front and the end of the log.           *)
Clamped(st, after) == Max({st.pruned, Min({after, notification_count(st)})})
MutNotificationsAfter(st, after) ==  (* Mutant: the position is taken as an index of the deque. *)
    SubSeq(st.notifications, after + 1, Len(st.notifications))
notifications_after(st, after) ==
    SubSeq(st.notifications, Clamped(st, after) - st.pruned + 1, Len(st.notifications))

-----------------------------------------------------------------------------
(* The node and its connections.                                           *)

CONSTANTS Conns,        \* the peers that opened LeiosNotify with us
          Scenarios,    \* what happens: sets of inputs [kind, source, what], each once
          Depth,        \* PIPELINE_DEPTH
          MaxPending,   \* MAX_PENDING_REQUESTS
          Controls,     \* the outbound controls: [echo, withhold] records
          Window        \* window of OfferDedup

VARIABLES store,        \* LeiosStore
          inputs,       \* the inputs still to come
          clock,        \* the wall-clock slot
          control,      \* OutboundControls.leios
          dedup,        \* OfferDedup
          forwarded,    \* the offers surfaced to the application, with how often
          conn,         \* serve_leios_notify, per connection
          client,       \* PipelinedClient, per connection
          requests, replies, \* the two directions of the protocol, per connection
          told          \* the messages sent on a connection
store_vars == <<store, inputs, clock, dedup, forwarded>>
vars == <<store, inputs, clock, control, dedup, forwarded, conn, client, requests, replies, told>>

NoState == [announced |-> FALSE, body_sent |-> FALSE, txs_sent |-> FALSE, body |-> {}, txs |-> {}]
NoMessage == Note("none", 0, 0)
Message(kind, what) == Note(kind, what, 0)

Init == /\ store = EmptyStore /\ inputs \in Scenarios /\ clock = 0 /\ control \in Controls
        /\ dedup = [seen |-> {}, votes |-> <<>>, max_slot |-> 0] /\ forwarded = <<>>
        /\ conn = [p \in Conns |-> [pc |-> "opening", read_index |-> 0, start |-> 0, pending |-> 0,
                                    blocks |-> <<>>, headers |-> {}, batch |-> <<>>,
                                    woken |-> FALSE, reply |-> NoMessage]]
        /\ client = [p \in Conns |-> [outstanding |-> 0, state |-> "running"]]
        /\ requests = [p \in Conns |-> <<>>] /\ replies = [p \in Conns |-> <<>>]
        /\ told = [p \in Conns |-> {}]

-----------------------------------------------------------------------------
(* What reaches the store.  Every operation but the tick wakes the         *)
(* responders (the watch channel of the store).                            *)
Woken == [p \in Conns |-> [conn[p] EXCEPT !.woken = TRUE]]

(* OfferDedup: forward each offer of a peer once while its slot is in the  *)
(* window, which the offered slots themselves advance.                     *)
update_slot(slot) ==
    LET floor == IF slot > Window THEN slot - Window ELSE 0
    IN  IF slot <= dedup.max_slot THEN dedup
        ELSE [seen |-> {o \in dedup.seen : Slot(o.what) >= floor},
              votes |-> Keep(dedup.votes, {v \in DOMAIN dedup.votes : dedup.votes[v] >= floor}),
              max_slot |-> slot]
Fresh(o) ==
    LET d == update_slot(Slot(o.what))
    IN  /\ dedup' = [d EXCEPT !.seen = @ \cup {o}]
        /\ forwarded' = IF o \in d.seen THEN forwarded
                        ELSE SetAt(forwarded, o, IF o \in DOMAIN forwarded THEN forwarded[o] + 1 ELSE 1)

Input(kind) == {i \in inputs : i.kind = kind}
Take(i) == /\ inputs' = inputs \ {i} /\ UNCHANGED <<clock, control, client, requests, replies, told>>
Changed(s) == store' = s /\ conn' = Woken

(* LeiosBlockOffered and LeiosBlockTxsOffered touch only the dedup.  A     *)
(* peer may repeat an offer as often as it likes.                          *)
OnOffered == \E i \in Input("offer") :
    /\ Fresh([source |-> i.source, what |-> i.what])
    /\ UNCHANGED <<store, inputs, clock, control, conn, client, requests, replies, told>>

(* LeiosBlockAnnounced, or the producer announcing its own header.         *)
OnAnnounced == \E i \in Input("announce") :
    /\ Take(i) /\ Changed(announce_block(store, i.what, i.source)) /\ UNCHANGED <<dedup, forwarded>>

(* LeiosBlockFetched (a body that does not hash to the point is not kept)  *)
(* and InjectLeiosBlock.                                                   *)
OnBlock == \E i \in Input("block") :
    /\ Take(i) /\ Changed(inject_block(store, i.what, i.source)) /\ UNCHANGED <<dedup, forwarded>>

(* LeiosBlockTxsFetched: the bodies found in the manifest, which may be    *)
(* some of them only; without a manifest none are kept.                    *)
OnTxsFetched == \E i \in Input("some txs") : \E some \in SUBSET Idx :
    /\ Take(i) /\ UNCHANGED <<dedup, forwarded>>
    /\ IF i.what \in store.eb_tx_hashes /\ some # {}
       THEN Changed(inject_block_txs(store, i.what, some, i.source))
       ELSE UNCHANGED <<store, conn>>

InjectLeiosBlockTxs == \E i \in Input("txs") :
    /\ Take(i) /\ Changed(inject_block_txs_full(store, i.what, Local)) /\ UNCHANGED <<dedup, forwarded>>

RecordLeiosEbManifest == \E i \in Input("manifest") :
    /\ Take(i) /\ Changed(record_eb_manifest(store, i.what)) /\ UNCHANGED <<dedup, forwarded>>

(* LeiosVotesReceived, deduplicated per peer, and InjectLeiosVotes.        *)
OnVotes == \E i \in Input("votes") :
    LET key(v) == <<i.source, v>>
        fresh == IF i.source = Local THEN i.what
                 ELSE {v \in i.what : key(v) \notin DOMAIN dedup.votes}
    IN  /\ Take(i) /\ UNCHANGED forwarded
        /\ dedup' = IF i.source = Local THEN dedup
                    ELSE [dedup EXCEPT !.votes = [k \in DOMAIN @ \cup {key(v) : v \in i.what} |->
                                                    IF k[1] = i.source /\ k[2] \in i.what
                                                    THEN dedup.max_slot ELSE @[k]]]
        /\ IF fresh = {} THEN UNCHANGED <<store, conn>>
           ELSE Changed(inject_votes(store, fresh, i.source))

Tick == /\ \E i \in Input("tick") : /\ i.what > clock /\ inputs' = inputs \ {i}
                                   /\ clock' = i.what /\ store' = tick_slot(store, i.what)
        /\ UNCHANGED <<control, dedup, forwarded, conn, client, requests, replies, told>>

Reoffer == /\ Due(store, clock) # {} /\ Changed(reoffer_unfetched(store, clock))
           /\ UNCHANGED <<inputs, clock, control, dedup, forwarded, client, requests, replies, told>>

StoreStep == \/ OnOffered \/ OnAnnounced \/ OnBlock \/ OnTxsFetched \/ InjectLeiosBlockTxs
             \/ RecordLeiosEbManifest \/ OnVotes \/ Tick \/ Reoffer

-----------------------------------------------------------------------------
(* NotifyState: what one connection has been told and is still owed.       *)
Block(c, e) == IF e \in DOMAIN c.blocks THEN c.blocks[e] ELSE NoState
Room(c, e) == e \in DOMAIN c.blocks \/ Cardinality(DOMAIN c.blocks) < MaxNotifications

prune(c, cutoff) ==
    [c EXCEPT !.blocks = Keep(@, Recent(DOMAIN @, cutoff)),
              !.headers = {h \in @ : Slot(Announces(h)) >= cutoff}]

Reply(c, m) == [c EXCEPT !.pc = "reply", !.reply = m]
Error(c) == [c EXCEPT !.pc = "error"]

(* The first deferred offer that can go out now: the announcement it still *)
(* lacks, or the offer itself.  A set of at most one message.              *)
Field(kind) == IF kind = "block" THEN "body" ELSE "txs"
Silent(o) == o.local /\ control.withhold
Ready(c, e, kind) ==
    \E o \in c.blocks[e][Field(kind)] :
      /\ has_offer(store, e, kind)
      /\ o.from_peer => control.echo
      /\ c.blocks[e].announced \/ Silent(o) \/ announcement(store, e) # {}
MutNextOffer(c) ==  (* Mutant: an offer does not wait for its announcement. *)
    LET ready == {o \in (DOMAIN c.blocks) \X {"block", "txs"} : Ready(c, o[1], o[2])}
        first == CHOOSE o \in ready : \A q \in ready : o[1] < q[1] \/ (o[1] = q[1] /\ (o[2] = "block" \/ q = o))
    IN  IF ready = {} THEN {} ELSE {Message(first[2], first[1])}
next_offer(c) ==
    LET ready == {o \in (DOMAIN c.blocks) \X {"block", "txs"} : Ready(c, o[1], o[2])}
        first == CHOOSE o \in ready : \A q \in ready : o[1] < q[1] \/ (o[1] = q[1] /\ (o[2] = "block" \/ q = o))
        e == first[1]
        may == c.blocks[e].announced \/ \E o \in c.blocks[e][Field(first[2])] : Silent(o)
    IN  IF ready = {} THEN {}
        ELSE IF may THEN {Message(first[2], e)}
        ELSE {Message("announce", h) : h \in announcement(store, e)}

(* The answer of next_offer, or an error if the headers sent are at their  *)
(* bound, or nothing: then go on at pc.                                    *)
Offered(c, pc) ==
    LET ms == next_offer(c)
    IN  IF ms = {} THEN [c EXCEPT !.pc = pc]
        ELSE LET m == CHOOSE m \in ms : TRUE
             IN  IF m.kind = "announce" /\ Cardinality(c.headers) = MaxNotifications THEN Error(c)
                 ELSE Reply(c, m)

(* Consume one entry of the log.                                           *)
Defer(c, n, offer) ==
    LET b == Block(c, n.what)
        is_sent == IF n.kind = "block" THEN b.body_sent ELSE b.txs_sent
    IN  IF ~Room(c, n.what) THEN Error(c)
        ELSE [c EXCEPT !.blocks = SetAt(@, n.what, IF is_sent THEN b ELSE [b EXCEPT ![Field(n.kind)] = {offer}])]

PrepareHeader(c, h) ==
    LET e == Announces(h)
    IN  IF h \in c.headers THEN c
        ELSE IF Cardinality(c.headers) = MaxNotifications \/ ~Room(c, e) THEN Error(c)
        ELSE Reply([c EXCEPT !.blocks = SetAt(@, e, Block(c, e))], Message("announce", h))

observe(c, p, entry, cutoff) ==
    LET n == entry.note
        from_peer == p \in entry.sources
        is_local == entry.sources = {}
    IN  IF from_peer /\ ~control.echo THEN c
        ELSE IF n.slot < cutoff THEN c
        ELSE CASE n.kind \in {"block", "txs"} -> Defer(c, n, [from_peer |-> from_peer, local |-> is_local])
               [] n.kind = "announce" -> IF is_local /\ control.withhold THEN c ELSE PrepareHeader(c, n.what)
               [] n.kind = "votes" -> Reply(c, Message("votes", n.what))

(* After a successful send only.                                           *)
sent(c, m) ==
    CASE m.kind = "announce" ->
           LET e == Announces(m.what) IN
           [c EXCEPT !.headers = @ \cup {m.what},
                     !.blocks = IF e \in DOMAIN @ THEN [@ EXCEPT ![e].announced = TRUE] ELSE @]
      [] m.kind = "block" ->
           [c EXCEPT !.blocks = IF m.what \in DOMAIN @ THEN [@ EXCEPT ![m.what].body_sent = TRUE, ![m.what].body = {}] ELSE @]
      [] m.kind = "txs" ->
           [c EXCEPT !.blocks = IF m.what \in DOMAIN @ THEN [@ EXCEPT ![m.what].txs_sent = TRUE, ![m.what].txs = {}] ELSE @]
      [] OTHER -> c

-----------------------------------------------------------------------------
(* serve_leios_notify and next_outbound_notification.                      *)
Serve(p, c) == conn' = [conn EXCEPT ![p] = c] /\ UNCHANGED <<store_vars, control>>
Quiet == UNCHANGED <<client, requests, replies, told>>
Incoming(p) == Head(requests[p])
Consumed(p) == requests' = [requests EXCEPT ![p] = Tail(@)]

(* The first message opens the protocol: the backlog is skipped.           *)
Opens(p) ==
    LET now == notification_count(store)
    IN  /\ conn[p].pc = "opening" /\ requests[p] # <<>> /\ Consumed(p)
        /\ IF Incoming(p) = "next"
           THEN /\ Serve(p, [conn[p] EXCEPT !.pc = "start", !.pending = 1, !.woken = FALSE,
                                            !.read_index = now, !.start = now])
                /\ UNCHANGED replies
           ELSE /\ Serve(p, [conn[p] EXCEPT !.pc = "closed"])
                /\ replies' = [replies EXCEPT ![p] = Append(@, Message("done", 0))]
        /\ UNCHANGED <<client, told>>

(* Between two answers, and while the notification is pending, requests    *)
(* are read ahead; Quit cancels the ones that are pending.                 *)
Reads(p) ==
    /\ conn[p].pc \in {"start", "waiting"} /\ requests[p] # <<>> /\ Consumed(p)
    /\ IF Incoming(p) = "next"
       THEN /\ Serve(p, IF conn[p].pending = MaxPending THEN Error(conn[p])
                        ELSE [conn[p] EXCEPT !.pending = @ + 1])
            /\ UNCHANGED replies
       ELSE /\ Serve(p, [conn[p] EXCEPT !.pc = "closed", !.pending = 0])
            /\ replies' = [replies EXCEPT ![p] =
                  @ \o [i \in 1..conn[p].pending |-> Message("canceled", 0)] \o <<Message("done", 0)>>]
    /\ UNCHANGED <<client, told>>

(* A pass: prune and look for a ready offer; then take the log that is new *)
(* and consume it entry by entry, looking again after each.                *)
Rechecks(p) ==
    /\ conn[p].pc = "start" /\ conn[p].pending > 0
    /\ Serve(p, Offered(prune([conn[p] EXCEPT !.woken = FALSE], retention_cutoff(store)), "scan"))
    /\ Quiet

Scans(p) ==
    /\ conn[p].pc = "scan"
    /\ Serve(p, [conn[p] EXCEPT !.read_index = Clamped(store, @), !.pc = "entry",
                                !.batch = notifications_after(store, conn[p].read_index)])
    /\ Quiet

Observes(p) ==
    /\ conn[p].pc = "entry" /\ conn[p].batch # <<>>
    /\ LET c == observe([conn[p] EXCEPT !.read_index = @ + 1, !.batch = Tail(@)], p,
                        Head(conn[p].batch), retention_cutoff(store))
       IN  Serve(p, IF c.pc = "entry" THEN Offered(c, "entry") ELSE c)
    /\ Quiet

Waits(p) ==
    /\ conn[p].pc = "entry" /\ conn[p].batch = <<>>
    /\ Serve(p, [conn[p] EXCEPT !.pc = "waiting"]) /\ Quiet

(* The store changed, or 50 seconds passed and empty votes keep the peer   *)
(* waiting.                                                                *)
Wakes(p) ==
    /\ conn[p].pc = "waiting" /\ conn[p].woken
    /\ Serve(p, [conn[p] EXCEPT !.pc = "start"]) /\ Quiet

KeepsAlive(p) ==
    /\ conn[p].pc = "waiting" /\ replies[p] = <<>>
    /\ Serve(p, Reply(prune(conn[p], retention_cutoff(store)), Message("votes", {}))) /\ Quiet

Cleans(p) ==
    /\ conn[p].pc = "start" /\ conn[p].pending = 0
    /\ prune(conn[p], retention_cutoff(store)) # conn[p]
    /\ Serve(p, prune(conn[p], retention_cutoff(store))) /\ Quiet

Sends(p) ==
    /\ conn[p].pc = "reply"
    /\ LET m == conn[p].reply IN
       /\ Serve(p, [sent(conn[p], m) EXCEPT !.pc = "start", !.pending = @ - 1,
                                            !.batch = <<>>, !.reply = NoMessage])
       /\ replies' = [replies EXCEPT ![p] = Append(@, m)]
       /\ told' = [told EXCEPT ![p] = @ \cup {m}]
    /\ UNCHANGED <<client, requests>>

Polled(p) == \/ Opens(p) \/ Reads(p) \/ Rechecks(p) \/ Scans(p) \/ Observes(p) \/ Waits(p)
             \/ Wakes(p) \/ Cleans(p) \/ Sends(p)

-----------------------------------------------------------------------------
(* The client: fill the window, and replace each answer by a request.      *)
Client(p, c) == client' = [client EXCEPT ![p] = c] /\ UNCHANGED <<store_vars, control, conn, told>>
Requests(n) == [i \in 1..n |-> "next"]

FillsWindow(p) ==
    /\ client[p].state = "running" /\ client[p].outstanding < Depth
    /\ Client(p, [client[p] EXCEPT !.outstanding = Depth])
    /\ requests' = [requests EXCEPT ![p] = @ \o Requests(Depth - client[p].outstanding)]
    /\ UNCHANGED replies

Receives(p) ==
    /\ client[p].state = "running" /\ client[p].outstanding = Depth /\ replies[p] # <<>>
    /\ replies' = [replies EXCEPT ![p] = Tail(@)]
    /\ requests' = [requests EXCEPT ![p] = Append(@, "next")]
    /\ Client(p, client[p])

(* shutdown: Quit once, then every outstanding answer, then Done.  The     *)
(* 120 seconds it allows itself are a timeout that may always strike.      *)
Quits(p) ==
    /\ client[p].state = "running"
    /\ \E i \in Input("quit") : i.source = p /\ inputs' = inputs \ {i}
    /\ client' = [client EXCEPT ![p].state = "draining"]
    /\ UNCHANGED <<store, clock, dedup, forwarded, control, conn, told>>
    /\ requests' = [requests EXCEPT ![p] = Append(@, "quit")]
    /\ UNCHANGED replies

Drains(p) ==
    /\ client[p].state = "draining" /\ replies[p] # <<>>
    /\ replies' = [replies EXCEPT ![p] = Tail(@)]
    /\ Client(p, LET m == Head(replies[p]) IN
          IF client[p].outstanding > 0
          THEN IF m.kind = "done" THEN [client[p] EXCEPT !.state = "failed"]
               ELSE [client[p] EXCEPT !.outstanding = @ - 1]
          ELSE [client[p] EXCEPT !.state = IF m.kind = "done" THEN "done" ELSE "failed"])
    /\ UNCHANGED requests

(* LeiosFetch for the body that was offered; serving it stops the          *)
(* retransmission.  A body that is gone ends the connection.               *)
Fetches(p) == \E m \in told[p] :
    /\ m.kind = "block" /\ conn[p].pc \notin {"closed", "error"}
    /\ store' = get_block(store, m.what)
    /\ store' # store \/ m.what \notin store.blocks
    /\ conn' = IF m.what \in store.blocks THEN conn ELSE [conn EXCEPT ![p].pc = "error"]
    /\ UNCHANGED <<inputs, clock, control, dedup, forwarded, client, requests, replies, told>>

Downstream(p) == FillsWindow(p) \/ Receives(p) \/ Drains(p)

Next == StoreStep \/ \E p \in Conns : Polled(p) \/ KeepsAlive(p) \/ Downstream(p) \/ Quits(p) \/ Fetches(p)

(* Both ends of a connection keep being polled; nothing makes the          *)
(* application produce data or the timers fire.                            *)
Spec == /\ Init /\ [][Next]_vars
        /\ \A p \in Conns : WF_vars(Polled(p)) /\ WF_vars(Downstream(p))

-----------------------------------------------------------------------------
Serving(p) == conn[p].pc \notin {"opening", "closed", "error"}
Said(p) == Len(replies'[p]) > Len(replies[p])
Saying(p) == Last(replies'[p])

(* On each connection an offer comes after an announcement of its EB,      *)
(* unless the producer's own announcement is deliberately withheld.        *)
AnnouncedFirst ==
    [][\A p \in Conns : Said(p) /\ Saying(p).kind \in {"block", "txs"} =>
         \/ \E m \in told[p] : m.kind = "announce" /\ Announces(m.what) = Saying(p).what
         \/ control.withhold]_vars

(* No announcement and no offer is sent twice on a connection, whatever is *)
(* re-injected, re-offered or evicted and fetched again in the meantime.   *)
OfferedOnce ==
    [][\A p \in Conns : Said(p) /\ Saying(p).kind \in {"announce", "block", "txs"} =>
         Saying(p) \notin told[p]]_vars

(* Every request the client counts as outstanding is on its way, pending   *)
(* at the responder, or answered by a message still on its way back.       *)
CreditsExact ==
    \A p \in Conns : Serving(p) =>
      client[p].outstanding = Len(SelectSeq(requests[p], LAMBDA r : r = "next"))
                                + conn[p].pending + Len(replies[p])

(* The cursor loses nothing: an offer the responder has read past, for an  *)
(* EB in the window, was the peer's own, or was sent, or is still owed.    *)
NoOfferLost ==
    \A p \in Conns : Serving(p) =>
      \A i \in DOMAIN store.notifications :
        LET entry == store.notifications[i]
            n == entry.note
            at == store.pruned + i
        IN  /\ at > conn[p].start /\ at <= conn[p].read_index
            /\ n.kind \in {"block", "txs"} /\ n.slot >= retention_cutoff(store)
            => \/ p \in entry.sources
               \/ Message(n.kind, n.what) \in told[p]
               \/ n.what \in DOMAIN conn[p].blocks /\ conn[p].blocks[n.what][Field(n.kind)] # {}

(* OfferDedup surfaces an offer of a peer once as long as the offered      *)
(* slots leave it in the window.                                           *)
ForwardedOnce ==
    \A o \in DOMAIN forwarded :
      (IF dedup.max_slot > Window THEN dedup.max_slot - Window ELSE 0) <= Slot(o.what)
        => forwarded[o] = 1

Owed(p, e) == Serving(p) /\ e \in DOMAIN conn[p].blocks /\ Ready(conn[p], e, "block")
Settled(p, e) ==
    \/ Message("block", e) \in told[p] \/ ~Serving(p)
    \/ ~has_offer(store, e, "block") \/ Slot(e) < retention_cutoff(store)
    \/ client[p].state # "running"
Quitting(p) == client[p].state = "draining"
Quit(p) == client[p].state = "done" \/ conn[p].pc = "error"

(* An offer a connection owes goes out once the data and the header are    *)
(* there, unless it expires or is evicted, or the connection ends.         *)
OffersReach ==
    \A p \in Conns : \A i \in UNION Scenarios :
        i.kind = "block" => (Owed(p, i.what) ~> Settled(p, i.what))

(* A client that quits gets every outstanding request answered and then    *)
(* Done, unless the connection fails.                                      *)
QuitAnswered == \A p \in Conns : Quitting(p) ~> Quit(p)

(* No client is told Done while it still waits for answers.                *)
NeverMiscounted == \A p \in Conns : client[p].state # "failed"
=============================================================================
