----------------------------- MODULE PraosNode ------------------------------
(***************************************************************************)
(* A node: the Praos state machine with the parts that feed it and carry   *)
(* out its effects.                                                        *)
(*    upstream peers  announce headers, roll back and answer intersections *)
(*                    (net-core/src/peer/peer_task.rs); external           *)
(*    BlockFetch      delivers the blocks of a requested range in order    *)
(*    validator       applies and rolls back in the order of the commands  *)
(*                    and reports each outcome; external                   *)
(*    chain store     mirrors the validated chain for downstream peers     *)
(* The node handles one event at a time and dispatches its effects before  *)
(* the next one.                                                           *)
(***************************************************************************)
EXTENDS Praos, ChainStore

CONSTANTS
    SyncPoints,     \* where the initial intersection may fall (SyncMethodConfig)
    OtherTips,      \* {None} when peers may report Origin as their tip, or {}
    Invalid,        \* the blocks that the ledger refuses
    OwnBlocks,      \* the blocks that this node forges
    Reorgs,         \* the depths of DeepReorg
    BlacklistTips,  \* the tips of blacklist requests; None clears
    MaxQueue,       \* bound on the commands pending when a slot's retry runs
    Faults,         \* the kinds of disturbances
    MaxFaults       \* bound on their number

VARIABLES
    node,       \* the PraosState
    store,      \* the ChainStore
    queue,      \* the commands of the validator
    ledger,     \* the validator's head
    fetches,    \* the BlockFetch requests sent to each peer, oldest first, and
                \* the coordinator's `pending_fetches`
    session,    \* per peer: the point it has announced up to, and whether
                \* a re-intersection is wanted
    faults      \* number of disturbances so far

vars == <<node, store, queue, ledger, fetches, session, faults>>

NoSession == [at |-> Unset, resync |-> "no"]

Init ==
    /\ node = NewNode
    /\ store = EmptyStore(SyncPoints # {None})
    /\ queue = <<>>
    /\ ledger = None
    /\ fetches = [sent |-> [p \in Peer |-> <<>>], pending |-> {}]
    /\ session = [p \in Peer |-> NoSession]
    /\ faults = 0

-----------------------------------------------------------------------------
(* The sequences that list every element of S once.                        *)
Orders(S) == {s \in [1..Cardinality(S) -> S] : Members(s) = S}

EffectsOf(n, op) == SelectSeq(n.fx, LAMBDA e : e.op = op)

RECURSIVE Publish(_, _)

Publish(s, fx) ==
    IF fx = <<>> THEN s
    ELSE LET e == Head(fx)
         IN  Publish(CASE e.op = "inject" -> AppendBlock(s, e.block)
                       [] e.op = "unwind" -> RollbackTo(s, e.to)
                       [] OTHER -> s,
                     Tail(fx))

(* The coordinator sends a request to one of its peers, in the order of    *)
(* their round-trip times, unless a request up to the same block is        *)
(* pending.                                                                *)
RECURSIVE RouteFetches(_, _, _)

RouteFetches(running, requests, order) ==
    IF requests = <<>> THEN running
    ELSE LET e == Head(requests)
             p == Head(SelectSeq(order, LAMBDA q : q \in e.peers))
             f == [from |-> e.from, to |-> e.to, next |-> e.from]
         IN  RouteFetches(IF e.peers = {} \/ (\E x \in running.pending : x.to = e.to)
                          THEN running
                          ELSE [sent |-> [running.sent EXCEPT ![p] = Append(@, f)],
                                pending |-> running.pending \cup {[to |-> e.to, peer |-> p]}],
                          Tail(requests), order)

(* The requests after peer p's oldest one is replaced by `rest` and the    *)
(* requests up to the given blocks are no longer pending.                  *)
Progress(p, rest, settled) ==
    [sent |-> [fetches.sent EXCEPT ![p] = rest \o Tail(@)],
     pending |-> {x \in fetches.pending : x.to \notin settled}]

(* Carry out the effects of n, after the event changed the rest to the     *)
(* given values.  A wish to re-intersect is passed on unless it is         *)
(* throttled.                                                              *)
Dispatch(n, commands, running, sessions, base) ==
    /\ node' = [n EXCEPT !.fx = <<>>]
    /\ store' = Publish(base, n.fx)
    /\ queue' = commands \o SelectSeq(n.fx, LAMBDA e : e.op \in {"apply", "rollback"})
    /\ \E order \in Orders(Peer) :
        fetches' = RouteFetches(running, EffectsOf(n, "fetch"), order)
    /\ \E passed \in SUBSET {e.peer : e \in Members(EffectsOf(n, "reintersect"))} :
        session' = [p \in Peer |->
            IF p \in passed /\ sessions[p].at # Unset /\ sessions[p].resync = "no"
            THEN [sessions[p] EXCEPT !.resync = "wanted"]
            ELSE sessions[p]]

Handled(n) == Dispatch(n, queue, fetches, session, store)

Fault(kind) == kind \in Faults /\ faults < MaxFaults /\ faults' = faults + 1

-----------------------------------------------------------------------------
(* Upstream peers.  A client that waits for the next header sees the wish  *)
(* to re-intersect only after that header has come.                        *)
Announced(p, point) ==
    [session EXCEPT ![p] =
        [at |-> point, resync |-> IF @.resync = "wanted" THEN "due" ELSE @.resync]]

Following(p) == session[p].at # Unset /\ session[p].resync # "due"

(* The first intersection of a connection: by the sync method while the    *)
(* store is empty, by the store's blocks otherwise.                        *)
Connect(p, point, heightKnown) ==
    LET initial == store.blocks = <<>>
        candidates == Members(IntersectionCandidates(store.blocks, 32))
    IN  /\ session[p].at = Unset
        /\ point \in IF initial THEN SyncPoints ELSE candidates
        /\ initial \/ ~heightKnown
        /\ Dispatch(RecordPeerIntersection(node, p, point, initial, heightKnown),
                    queue, fetches, [session EXCEPT ![p].at = point],
                    IF initial THEN Join(store, point, heightKnown) ELSE store)
        /\ UNCHANGED <<ledger, faults>>

TipAdvanced(p, h, tip) ==
    /\ Following(p)
    /\ Prev[h] = session[p].at
    /\ Dispatch(OnTipAdvanced(node, p, h, tip), queue, fetches, Announced(p, h), store)
    /\ UNCHANGED <<ledger, faults>>

PeerRolledBack(p, point) ==
    /\ Following(p)
    /\ session[p].at # None
    /\ point \in (Anc[session[p].at] \ {session[p].at}) \cup {None}
    /\ Dispatch(OnPeerRolledBack(node, p, point), queue, fetches,
                Announced(p, point), store)
    /\ Fault("rollback")
    /\ UNCHANGED ledger

Reintersect(p, point) ==
    /\ session[p].resync = "due"
    /\ point \in Members(IntersectionCandidates(store.blocks, 32))
    /\ Dispatch(RecordPeerIntersection(node, p, point, FALSE, FALSE),
                queue, fetches, [session EXCEPT ![p] = [at |-> point, resync |-> "no"]],
                store)
    /\ UNCHANGED <<ledger, faults>>

(* The requests that a lost peer leaves pending fail, each as the range of *)
(* its last block only.                                                    *)
RECURSIVE FailAll(_, _, _)

FailAll(n, p, blocks) ==
    IF blocks = <<>> THEN n
    ELSE FailAll(OnBlockFetchFailed(n, p, Head(blocks), Head(blocks)), p, Tail(blocks))

(* The peer's next connection has a new PeerId, which no cooldown concerns. *)
Disconnect(p) ==
    LET orphaned == {x \in fetches.pending : x.peer = p}
        lost(n) == [OnPeerDisconnected(n, p) EXCEPT !.fetchCooling = @ \ {p}]
    IN  /\ session[p].at # Unset
        /\ \E blocks \in Orders({x.to : x \in orphaned}) :
            Dispatch(lost(FailAll(node, p, blocks)), queue,
                     [sent |-> [fetches.sent EXCEPT ![p] = <<>>],
                      pending |-> fetches.pending \ orphaned],
                     [session EXCEPT ![p] = NoSession], store)
        /\ Fault("disconnect")
        /\ UNCHANGED ledger

-----------------------------------------------------------------------------
(* BlockFetch: a peer answers its requests one after the other, with the   *)
(* blocks of the range in order or with NoBlocks.                          *)
Served(f) == f.from \in Anc[f.to]

NextOf(f) == CHOOSE h \in Segment(f.from, f.to) : Prev[h] = f.next

BlockReceived(p) ==
    LET f == Head(fetches.sent[p])
        rest == IF f.next = f.to THEN <<>> ELSE <<[f EXCEPT !.next = NextOf(f)]>>
    IN  /\ fetches.sent[p] # <<>>
        /\ Served(f)
        /\ Dispatch(OnBlockReceived(node, f.next), queue, Progress(p, rest, {f.next}),
                    session, store)
        /\ UNCHANGED <<ledger, faults>>

BlockFetchFailed(p) ==
    LET f == Head(fetches.sent[p])
    IN  /\ fetches.sent[p] # <<>>
        /\ f.next = f.from
        /\ Dispatch(OnBlockFetchFailed(node, p, f.from, f.to), queue,
                    Progress(p, <<>>, {f.from, f.to}), session, store)
        /\ IF Served(f) THEN Fault("no_blocks") ELSE UNCHANGED faults
        /\ UNCHANGED ledger

-----------------------------------------------------------------------------
(* The validator carries out its oldest command and reports the outcome.   *)
(* It refuses the invalid blocks and those on top of them.                 *)
Refused(h) == Anc[h] \cap Invalid # {}

BlockApplied ==
    /\ queue # <<>>
    /\ Head(queue).op = "apply"
    /\ ~Refused(Head(queue).block)
    /\ ledger' = Head(queue).block
    /\ Dispatch(OnBlockApplied(node, Head(queue).block), Tail(queue), fetches,
                session, store)
    /\ UNCHANGED faults

BlockApplyFailed ==
    /\ queue # <<>>
    /\ Head(queue).op = "apply"
    /\ Refused(Head(queue).block)
    /\ Dispatch(OnBlockApplyFailed(node, Head(queue).block), Tail(queue), fetches,
                session, store)
    /\ UNCHANGED <<ledger, faults>>

BlockRolledBack ==
    /\ queue # <<>>
    /\ Head(queue).op = "rollback"
    /\ ledger' = Head(queue).to
    /\ Dispatch(OnBlockRolledBack(node, Head(queue).to), Tail(queue), fetches,
                session, store)
    /\ UNCHANGED faults

-----------------------------------------------------------------------------
(* The node's own slots and timers.  A forged block extends `local_tip`.   *)
Forge(h) ==
    /\ h \in OwnBlocks \ (node.tree.nodes \cup node.cache \cup node.submitted)
    /\ Prev[h] = node.tree.best
    /\ Handled(RegisterSelfProduced(node, h))
    /\ UNCHANGED <<ledger, faults>>

Retry ==
    /\ Len(queue) < MaxQueue
    /\ Handled(RetrySelectChain(node))
    /\ UNCHANGED <<ledger, faults>>

CooldownsElapse ==
    /\ node' = [node EXCEPT !.orphanCooling = {}, !.fetchCooling = {}, !.bridge = None]
    /\ UNCHANGED <<store, queue, ledger, fetches, session, faults>>

(* IN_FLIGHT_TTL passes; while a request is running, that is a delay.      *)
InFlightExpires ==
    /\ node.inFlight # node.stale
    /\ node' = [node EXCEPT !.stale = node.inFlight]
    /\ IF \E p \in Peer : fetches.sent[p] # <<>> THEN Fault("delay") ELSE UNCHANGED faults
    /\ UNCHANGED <<store, queue, ledger, fetches, session>>

DeepReorg(depth) ==
    /\ Handled(ForceRollback(node, depth))
    /\ Fault("control")
    /\ UNCHANGED ledger

Blacklist(tip, offset) ==
    /\ Handled(ApplyControl(node, tip, offset))
    /\ Fault("control")
    /\ UNCHANGED ledger

Validator == BlockApplied \/ BlockApplyFailed \/ BlockRolledBack

Next ==
    \/ \E p \in Peer, point \in Point, known \in BOOLEAN : Connect(p, point, known)
    \/ \E p \in Peer, h \in Hash : \E tip \in {h} \cup OtherTips : TipAdvanced(p, h, tip)
    \/ \E p \in Peer, point \in Point : PeerRolledBack(p, point)
    \/ \E p \in Peer, point \in Point : Reintersect(p, point)
    \/ \E p \in Peer : Disconnect(p)
    \/ \E p \in Peer : BlockReceived(p) \/ BlockFetchFailed(p)
    \/ Validator
    \/ \E h \in OwnBlocks : Forge(h)
    \/ Retry
    \/ CooldownsElapse
    \/ InFlightExpires
    \/ \E depth \in Reorgs : DeepReorg(depth)
    \/ \E tip \in BlacklistTips : Blacklist(tip, 0)

Spec == Init /\ [][Next]_vars

(* The validator, the fetches and the timers go on, and a peer that owes   *)
(* an answer gives it.  No peer has to announce anything, and a running    *)
(* request need not outlive its TTL.  The conjuncts after the first two    *)
(* are WF_vars of their actions, with the states in which the action can   *)
(* change something spelled out: TLC cannot evaluate ENABLED for them.     *)
Fairness ==
    /\ WF_vars(CooldownsElapse)
    /\ WF_vars(InFlightExpires /\ \A p \in Peer : fetches.sent[p] = <<>>)
    /\ []<>(queue = <<>>) \/ []<><<Validator>>_vars
    /\ []<>(RetrySelectChain(node) = node) \/ []<><<Retry>>_vars
    /\ \A p \in Peer :
        /\ []<>(fetches.sent[p] = <<>>)
            \/ []<><<BlockReceived(p) \/ BlockFetchFailed(p)>>_vars
        /\ []<>(session[p].resync # "due")
            \/ []<><<\E point \in Point : Reintersect(p, point)>>_vars

FairSpec == Spec /\ Fairness

-----------------------------------------------------------------------------
(* The fields of PraosState and of the chain store keep their types, the   *)
(* store its caps, whatever order the events come in.                      *)
TypeOK ==
    /\ node.tree \in Tree
    /\ {node.adopted, node.queued, node.lastValidated, node.bridge, ledger} \subseteq Point
    /\ UNION {node.cache, node.validated, node.submitted, node.inFlight} \subseteq Hash
    /\ node.stale \subseteq node.inFlight
    /\ node.orphanCooling \cup node.fetchCooling \subseteq Peer
    /\ \A p \in Peer : node.chains[p] \in Chain /\ session[p].at \in Point \cup {Unset}
    /\ node.fx = <<>>
    /\ store \in Store /\ Capped(store)
    /\ faults \in 0..MaxFaults

(* Where the validator is after the commands it has been given.            *)
QueueEnd ==
    LET last == queue[Len(queue)]
    IN  IF queue = <<>> THEN ledger
        ELSE IF last.op = "apply" THEN last.block ELSE last.to

(* `queued_validator_tip` is where the validator will be after all of its  *)
(* commands, however switches, realignments and verdicts interleave.       *)
QueueProjection == node.queued = QueueEnd

Pending == {queue[i].block : i \in {j \in DOMAIN queue : queue[j].op = "apply"}}

(* Every block of `in_flight_validation` has an Apply that is still to be  *)
(* answered: a block without one would never be submitted again.           *)
SubmittedPending == node.submitted \subseteq Pending

(* Pruning keeps what is in use: the adopted tip is in the chain tree, and *)
(* a block that waits for its verdict is still in `block_cache` (or        *)
(* `on_block_applied` would not publish it).                               *)
AdoptedKnown ==
    /\ node.adopted # None => node.adopted \in node.tree.nodes
    /\ node.submitted \subseteq node.cache

(* With nothing left to validate, the store's tip is the adopted tip: the  *)
(* InjectBlock and InjectRollback effects have mirrored every switch.      *)
ServesAdopted ==
    queue = <<>> /\ store.blocks # <<>> => LastOf(store.blocks) = node.adopted

Improves ==
    node'.adopted # node.adopted
        => \/ node.adopted = None
           \/ /\ node'.adopted # None
              /\ IsBetterTip(BlockNo[node'.adopted], node'.adopted,
                             BlockNo[node.adopted], node.adopted)

(* The adopted tip is only replaced by a better one (`is_better_tip`): no  *)
(* sequence of switches goes back and forth between two chains.            *)
AdoptedImproves == [][Improves]_vars

Height(point) == IF point = None THEN 0 ELSE BlockNo[point] + 1

(* A rollback of the validator undoes at most `security_param_k` blocks:   *)
(* the older ones are settled.                                             *)
SettledKept == [][Height(ledger') >= Height(ledger) - K]_vars

(* With nothing left to validate, no block of the served chain is on the   *)
(* blacklist or on top of it: `apply_control` has it rolled back.          *)
ServesClean ==
    queue = <<>> => \A h \in Members(store.blocks) : ~IsBlacklisted(node.tree, h)

CaughtUp ==
    \A p \in Peer :
        session[p].at \in Hash
            => /\ node.adopted # None
               /\ ~IsBetterTip(BlockNo[session[p].at], session[p].at,
                               BlockNo[node.adopted], node.adopted)

(* The node catches up again and again: no peer is left for good on a      *)
(* chain that is better than the adopted one, since `retry_select_chain`   *)
(* runs on every slot.                                                     *)
AdoptsAnnounced == []<>CaughtUp
=============================================================================
