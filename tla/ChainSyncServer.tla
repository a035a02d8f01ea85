-------------------------- MODULE ChainSyncServer ---------------------------
(***************************************************************************)
(* One ChainSync session: the coordinator changes the chain store while a  *)
(* server task (`serve_chainsync`, net-core/src/peer/server_handlers.rs)   *)
(* answers the requests of one follower.  The task reads the store under   *)
(* its lock several times per answer, and the store may change between two *)
(* of these reads; `pc` says which read comes next.  ChainSync has one     *)
(* request outstanding at a time, so sending an answer and its arrival at  *)
(* the follower are one step.                                              *)
(***************************************************************************)
EXTENDS ChainStore

CONSTANTS
    JoinPoints,     \* where this node's own upstream intersections may fall
    OwnChains,      \* the chains the follower may hold when it intersects
    MaxCandidates,  \* how many intersection points a follower sends
    MaxResyncs,     \* bound on the follower's further intersections
    MaxRollbacks    \* bound on the rollbacks of the store

ASSUME JoinAssumption == JoinPoints \subseteq Point

VARIABLES
    store,      \* the chain store
    rollbacks,  \* number of rollbacks so far
    resyncs,    \* number of further intersections so far
    dirty,      \* the task's watch subscription has an unseen change
    pc,         \* idle, parked, answer, forward, rollback or await
    points,     \* the points of the follower's MsgFindIntersect
    cursor,     \* `read_point`
    follower    \* [base, chain]: the intersection and the headers after it

taskVars == <<resyncs, pc, points, cursor, follower>>
vars == <<store, rollbacks, dirty, taskVars>>

NoSession == [base |-> Unset, chain |-> <<>>]

Init ==
    /\ \E anchored \in BOOLEAN : store = EmptyStore(anchored)
    /\ rollbacks = 0
    /\ resyncs = 0
    /\ dirty = FALSE
    /\ pc = "idle"
    /\ points = <<>>
    /\ cursor = None
    /\ follower = NoSession

-----------------------------------------------------------------------------
(* The coordinator.  Consensus publishes blocks in chain order: a block on *)
(* top of the tip, or the first block of a store that joined the chain at  *)
(* a point whose height it does not know.                                  *)
Extends(h) ==
    \/ Prev[h] = TipPoint(store)
    \/ store.blocks = <<>> /\ store.anchored /\ store.anchor = None

(* Mutant: the waiting tasks are not woken.                                *)
MutInjectBlock(h) ==
    /\ Extends(h)
    /\ Accepts(store, h)
    /\ store' = AppendBlock(store, h)
    /\ UNCHANGED <<dirty, rollbacks, taskVars>>

(* `NetworkCommand::InjectBlock`.                                          *)
InjectBlock(h) ==
    /\ Extends(h)
    /\ Accepts(store, h)
    /\ store' = AppendBlock(store, h)
    /\ dirty' = TRUE
    /\ UNCHANGED <<rollbacks, taskVars>>

(* `NetworkCommand::InjectRollback`, to an ancestor of the live tip.       *)
InjectRollback(p) ==
    /\ rollbacks < MaxRollbacks
    /\ p = None \/ (TipPoint(store) # None /\ p \in Anc[TipPoint(store)])
    /\ store' = RollbackTo(store, p)
    /\ dirty' = TRUE
    /\ rollbacks' = rollbacks + 1
    /\ UNCHANGED taskVars

(* `PeerEvent::IntersectionFound`, on an initial intersection.             *)
IntersectionFound(p, heightKnown) ==
    /\ store' = Join(store, p, heightKnown)
    /\ dirty' = TRUE
    /\ UNCHANGED <<rollbacks, taskVars>>

-----------------------------------------------------------------------------
(* The follower asks for an intersection: at the start, after a refusal,   *)
(* or again when its chain selection found it to be off our chain.         *)
FindIntersect(own) ==
    /\ pc = "idle"
    /\ \/ follower.base = Unset /\ UNCHANGED resyncs
       \/ follower.base # Unset /\ resyncs < MaxResyncs /\ resyncs' = resyncs + 1
    /\ pc' = IF IsSeeded(store) THEN "answer" ELSE "parked"
    /\ points' = IntersectionCandidates(own, MaxCandidates)
    /\ UNCHANGED <<store, rollbacks, dirty, cursor, follower>>

(* A parked task wakes up to look whether the store is seeded now.         *)
Unpark ==
    /\ pc = "parked"
    /\ dirty
    /\ dirty' = FALSE
    /\ pc' = IF IsSeeded(store) THEN "answer" ELSE "parked"
    /\ UNCHANGED <<store, rollbacks, resyncs, points, cursor, follower>>

(* PARK_UNSEEDED_INTERSECT_MAX has passed.                                 *)
ParkTimeout ==
    /\ pc = "parked"
    /\ pc' = "answer"
    /\ UNCHANGED <<store, rollbacks, resyncs, dirty, points, cursor, follower>>

(* The cursor moves only when a common point was found.                    *)
AnswerIntersect ==
    LET found == FindIntersection(store, points)
    IN  /\ pc = "answer"
        /\ pc' = "idle"
        /\ points' = <<>>
        /\ cursor' = IF found = Unset THEN cursor ELSE found
        /\ follower' = IF found = Unset THEN NoSession
                       ELSE [base |-> found, chain |-> <<>>]
        /\ UNCHANGED <<store, rollbacks, resyncs, dirty>>

(* What the task does with the outcome of `next_after_cursor`.             *)
Resolve ==
    LET next == NextAfterCursor(store, cursor)
    IN  /\ pc' = CASE next.kind = "gone" -> "rollback"
                   [] next.kind = "next" -> "forward"
                   [] next.kind = "at_tip" -> "await"
        /\ cursor' = IF next.kind = "next" THEN next.block ELSE cursor
        /\ UNCHANGED <<store, rollbacks, resyncs, points, follower>>

RequestNext ==
    /\ pc = "idle"
    /\ follower.base # Unset
    /\ UNCHANGED dirty
    /\ Resolve

Awaken ==
    /\ pc = "await"
    /\ dirty
    /\ dirty' = FALSE
    /\ Resolve

(* `MsgRollForward` with the block resolved before.                        *)
SendRollForward ==
    /\ pc = "forward"
    /\ pc' = "idle"
    /\ follower' = [follower EXCEPT !.chain = Append(@, cursor)]
    /\ UNCHANGED <<store, rollbacks, resyncs, dirty, points, cursor>>

(* The follower's `PeerChain::rollback_to`: unknown points change nothing. *)
Truncated(f, p) ==
    IF InSeq(p, f.chain) THEN [f EXCEPT !.chain = UpTo(@, p)]
    ELSE IF p = f.base THEN [f EXCEPT !.chain = <<>>]
    ELSE f

(* `MsgRollBackward`, to the target read when the answer is sent.          *)
SendRollBackward ==
    /\ pc = "rollback"
    /\ pc' = "idle"
    /\ cursor' = ServableRollbackTarget(store)
    /\ follower' = Truncated(follower, cursor')
    /\ UNCHANGED <<store, rollbacks, resyncs, dirty, points>>

Task ==
    \/ Unpark
    \/ ParkTimeout
    \/ AnswerIntersect
    \/ RequestNext
    \/ Awaken
    \/ SendRollForward
    \/ SendRollBackward

Next ==
    \/ \E h \in Hash : InjectBlock(h)
    \/ \E p \in Point : InjectRollback(p)
    \/ \E p \in JoinPoints, heightKnown \in BOOLEAN : IntersectionFound(p, heightKnown)
    \/ \E own \in OwnChains : FindIntersect(own)
    \/ Task

Spec == Init /\ [][Next]_vars

(* The task runs whenever it can, the follower keeps asking, and the park  *)
(* timeout covers all the wake-ups of one park.                            *)
FairSpec == Spec /\ WF_vars(Task) /\ WF_vars(ParkTimeout)

-----------------------------------------------------------------------------
(* The store keeps its caps and the task its states, whatever order        *)
(* injections, rollbacks, wake-ups and requests come in.                   *)
TypeOK ==
    /\ store \in Store /\ Capped(store)
    /\ rollbacks \in 0..MaxRollbacks /\ resyncs \in 0..MaxResyncs
    /\ dirty \in BOOLEAN
    /\ pc \in {"idle", "parked", "answer", "forward", "rollback", "await"}
    /\ points \in Seq(Point)
    /\ cursor \in Point
    /\ follower \in [base : Point \cup {Unset}, chain : Seq(Hash)]

(* A header served to the follower is the child of the point the follower  *)
(* was last sent to, whatever the coordinator evicts, rolls back or joins  *)
(* between two requests (`next_after_cursor` resolves the cursor by point  *)
(* and refuses to serve a mid-chain block to a follower at Origin).        *)
ForwardLinks ==
    [][pc # "forward" /\ pc' = "forward" => Prev[cursor'] = cursor]_vars

(* The body of every header the follower still has can be fetched: blocks  *)
(* that left the live chain are kept for BlockFetch (`retain_orphans`).    *)
AnnouncedServable ==
    \A i \in DOMAIN follower.chain :
        LET h == follower.chain[i]
        IN  GetRange(store, h, h) # <<>> \/ GetOrphans(store, h, h) # <<>>

(* Once the store stops changing, the follower is brought to its tip: no   *)
(* wake-up is lost and no cursor is stuck.  Only a follower at Origin waits *)
(* for as long as the store does not start with the child of genesis.      *)
CatchesUp ==
    (<>[][UNCHANGED store]_store)
        => <>[](\/ follower.base = Unset
                \/ cursor = TipPoint(store)
                \/ cursor = None /\ ~RootsAtGenesis(store))

(* "Origin always resolves (serve from the front), so it is the safe       *)
(* fallback" (`servable_rollback_target`): a follower that was rolled back *)
(* to Origin is brought to the tip, too.                                   *)
OriginResolves ==
    (<>[][UNCHANGED store]_store)
        => <>[](follower.base # Unset => cursor = TipPoint(store))
=============================================================================
