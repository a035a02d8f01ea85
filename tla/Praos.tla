------------------------------- MODULE Praos --------------------------------
(***************************************************************************)
(* Chain selection and the Praos state machine (shared-rs/consensus/src/   *)
(* praos.rs).  A node value n is a record; the pure queries of PraosState  *)
(* read the fields                                                         *)
(*    tree       the chain tree                                            *)
(*    adopted    `adopted_tip_hash`                                        *)
(*    cache      the hashes of the blocks in `block_cache`                 *)
(*    validated  the hashes of the validated blocks                        *)
(*    submitted  `in_flight_validation`                                    *)
(*    chains     `peer_chains`: a function from peers to peer chains       *)
(* Peers are numbers, since ties between peers go to the larger PeerId.    *)
(*                                                                         *)
(* A handler of PraosState is an operator on node values that appends the  *)
(* effects it emits to the field fx.  Besides the fields above a node has  *)
(*    queued        `queued_validator_tip`                                 *)
(*    lastValidated `last_validated_tip`                                   *)
(*    orphanCooling `orphan_cooldown`: the peers whose cooldown runs       *)
(*    fetchCooling  `block_fetch_cooldown`, likewise                       *)
(*    inFlight      the blocks asked for; stale are those of them whose    *)
(*                  IN_FLIGHT_TTL has passed                               *)
(*    bridge        `bridge_cooldown`: the point it runs for, or None      *)
(*    fx            the effects, in the order of their emission            *)
(* Headers are parsed.  The equivocation trackers, the effects that fetch  *)
(* endorser blocks and the diagnostics do not take part in this.           *)
(***************************************************************************)
EXTENDS ChainTree, Sequences, FiniteSets

CONSTANTS
    Peer,       \* the peers, as numbers
    K,          \* `security_param_k`
    ChainCap    \* `peer_chain_cap`: max(2k, 64) entries

ASSUME ChainCapAssumption == ChainCap \in Nat \ {0}

ASSUME SelectionAssumption == Peer \subseteq Nat /\ IsFiniteSet(Peer) /\ K \in Nat

-----------------------------------------------------------------------------
(* The chain of headers that one peer has announced                        *)
(* (shared-rs/consensus/src/peer_chain.rs), as a data type: a record of    *)
(*    entries  the hashes of the announced headers, oldest first           *)
(*    anchor   the ChainSync intersection: a hash, None for Origin, and    *)
(*             NoAnchor before the first intersection                      *)
NoAnchor == -1

Chain == [entries : Seq(Hash), anchor : Hash \cup {None, NoAnchor}]

NoChain == [entries |-> <<>>, anchor |-> NoAnchor]

Entries(c) == {c.entries[i] : i \in DOMAIN c.entries}

ChainTip(c) == c.entries[Len(c.entries)]

SetAnchor(c, p) == [c EXCEPT !.anchor = p]

ClearEntries(c) == [c EXCEPT !.entries = <<>>]

(* `append`: refused for a known header and for one that is not higher     *)
(* than the tip; the oldest entries are dropped beyond the cap.            *)
AppendHeader(c, h) ==
    IF \/ h \in Entries(c)
       \/ c.entries # <<>> /\ BlockNo[h] <= BlockNo[ChainTip(c)]
    THEN c
    ELSE LET grown == Append(c.entries, h)
             excess == IF Len(grown) > ChainCap THEN Len(grown) - ChainCap ELSE 0
         IN  [c EXCEPT !.entries = SubSeq(grown, excess + 1, Len(grown))]

(* `rollback_to`: unknown points leave the chain as it is.                 *)
RollbackChain(c, p) ==
    IF p \in Entries(c)
    THEN [c EXCEPT !.entries = SubSeq(@, 1, CHOOSE i \in DOMAIN @ : @[i] = p)]
    ELSE IF p = c.anchor THEN ClearEntries(c)
    ELSE c

(* `trim_by_blacklist`: the entries before the first one in B.             *)
TrimAt(c, B) ==
    [c EXCEPT !.entries =
        LET clean == {n \in 0..Len(@) : \A i \in 1..n : @[i] \notin B}
        IN  SubSeq(@, 1, CHOOSE n \in clean : \A m \in clean : m <= n)]

-----------------------------------------------------------------------------
(* The blocks of a chain in order, oldest first.                           *)
Ordered(S) ==
    [i \in 1..Cardinality(S) |->
        CHOOSE h \in S : Cardinality({g \in S : BlockNo[g] <= BlockNo[h]}) = i]

Highest(S) == CHOOSE h \in S : \A g \in S : BlockNo[g] <= BlockNo[h]

Lowest(S) == CHOOSE h \in S : \A g \in S : BlockNo[h] <= BlockNo[g]

(* The longest prefix of seq whose elements are in S.                      *)
PrefixIn(seq, S) ==
    LET good == {m \in 0..Len(seq) : \A i \in 1..m : seq[i] \in S}
    IN  SubSeq(seq, 1, CHOOSE m \in good : \A l \in good : l <= m)

DropLeading(seq, S) ==
    SubSeq(seq, 1 + Len(PrefixIn(seq, S)), Len(seq))

Members(seq) == {seq[i] : i \in DOMAIN seq}

(* `chain_tree.prev_hash`: a root has no parent in the tree.               *)
TreePrev(t, h) == IF h \in t.nodes \ t.roots THEN Prev[h] ELSE None

AncestorsOf(t, h) == IF h = None THEN {} ELSE Ancestors(t, h)

Held(n) == n.validated \cup n.cache

(* `walk_ancestors_hybrid`: parent links through the tree and the cache.   *)
HybridWalk(n, h) == Ancestors([n.tree EXCEPT !.nodes = @ \cup n.cache], h)

ReachesOrigin(n, walk) ==
    LET last == Lowest(walk)
    IN  \/ last \in n.tree.roots
        \/ last \in n.tree.nodes \cup n.cache /\ Prev[last] = None

-----------------------------------------------------------------------------
(* The outcome of a selection pass.                                        *)
NoBetterChain == [kind |-> "no_better"]
RollbackTainted(a) == [kind |-> "rollback_tainted", ancestor |-> a]
OrphanCandidate(p) == [kind |-> "orphan", peer |-> p]
Switched(a, replay) == [kind |-> "switched", ancestor |-> a, replay |-> replay]
WaitingForBlocks(p, missing, anchor) ==
    [kind |-> "waiting", peer |-> p, missing |-> missing, anchor |-> anchor]

(* The deepest part of the adopted chain that is still clean.              *)
EffectiveAdopted(n) ==
    LET clean == {h \in AncestorsOf(n.tree, n.adopted) : ~IsBlacklisted(n.tree, h)}
    IN  IF clean = {} THEN None ELSE Highest(clean)

(* The taint of the blacklist, carried along the links inside the peer's   *)
(* fragment.                                                               *)
TaintedEntries(n, c) ==
    LET source(h) == \/ IsBlacklisted(n.tree, h)
                     \/ Prev[h] # None /\ IsBlacklisted(n.tree, Prev[h])
    IN  {h \in Entries(c) : \E x \in Entries(c) \cap Anc[h] :
            source(x) /\ Segment(x, h) \subseteq Entries(c)}

Trimmed(n, p) == TrimAt(n.chains[p], TaintedEntries(n, n.chains[p]))

(* Mutant: a chain of the same length may replace the adopted one.         *)
MutCandidates(n, skip) ==
    {p \in Peer \ skip :
        /\ Trimmed(n, p).entries # <<>>
        /\ LET tip == ChainTip(Trimmed(n, p))
           IN  \/ n.adopted = None
               \/ /\ BlockNo[tip] >= NumberOf(n.tree, n.adopted)
                  /\ tip # n.adopted}

(* The peers whose clean chain beats the adopted one.                      *)
Candidates(n, skip) ==
    {p \in Peer \ skip :
        /\ Trimmed(n, p).entries # <<>>
        /\ LET tip == ChainTip(Trimmed(n, p))
           IN  \/ n.adopted = None
               \/ IsBetterTip(BlockNo[tip], tip, NumberOf(n.tree, n.adopted), n.adopted)}

BestCandidate(n, candidates) ==
    CHOOSE p \in candidates : \A q \in candidates \ {p} :
        LET a == ChainTip(Trimmed(n, p))
            b == ChainTip(Trimmed(n, q))
        IN  \/ IsBetterTip(BlockNo[a], a, BlockNo[b], b)
            \/ a = b /\ p > q

NoAncestor == -1

(* The entries of the candidate chain c that the adopted chain shares.     *)
SharedEntries(n, c) == Entries(c) \cap AncestorsOf(n.tree, n.adopted)

(* Where c branches off the adopted chain: at an entry, at the parent of   *)
(* the oldest one, or at the intersection, trusted within K blocks.        *)
CommonAncestor(n, c) ==
    LET adopted == AncestorsOf(n.tree, n.adopted)
        parent == Prev[c.entries[1]]
        depth == NumberOf(n.tree, n.adopted) - NumberOf(n.tree, c.anchor)
    IN  IF SharedEntries(n, c) # {} THEN Highest(SharedEntries(n, c))
        ELSE IF parent = None \/ parent \in adopted \/ n.adopted = None THEN parent
        ELSE IF \/ c.anchor \in adopted
                \/ c.anchor \in n.tree.nodes /\ depth <= K
        THEN c.anchor
        ELSE NoAncestor

Replay(n, c) ==
    LET shared == {i \in DOMAIN c.entries : c.entries[i] \in SharedEntries(n, c)}
    IN  IF shared = {} THEN c.entries
        ELSE SubSeq(c.entries, 1 + CHOOSE i \in shared : \A j \in shared : j <= i,
                    Len(c.entries))

(* `leading_missing_run`: skip what is held, then take what is missing.    *)
LeadingMissingRun(n, replay) ==
    PrefixIn(DropLeading(replay, Held(n)), Hash \ Held(n))

(* All replay blocks are held: the replay must be one chain that leads     *)
(* back to the ancestor.                                                   *)
Connects(n, ancestor, replay) ==
    LET walk == HybridWalk(n, replay[Len(replay)])
    IN  /\ Members(replay) \subseteq walk
        /\ IF ancestor = None THEN ReachesOrigin(n, walk) ELSE ancestor \in walk

(* The decision on the blocks to replay: fetch what is missing, or switch. *)
DecideReplay(n, p, c, ancestor, replay, missing) ==
    LET useAnchor == c.anchor = ancestor /\ Prev[c.entries[1]] # ancestor
    IN  IF missing # <<>>
        THEN WaitingForBlocks(p, missing, IF useAnchor THEN c.anchor ELSE None)
        ELSE IF replay # <<>> /\ ~Connects(n, ancestor, replay) THEN OrphanCandidate(p)
        ELSE Switched(ancestor, replay)

DecideChain(n, p, c, ancestor, replay) ==
    IF ancestor = NoAncestor
    THEN OrphanCandidate(p)
    ELSE DecideReplay(n, p, c, ancestor, replay, LeadingMissingRun(n, replay))

DecidePeer(n, p, c) == DecideChain(n, p, c, CommonAncestor(n, c), Replay(n, c))

BestOf(n, p) == DecidePeer(n, p, Trimmed(n, p))

(* `select_chain_once_impl`.                                               *)
SelectChainOnce(n, skip) ==
    IF EffectiveAdopted(n) # n.adopted
    THEN RollbackTainted(EffectiveAdopted(n))
    ELSE IF Candidates(n, skip) = {}
    THEN NoBetterChain
    ELSE BestOf(n, BestCandidate(n, Candidates(n, skip)))

-----------------------------------------------------------------------------
(* The outcome of `try_switch_to`: a switch, a gap to bridge, or nothing.  *)
NoSwitch == [kind |-> "none"]
Gap(h) == [kind |-> "gap", at |-> h]
Switch(a, replay) == [kind |-> "switch", ancestor |-> a, replay |-> replay]

(* `try_switch_to`: towards the tip of a branch of the tree, as far as the *)
(* blocks are held and not yet submitted.                                  *)
TrySwitchTo(n, tip) ==
    LET t == n.tree
        walk == Ancestors(t, tip)
        common == walk \cap AncestorsOf(t, n.adopted)
        oldest == Lowest(walk)
        rooted == n.adopted = None /\ TreePrev(t, oldest) = None
        ancestor == IF common = {} THEN None ELSE Highest(common)
        replay == IF common = {} THEN walk ELSE walk \ Ancestors(t, ancestor)
        prefix == PrefixIn(Ordered(replay), Held(n) \ n.submitted)
    IN  IF \/ tip = n.adopted
           \/ tip \notin t.nodes
           \/ IsBlacklisted(t, tip)
           \/ ~IsBetterTip(NumberOf(t, tip), tip, NumberOf(t, n.adopted), n.adopted)
        THEN NoSwitch
        ELSE IF common = {} /\ ~rooted THEN Gap(oldest)
        ELSE IF prefix = <<>> THEN NoSwitch
        ELSE Switch(ancestor, prefix)

-----------------------------------------------------------------------------
(* The handlers.                                                           *)

CONSTANT BodyWindow     \* `block_body_retention_blocks`, K when it is not set

ASSUME BodyWindowAssumption == BodyWindow \in 0..K

NewNode ==
    [tree |-> EmptyTree, adopted |-> None, queued |-> None, lastValidated |-> None,
     cache |-> {}, validated |-> {}, submitted |-> {},
     chains |-> [p \in Peer |-> NoChain], orphanCooling |-> {}, fetchCooling |-> {},
     inFlight |-> {}, stale |-> {}, bridge |-> None, fx |-> <<>>]

(* `PraosEffect`.                                                          *)
ValidatorRollback(p) == [op |-> "rollback", to |-> p]
ValidatorApply(h) == [op |-> "apply", block |-> h]
InjectBlock(h) == [op |-> "inject", block |-> h]
InjectRollback(p) == [op |-> "unwind", to |-> p]
FetchBlockRange(from, to, peers) ==
    [op |-> "fetch", from |-> from, to |-> to, peers |-> peers]
ReIntersect(p) == [op |-> "reintersect", peer |-> p]

Emit(n, e) == [n EXCEPT !.fx = Append(@, e)]

-----------------------------------------------------------------------------
(* Mutant: the projection of the validator's queue is not moved.           *)
MutSubmit(n, h) ==
    IF IsBlacklisted(n.tree, h)
    THEN n
    ELSE [Emit(n, ValidatorApply(h)) EXCEPT !.adopted = h, !.submitted = @ \cup {h}]

(* `submit_for_validation_internal`.                                       *)
Submit(n, h) ==
    LET parent == Prev[h]
        realigned == IF parent # n.queued /\ parent \in n.tree.nodes
                     THEN Emit(n, ValidatorRollback(parent))
                     ELSE n
    IN  IF IsBlacklisted(n.tree, h)
        THEN n
        ELSE [Emit(realigned, ValidatorApply(h)) EXCEPT
                !.queued = h, !.adopted = h, !.submitted = @ \cup {h}]

RECURSIVE SubmitAll(_, _)

SubmitAll(n, seq) == IF seq = <<>> THEN n ELSE SubmitAll(Submit(n, Head(seq)), Tail(seq))

(* `execute_switch_internal`: back to the ancestor, unless the validator   *)
(* will be there anyway, then the replay up to the first evicted body.     *)
ExecuteSwitch(n, ancestor, replay) ==
    LET rolls == IF ancestor = None THEN n.adopted # None ELSE n.queued # ancestor
        start == IF rolls
                 THEN [Emit(n, ValidatorRollback(ancestor)) EXCEPT
                        !.queued = ancestor, !.adopted = ancestor]
                 ELSE n
    IN  IF rolls /\ ancestor # None /\ ancestor \notin n.tree.nodes
        THEN n
        ELSE SubmitAll(start, PrefixIn(replay, n.cache))

TrySwitchAndExecute(n, tip) ==
    LET decision == TrySwitchTo(n, tip)
    IN  IF decision.kind = "switch"
        THEN ExecuteSwitch(n, decision.ancestor, decision.replay)
        ELSE n

TrySwitchToBest(n) ==
    IF n.tree.best = None THEN n ELSE TrySwitchAndExecute(n, n.tree.best)

EvictStaleInFlight(n) == [n EXCEPT !.inFlight = @ \ n.stale, !.stale = {}]

(* `choose_block_fetch_peers`: the policy picks some of these.             *)
FetchPeers(n, h) == {p \in Peer : h \in Entries(n.chains[p])}

(* `issue_fetch_internal`: the first run of blocks that nobody asked for.  *)
IssueFetch(n, missing, anchor, hint) ==
    LET live == EvictStaleInFlight(n)
        run == PrefixIn(DropLeading(missing, live.inFlight), Hash \ live.inFlight)
        last == run[Len(run)]
        from == IF anchor # None /\ run[1] = missing[1] THEN anchor ELSE run[1]
    IN  IF run = <<>>
        THEN live
        ELSE Emit([live EXCEPT !.inFlight = @ \cup Members(run)],
                  FetchBlockRange(from, last, FetchPeers(n, last) \cup {hint}))

(* The loop of `evaluate_and_fetch_internal`; skip are the peers that are  *)
(* not considered.                                                         *)
RECURSIVE Evaluate(_, _)

(* Another round, unless the rollback off the tainted blocks was refused.  *)
EvaluateAfter(n, rolledBack, skip) ==
    IF rolledBack.adopted = n.adopted THEN rolledBack ELSE Evaluate(rolledBack, skip)

(* Drop the announced chain of p, which leads nowhere.                     *)
Orphaned(n, p) ==
    Emit([n EXCEPT !.chains[p] = ClearEntries(@), !.orphanCooling = @ \cup {p}],
         ReIntersect(p))

ActOn(n, skip, d) ==
    CASE d.kind = "no_better" -> n
      [] d.kind = "rollback_tainted" ->
            EvaluateAfter(n, ExecuteSwitch(n, d.ancestor, <<>>), skip)
      [] d.kind = "orphan" -> Evaluate(Orphaned(n, d.peer), skip \cup {d.peer})
      [] d.kind = "switched" -> ExecuteSwitch(n, d.ancestor, d.replay)
      [] d.kind = "waiting" -> IssueFetch(n, d.missing, d.anchor, d.peer)

Evaluate(n, skip) == ActOn(n, skip, SelectChainOnce(n, skip))

EvaluateAndFetch(n) == Evaluate(n, n.orphanCooling \cup n.fetchCooling)

-----------------------------------------------------------------------------
(* The announced header takes the point of the reported tip when it has    *)
(* the tip's number: nothing is recorded when that tip is Origin.          *)
RecordPeerTip(n, p, h, tip) ==
    IF BlockNo[h] = 0 /\ tip = None
    THEN n
    ELSE [n EXCEPT !.chains[p] = AppendHeader(@, h)]

OnTipAdvanced(n, p, h, tip) == EvaluateAndFetch(RecordPeerTip(n, p, h, tip))

(* `record_peer_intersection`.                                             *)
RecordPeerIntersection(n, p, point, initial, heightKnown) ==
    LET anchored == [n EXCEPT !.chains[p] = SetAnchor(@, point)]
        rooted == [anchored EXCEPT !.tree = InsertChainStart(@, point, heightKnown)]
    IN  IF ~initial \/ point = None
        THEN anchored
        ELSE IF heightKnown /\ n.adopted = None /\ ~IsBlacklisted(rooted.tree, point)
        THEN [rooted EXCEPT !.adopted = point]
        ELSE rooted

OnBlockReceived(n, h) ==
    IF h \in n.cache \cup n.validated \cup n.submitted
    THEN n
    ELSE TrySwitchAndExecute(
            [n EXCEPT !.tree = Insert(@, h), !.cache = @ \cup {h}], h)

OnBlockFetchFailed(n, p, from, to) ==
    LET failed == {h \in Hash : Slot[from] <= Slot[h] /\ Slot[h] <= Slot[to]}
    IN  EvaluateAndFetch([n EXCEPT !.inFlight = @ \ failed, !.stale = @ \ failed,
                                   !.fetchCooling = @ \cup {p}])

OnPeerRolledBack(n, p, point) ==
    EvaluateAndFetch([n EXCEPT !.chains[p] = RollbackChain(@, point)])

OnPeerDisconnected(n, p) ==
    EvaluateAndFetch([n EXCEPT !.chains[p] = NoChain, !.orphanCooling = @ \ {p}])

RegisterSelfProduced(n, h) ==
    LET cached == [n EXCEPT !.tree = Insert(@, h), !.cache = @ \cup {h}]
    IN  TrySwitchAndExecute(Submit(cached, h), h)

-----------------------------------------------------------------------------

(* The pruning of `on_block_applied`: structure below K blocks from the    *)
(* adopted tip, bodies below BodyWindow blocks from it.                    *)
PruneBehindTip(n) ==
    LET no == NumberOf(n.tree, n.adopted)
        kept == {h \in n.cache : BlockNo[h] >= no - BodyWindow}
        pruned == [n EXCEPT !.tree = IF no > K THEN PruneBelow(@, no - K) ELSE @]
    IN  IF n.adopted \notin n.tree.nodes THEN n
        ELSE IF no <= BodyWindow THEN pruned
        ELSE [pruned EXCEPT !.cache = kept, !.validated = @ \cap kept]

(* Mutant: an applied block stays marked as submitted.                     *)
MutOnBlockApplied(n, h) ==
    IF h \notin n.cache
    THEN n
    ELSE EvaluateAndFetch(TrySwitchToBest(PruneBehindTip(
            Emit([n EXCEPT !.validated = @ \cup {h}, !.lastValidated = h,
                           !.inFlight = @ \ {h}, !.stale = @ \ {h}],
                 InjectBlock(h)))))

OnBlockApplied(n, h) ==
    LET settled == [n EXCEPT !.inFlight = @ \ {h}, !.stale = @ \ {h},
                             !.submitted = @ \ {h}]
        valid == [settled EXCEPT !.validated = @ \cup {h}, !.lastValidated = h]
        published == IF IsBlacklisted(n.tree, h) THEN valid ELSE Emit(valid, InjectBlock(h))
    IN  IF h \notin n.cache
        THEN settled
        ELSE EvaluateAndFetch(TrySwitchToBest(PruneBehindTip(published)))

OnBlockApplyFailed(n, h) ==
    [n EXCEPT !.inFlight = @ \ {h}, !.stale = @ \ {h}, !.submitted = @ \ {h},
              !.queued = n.lastValidated, !.adopted = n.lastValidated,
              !.validated = @ \ {h}]

(* Mutant: the chain store is not told.                                    *)
MutOnBlockRolledBack(n, point) == [n EXCEPT !.lastValidated = point]

OnBlockRolledBack(n, point) ==
    Emit([n EXCEPT !.lastValidated = point], InjectRollback(point))

-----------------------------------------------------------------------------
(* `force_rollback`: the deliberate self-reorg of the DeepReorg behaviour. *)
ForceRollback(n, depth) ==
    LET chain == Ordered(AncestorsOf(n.tree, n.adopted))
        target == chain[Len(chain) - depth]
        no == NumberOf(n.tree, target)
        kept == {h \in n.cache : BlockNo[h] <= no}
    IN  IF n.adopted = None \/ depth = 0 \/ depth >= Len(chain)
        THEN n
        ELSE Emit([n EXCEPT !.adopted = target, !.lastValidated = target,
                            !.queued = target, !.tree = RemoveAbove(@, no),
                            !.cache = kept, !.validated = @ \cap kept,
                            !.submitted = @ \cap kept],
                  InjectRollback(target))

(* `apply_control`: the blacklist is the block `offset` below `tip`.       *)
ApplyControl(n, tip, offset) ==
    LET chain == Ordered(Ancestors(n.tree, tip))
        blacklist == IF tip \in n.tree.nodes /\ offset < Len(chain)
                     THEN {chain[Len(chain) - offset]}
                     ELSE {}
        changed == [n EXCEPT !.tree = UpdateBlacklist(@, blacklist)]
    IN  IF blacklist = n.tree.blacklist
        THEN n
        ELSE TrySwitchToBest(EvaluateAndFetch(changed))

(* `retry_select_chain`, on every slot.                                    *)
BridgeGap(n, gap) ==
    IF /\ n.adopted \in n.tree.nodes
       /\ Slot[gap] > Slot[n.adopted]
       /\ gap \notin n.inFlight
       /\ n.bridge # n.adopted
    THEN Emit([n EXCEPT !.inFlight = @ \cup {gap}, !.bridge = n.adopted],
              FetchBlockRange(n.adopted, gap, FetchPeers(n, gap)))
    ELSE n

(* Mutant: nothing is evaluated again.                                     *)
MutRetrySelectChain(n) == TrySwitchToBest(EvictStaleInFlight(n))

(* Bridge the gap between the adopted chain and the best tip, if any.      *)
BridgeIf(n, decision) == IF decision.kind = "gap" THEN BridgeGap(n, decision.at) ELSE n

Bridged(n) == IF n.tree.best = None THEN n ELSE BridgeIf(n, TrySwitchTo(n, n.tree.best))

RetrySelectChain(n) ==
    LET switched == TrySwitchToBest(EvictStaleInFlight(n))
    IN  Bridged(IF n.inFlight # {} THEN EvaluateAndFetch(switched) ELSE switched)
=============================================================================
