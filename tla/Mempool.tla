------------------------------ MODULE Mempool -------------------------------
(***************************************************************************)
(* `MempoolState` (consensus/src/mempool.rs) and the producer's choice of  *)
(* a block body, `BodyPath` (consensus/src/production.rs): the pool of     *)
(* free transactions, what is owed to each peer, the manifests of endorser *)
(* blocks (EBs) and the transaction bodies that are pinned for them.       *)
(* A transaction is its id; what only tests use, `pending_validation` and  *)
(* `drain_all`, and the statistics are left out.                           *)
(***************************************************************************)
EXTENDS Integers, Sequences, FiniteSets, Functions

CONSTANTS
    Tx,             \* the ids of the transactions, ordered as in a BTreeSet
    Size,           \* Size[t]: the bytes of t
    Peer,           \* the connected peers
    RemoteEB,       \* the EBs of others
    OwnEB,          \* the EBs that this node may forge
    EbSlot,         \* EbSlot[e]: the slot of e's key
    Content,        \* Content[e]: the transactions of the remote EB e
    Capacity,       \* `capacity`
    RetentionSlots, \* `eb_retention_slots`
    AppliedBound,   \* the length of the replay filter (65,536 in the code)
    RbMax,          \* `rb_body_max_bytes` and
    EbMax,          \*   `eb_body_max_bytes`
    None,           \* no EB
    Batches,        \* the counts that a peer asks for at once
    MaxSlot         \* bound on the slots

EB == RemoteEB \cup OwnEB

ASSUME TxAssumption == Tx \subseteq Nat /\ Size \in [Tx -> Nat]

ASSUME EbAssumption ==
    /\ None \notin EB
    /\ RemoteEB \cap OwnEB = {}
    /\ EbSlot \in [EB -> Nat]
    /\ Content \in [RemoteEB -> SUBSET Tx]

ASSUME LimitAssumption ==
    /\ RetentionSlots \in Nat
    /\ Capacity \in Nat
    /\ AppliedBound \in Nat
    /\ MaxSlot \in Nat

VARIABLES
    slot,           \* the current slot
    txs,            \* the free pool, in order of arrival
    txIndex,        \* `tx_index`
    totalBytes,     \* `total_bytes`
    applied,        \* `applied_order`; `applied` is its set of elements
    registered,     \* the keys of `peer_unannounced`
    unannounced,    \* `peer_unannounced`
    advertised,     \* `peer_advertised`, {} for a peer without an entry
    manifests,      \* `eb_manifests`
    pinned,         \* the keys of `eb_pinned`
    maxEbSlot,      \* `max_eb_slot`
    protected,      \* `protected_chain_tip_eb`
    sent,           \* sent[p]: what p was sent since it connected and since
                    \*   the transaction was last admitted (history)
    decided         \* the manifests that `BodyPath` chose (history)

poolVars == <<txs, txIndex, totalBytes>>
peerVars == <<registered, unannounced, advertised>>
ebVars == <<manifests, pinned, maxEbSlot, protected>>
vars == <<slot, poolVars, applied, peerVars, ebVars, sent, decided>>

Empty == [x \in {} |-> {}]

Init ==
    /\ slot = 0
    /\ txs = <<>>
    /\ txIndex = {}
    /\ totalBytes = 0
    /\ applied = <<>>
    /\ registered = {}
    /\ unannounced = [p \in Peer |-> {}]
    /\ advertised = [p \in Peer |-> {}]
    /\ manifests = Empty
    /\ pinned = {}
    /\ maxEbSlot = 0
    /\ protected = None
    /\ sent = [p \in Peer |-> {}]
    /\ decided = Empty

Tick ==
    /\ slot < MaxSlot
    /\ slot' = slot + 1
    /\ UNCHANGED <<poolVars, applied, peerVars, ebVars, sent, decided>>

Bytes(s) == LET sum[i \in 0..Len(s)] == IF i = 0 THEN 0 ELSE sum[i - 1] + Size[s[i]]
            IN  sum[Len(s)]

(* What is left of s: SelectSeq, as the places that are kept.              *)
Without(s, S) ==
    LET kept == {i \in DOMAIN s : s[i] \notin S}
    IN  [n \in 1..Cardinality(kept) |->
            s[CHOOSE i \in kept : Cardinality({j \in kept : j <= i}) = n]]

(* `prune_from_peer_sets`, for every member of S.                          *)
PruneFromPeerSets(S) ==
    /\ advertised' = [p \in Peer |-> advertised[p] \ S]
    /\ unannounced' = [p \in Peer |-> unannounced[p] \ S]

-----------------------------------------------------------------------------
(* Admission and blocks.                                                   *)

(* The oldest transaction, when the pool is full.                          *)
Evicted == IF Len(txs) >= Capacity /\ txs # <<>> THEN {Head(txs)} ELSE {}

(* `admit_internal` evicts the transactions in `old` and adds t.           *)
AdmitInternal(t, old) ==
    /\ txs' = Append(IF old = {} THEN txs ELSE Tail(txs), t)
    /\ txIndex' = (txIndex \ old) \cup {t}
    /\ totalBytes' = totalBytes - (IF old = {} THEN 0 ELSE Size[Head(txs)]) + Size[t]
    /\ advertised' = [p \in Peer |-> advertised[p] \ old]
    /\ unannounced' = [p \in Peer |->
            (unannounced[p] \ old) \cup (IF p \in registered THEN {t} ELSE {})]

(* `admit_validated`; a known or an applied transaction is rejected.       *)
AdmitValidated(t) ==
    /\ t \notin txIndex
    /\ t \notin Range(applied)
    /\ AdmitInternal(t, Evicted)
    /\ sent' = [p \in Peer |-> sent[p] \ {t}]
    /\ UNCHANGED <<slot, applied, registered, ebVars, decided>>

(* One insertion into the replay filter.                                   *)
NoteApplied(order, t) ==
    IF t \in Range(order) THEN order
    ELSE IF Len(order) >= AppliedBound THEN Tail(Append(order, t))
    ELSE Append(order, t)

NoteAllApplied(order, included) ==
    LET noted[i \in 0..Len(included)] ==
            IF i = 0 THEN order ELSE NoteApplied(noted[i - 1], included[i])
    IN  noted[Len(included)]

(* `on_block_applied`; nothing happens for an empty block.                 *)
OnBlockApplied(included) ==
    /\ applied' = NoteAllApplied(applied, included)
    /\ IF Range(txs) \cap Range(included) = {}
       THEN UNCHANGED <<poolVars, advertised, unannounced>>
       ELSE /\ txs' = Without(txs, Range(included))
            /\ txIndex' = txIndex \ Range(included)
            /\ totalBytes' = Bytes(Without(txs, Range(included)))
            /\ PruneFromPeerSets(Range(included))
    /\ UNCHANGED <<slot, registered, ebVars, sent, decided>>

-----------------------------------------------------------------------------
(* The peers.                                                              *)

(* Mutant: a new peer is owed only what comes after it.                    *)
MutOwed(p) == IF p \in registered THEN unannounced[p] ELSE {}

(* What is owed to p once `ensure_peer_registered` has run.                *)
Owed(p) == IF p \in registered THEN unannounced[p] ELSE txIndex

(* The first n members of S, in the order of the ids.                      *)
FirstOf(S, n) == {t \in S : Cardinality({u \in S : u < t}) < n}

(* The transactions of S move from the owed to the advertised ones.        *)
Advertise(p, S) ==
    /\ registered' = registered \cup {p}
    /\ unannounced' = [unannounced EXCEPT ![p] = Owed(p) \ S]
    /\ advertised' = [advertised EXCEPT ![p] = @ \cup S]

(* `peek_unannounced_for_peer`.  The filter of `filter_transaction` holds  *)
(* back whatever the control signal withholds at this moment.  A chosen    *)
(* transaction without a body is not sent.                                 *)
PeekUnannouncedForPeer(p, n, withheld) ==
    LET toSend == FirstOf(Owed(p) \ withheld, n)
    IN  /\ Advertise(p, toSend)
        /\ sent' = [sent EXCEPT ![p] = @ \cup (toSend \cap (Range(txs) \cup pinned))]
        /\ UNCHANGED <<slot, poolVars, applied, ebVars, decided>>

(* `mark_announced_to_peer`; the caller sends the body if it was owed and  *)
(* passes the filter.                                                      *)
MarkAnnouncedToPeer(p, t, passes) ==
    LET toSend == IF passes THEN Owed(p) \cap {t} ELSE {}
    IN  /\ Advertise(p, toSend)
        /\ sent' = [sent EXCEPT ![p] = @ \cup toSend]
        /\ UNCHANGED <<slot, poolVars, applied, ebVars, decided>>

ForgetPeer(p) ==
    /\ p \in registered
    /\ registered' = registered \ {p}
    /\ unannounced' = [unannounced EXCEPT ![p] = {}]
    /\ advertised' = [advertised EXCEPT ![p] = {}]
    /\ sent' = [sent EXCEPT ![p] = {}]
    /\ UNCHANGED <<slot, poolVars, applied, ebVars, decided>>

-----------------------------------------------------------------------------
(* Endorser blocks.                                                        *)

Put(f, e, m) == [x \in DOMAIN f \cup {e} |-> IF x = e THEN m ELSE f[x]]
OrInsert(f, e, m) == IF e \in DOMAIN f THEN f ELSE Put(f, e, m)
MaxOf(m, n) == IF m >= n THEN m ELSE n
Cutoff(max) == IF max >= RetentionSlots THEN max - RetentionSlots ELSE 0

(* Mutant: the EB of the chain tip ages like any other.                    *)
MutRetained(ms, max, tipEb) ==
    IF Cutoff(max) = 0 THEN ms
    ELSE [e \in {x \in DOMAIN ms : EbSlot[x] >= Cutoff(max)} |-> ms[e]]

(* The manifests that `prune_eb_slot_window` keeps.                        *)
Retained(ms, max, tipEb) ==
    IF Cutoff(max) = 0 THEN ms
    ELSE [e \in {x \in DOMAIN ms : EbSlot[x] >= Cutoff(max) \/ x = tipEb} |-> ms[e]]

(* The bodies that it keeps.                                               *)
Referenced(pins, ms, max) ==
    IF Cutoff(max) = 0 THEN pins
    ELSE pins \cap UNION {ms[e] : e \in DOMAIN ms}

(* `prune_eb_slot_window`.                                                 *)
PruneEbSlotWindow(ms, pins, max, tipEb) ==
    /\ manifests' = Retained(ms, max, tipEb)
    /\ pinned' = Referenced(pins, Retained(ms, max, tipEb), max)
    /\ maxEbSlot' = max
    /\ protected' = tipEb

ProtectChainTipEb(eb) ==
    /\ PruneEbSlotWindow(manifests, pinned, maxEbSlot, eb)
    /\ UNCHANGED <<slot, poolVars, applied, peerVars, sent, decided>>

(* `record_eb_manifest`, of an EB that was fetched: the first one stays.   *)
RecordEbManifest(eb) ==
    /\ EbSlot[eb] <= slot
    /\ PruneEbSlotWindow(OrInsert(manifests, eb, Content[eb]), pinned,
                         MaxOf(maxEbSlot, EbSlot[eb]), protected)
    /\ UNCHANGED <<slot, poolVars, applied, peerVars, sent, decided>>

PinEbTransactions(eb) ==
    /\ pinned' = pinned \cup (Content[eb] \cap Range(txs))
    /\ UNCHANGED <<slot, poolVars, applied, peerVars, manifests, maxEbSlot, protected,
                   sent, decided>>

(* `merge_eb_body`, of a body that some manifest asks for.                 *)
MergeEbBody(t) ==
    /\ \E e \in DOMAIN manifests : t \in manifests[e]
    /\ t \notin txIndex \cup pinned
    /\ pinned' = pinned \cup {t}
    /\ UNCHANGED <<slot, poolVars, applied, peerVars, manifests, maxEbSlot, protected,
                   sent, decided>>

-----------------------------------------------------------------------------
(* Forging.                                                                *)

(* How many transactions from the front of s go into `max` bytes: at least *)
(* one, then as long as they fit.  `drain_up_to` and the manifest of       *)
(* `decide_excluding` follow the same rule.                                *)
Fit(s, max) ==
    Cardinality({k \in 1..Len(s) :
        \/ k = 1
        \/ Bytes(SubSeq(s, 1, k)) <= max /\ Bytes(SubSeq(s, 1, k - 1)) < max})

First(s, n) == SubSeq(s, 1, n)
From(s, n) == SubSeq(s, n + 1, Len(s))

(* The transactions for the body of the ranking block.                     *)
InlineCount(cert) ==
    IF cert \/ (RbMax = 0 /\ Bytes(txs) > 0) THEN 0 ELSE Fit(txs, RbMax)

(* The manifest that is chosen from the rest.                              *)
ManifestOf(candidates, rest) ==
    IF Bytes(candidates) > RbMax THEN First(rest, Fit(rest, EbMax)) ELSE <<>>

(* The transactions of S have left the pool, of which `rest` is left.      *)
Drained(rest, S) ==
    /\ txs' = rest
    /\ txIndex' = txIndex \ S
    /\ totalBytes' = totalBytes - (Bytes(txs) - Bytes(rest))
    /\ PruneFromPeerSets(S)

(* Mutant: the drained prefix is one shorter than the manifest.            *)
MutProduceEb(eb, pool, n) ==
    /\ Drained(From(pool, n - 1), Range(txs) \ Range(From(pool, n - 1)))
    /\ PruneEbSlotWindow(Put(manifests, eb, Range(First(pool, n - 1))),
                         pinned \cup Range(First(pool, n - 1)),
                         MaxOf(maxEbSlot, EbSlot[eb]), protected)

(* `produce_eb`: the first n transactions of what is left in the pool      *)
(* become the closure of eb.                                               *)
ProduceEb(eb, pool, n) ==
    /\ Drained(From(pool, n), Range(txs) \ Range(From(pool, n)))
    /\ PruneEbSlotWindow(Put(manifests, eb, Range(First(pool, n))),
                         pinned \cup Range(First(pool, n)),
                         MaxOf(maxEbSlot, EbSlot[eb]), protected)

(* `BodyPath::decide` and `produce_eb`, as `try_produce_rb` calls them.    *)
ForgeBody(eb, pool, manifest) ==
    IF manifest = <<>>
    THEN /\ Drained(pool, Range(txs) \ Range(pool))
         /\ UNCHANGED <<ebVars, decided>>
    ELSE /\ ProduceEb(eb, pool, Len(manifest))
         /\ decided' = Put(decided, eb, Range(manifest))

ForgeRb(eb, cert) ==
    /\ EbSlot[eb] = slot
    /\ eb \notin DOMAIN decided
    /\ ForgeBody(eb, From(txs, InlineCount(cert)), ManifestOf(txs, From(txs, InlineCount(cert))))
    /\ UNCHANGED <<slot, applied, registered, sent>>

(* `produce_selected_eb`.                                                  *)
ProduceSelectedEb(eb, manifest) ==
    /\ txs' = Without(txs, Range(manifest))
    /\ txIndex' = txIndex \ Range(manifest)
    /\ totalBytes' = Bytes(Without(txs, Range(manifest)))
    /\ PruneFromPeerSets(Range(manifest))
    /\ PruneEbSlotWindow(OrInsert(manifests, eb, Range(manifest)),
                         pinned \cup Range(manifest),
                         MaxOf(maxEbSlot, EbSlot[eb]), protected)
    /\ decided' = Put(decided, eb, Range(manifest))

(* `decide_excluding` with a certificate, and `produce_selected_eb`.       *)
(* `excluded` are the transactions of the certified EB.                    *)
ForgeExcluding(eb, excluded) ==
    LET candidates == Without(txs, excluded)
    IN  /\ EbSlot[eb] = slot
        /\ eb \notin DOMAIN decided
        /\ ManifestOf(candidates, candidates) # <<>>
        /\ ProduceSelectedEb(eb, ManifestOf(candidates, candidates))
        /\ UNCHANGED <<slot, applied, registered, sent>>

-----------------------------------------------------------------------------
(* The blocks that are applied.                                            *)
Included == {<<t>> : t \in Tx} \cup {s \in Tx \X Tx : s[1] # s[2]}

Next ==
    \/ Tick
    \/ \E t \in Tx : AdmitValidated(t) \/ MergeEbBody(t)
    \/ \E included \in Included : OnBlockApplied(included)
    \/ \E p \in Peer :
        \/ ForgetPeer(p)
        \/ \E n \in Batches, withheld \in SUBSET Tx : PeekUnannouncedForPeer(p, n, withheld)
        \/ \E t \in Tx, passes \in BOOLEAN : MarkAnnouncedToPeer(p, t, passes)
    \/ \E eb \in RemoteEB : RecordEbManifest(eb) \/ PinEbTransactions(eb)
    \/ \E eb \in EB \cup {None} : ProtectChainTipEb(eb)
    \/ \E eb \in OwnEB :
        \/ \E cert \in BOOLEAN : ForgeRb(eb, cert)
        \/ \E e \in DOMAIN manifests : ForgeExcluding(eb, manifests[e])

Spec == Init /\ [][Next]_vars

-----------------------------------------------------------------------------
(* The fields of MempoolState keep their types, and the replay filter its  *)
(* bound, through every call.                                              *)
TypeOK ==
    /\ slot \in 0..MaxSlot
    /\ txs \in Seq(Tx)
    /\ txIndex \subseteq Tx
    /\ totalBytes \in Nat
    /\ applied \in Seq(Tx) /\ Len(applied) <= AppliedBound
    /\ registered \subseteq Peer
    /\ unannounced \in [Peer -> SUBSET Tx]
    /\ advertised \in [Peer -> SUBSET Tx]
    /\ manifests \in UNION {[D -> SUBSET Tx] : D \in SUBSET EB}
    /\ pinned \subseteq Tx
    /\ maxEbSlot \in Nat
    /\ protected \in EB \cup {None}
    /\ sent \in [Peer -> SUBSET Tx]
    /\ decided \in UNION {[D -> SUBSET Tx] : D \in SUBSET OwnEB}

(* The queue, its index and its byte count agree after every mix of        *)
(* admissions, evictions, applied blocks and drains, and the queue is no   *)
(* longer than its capacity (a capacity of 0 still admits one).            *)
PoolConsistent ==
    /\ txIndex = Range(txs)
    /\ IsInjective(txs)
    /\ totalBytes = Bytes(txs)
    /\ Len(txs) <= MaxOf(Capacity, 1)

(* What a registered peer was told and what it is owed partition the pool  *)
(* (mempool.rs, lines 255 to 261), so neither set grows with history.      *)
PeersPartition ==
    \A p \in Peer :
        /\ advertised[p] \cap unannounced[p] = {}
        /\ IF p \in registered
           THEN advertised[p] \cup unannounced[p] = txIndex
           ELSE advertised[p] \cup unannounced[p] = {}

(* A registered peer is owed exactly the transactions of the pool that it  *)
(* has not been sent since they were admitted: none is announced to it     *)
(* twice (mempool.rs, lines 250 to 252), and none is lost, through peeks,  *)
(* marks, withholding, evictions and reconnections.                        *)
OwedExactly == \A p \in registered : unannounced[p] = txIndex \ sent[p]

(* A transaction of an applied block that the replay filter remembers is   *)
(* not in the pool again.                                                  *)
AppliedNotInPool == Range(applied) \cap txIndex = {}

(* The books of the pool and of its peers are in order.                    *)
PoolSound == PoolConsistent /\ AppliedNotInPool /\ PeersPartition /\ OwedExactly

(* The manifest of an own EB is the one that `BodyPath` chose, and as long *)
(* as it is kept each of its bodies can be served.                         *)
OwnEbServable ==
    \A e \in DOMAIN decided \cap DOMAIN manifests :
        /\ manifests[e] = decided[e]
        /\ decided[e] \subseteq pinned

(* The chain tip's EB and every EB within the retention window keep their  *)
(* manifest and the bodies pinned for it, whatever else is recorded,       *)
(* forged, applied or pruned.                                              *)
ClosureKept ==
    [][\A e \in DOMAIN manifests :
        e = protected' \/ EbSlot[e] >= Cutoff(maxEbSlot') =>
            /\ e \in DOMAIN manifests'
            /\ manifests'[e] = manifests[e]
            /\ manifests[e] \cap pinned \subseteq pinned']_vars
=============================================================================
