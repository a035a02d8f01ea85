---------------------------- MODULE LinearLeios ----------------------------
(***************************************************************************)
(* The Linear Leios nodes of the simulator (sim-core: sim/linear_leios.rs  *)
(* over the messages of sim/linear_wire.rs), as handlers of SimNode.  The  *)
(* lottery is the constant Wins, as with the mock lottery of the tests.    *)
(* The EB that a ranking block announces has its identity.  Nobody         *)
(* withholds blocks or transactions.                                       *)
(***************************************************************************)
EXTENDS SimNode

CONSTANTS InputOf(_),     \* the input a transaction spends
          MaxPool,        \* max_size_bytes of the mempool
          MaxPeerBacklog, \* tx_peer_backlog_max_size
          Wins,           \* <<slot, node>>: who wins the RB lottery when
          Vrf(_),         \* the VRF value of a block
          Weight(_),      \* the votes a node has (0: not of the committee)
          Threshold,      \* vote_threshold
          HeaderDeadline, Gate, Deadline, Inclusion, \* the VotingWindow, in slots
          MaxBlock, MaxEb,
          TxMaxAge,       \* linear_tx_max_age_slots
          MaxLocalBacklog,
          Inline,         \* variant Linear (else LinearWithTxReferences)
          Criteria,       \* linear_eb_propagation_criteria
          Transport       \* vote_transport: "announce", "push", "push late"

-----------------------------------------------------------------------------
(* The mempool (struct Mempool): the pool in insertion order, one backlog  *)
(* for our own transactions and one for those of peers, and two indices,   *)
(* the inputs the pool spends and the ids pool and backlogs hold.  A       *)
(* transaction takes one unit of room and spends one input.                *)
EmptyPool == [pool |-> <<>>, local |-> <<>>, peer |-> <<>>, input_ids |-> {}, tx_ids |-> {}]

is_peer_backlog_full(p) == Len(p.peer) >= MaxPeerBacklog

(* The outcome, and the mempool after it.                                  *)
try_insert(p, t, is_local) ==
    LET known == [p EXCEPT !.tx_ids = @ \cup {t}]
    IN  IF p.pool # <<>> /\ Len(p.pool) + 1 > MaxPool
        THEN IF is_local THEN [result |-> "Backlogged", p |-> [known EXCEPT !.local = Append(@, t)]]
             ELSE IF is_peer_backlog_full(p) THEN [result |-> "PeerBacklogFull", p |-> p]
             ELSE [result |-> "Backlogged", p |-> [known EXCEPT !.peer = Append(@, t)]]
        ELSE IF InputOf(t) \in p.input_ids THEN [result |-> "Backlogged", p |-> p]
        ELSE [result |-> "AddedToMempool",
              p |-> [known EXCEPT !.input_ids = @ \cup {InputOf(t)}, !.pool = Append(@, t)]]

(* What retain does to the pool: the indices follow what leaves.           *)
Without(p, gone) ==
    LET left == ToSet(p.pool) \cap gone
    IN  [p EXCEPT !.pool = SelectSeq(@, LAMBDA t : t \notin gone),
                  !.input_ids = @ \ {InputOf(t) : t \in left},
                  !.tx_ids = @ \ left]
remove_txs(p, ids) == Without(p, ids)

Conflicting(p, inputs) ==
    {t \in ToSet(p.pool) \cup ToSet(p.local) \cup ToSet(p.peer) : InputOf(t) \in inputs}
remove_conflicting_txs(p, inputs) ==
    LET gone == Conflicting(p, inputs)
    IN  [Without(p, gone) EXCEPT !.local = SelectSeq(@, LAMBDA t : t \notin gone),
                                 !.peer = SelectSeq(@, LAMBDA t : t \notin gone),
                                 !.tx_ids = @ \ gone]

(* The backlog from its front: what conflicts is dropped, the first that   *)
(* does not fit stops the promotion.                                       *)
Promote(acc, t) ==
    IF acc.full THEN [acc EXCEPT !.rest = Append(@, t)]
    ELSE IF InputOf(t) \in acc.p.input_ids THEN [acc EXCEPT !.p.tx_ids = @ \ {t}]
    ELSE IF Len(acc.p.pool) + 1 > MaxPool THEN [acc EXCEPT !.full = TRUE, !.rest = Append(@, t)]
    ELSE [acc EXCEPT !.p.pool = Append(@, t), !.p.input_ids = @ \cup {InputOf(t)}, !.new = Append(@, t)]
promote_backlog(p, backlog) ==
    IF backlog = <<>> THEN [p |-> p, full |-> FALSE, rest |-> <<>>, new |-> <<>>]
    ELSE FoldLeft(Promote, [p |-> p, full |-> FALSE, rest |-> <<>>, new |-> <<>>], backlog)

(* Our own backlog first; the mempool and the transactions promoted.       *)
PromotePeers(own, backlog) ==
    LET Done(both) == [p |-> [both.p EXCEPT !.peer = both.rest], new |-> own.new \o both.new]
    IN  Done(promote_backlog([own.p EXCEPT !.local = own.rest], backlog))
promote_from_backlogs(p) == PromotePeers(promote_backlog(p, p.local), p.peer)

-----------------------------------------------------------------------------
new == [mp |-> EmptyPool, txs |-> <<>>, slot |-> 0,
        ledger |-> [at |-> None, spent |-> {}, seen |-> {}],
        heads |-> <<>>, blocks |-> <<>>, by_slot |-> <<>>,
        ebs |-> <<>>, ebs_by_rb |-> {}, announcements |-> <<>>,
        votes |-> <<>>, votes_by_eb |-> <<>>, quorum |-> {}, endorsed |-> <<>>,
        incomplete |-> {}, missing |-> <<>>, pruned |-> {},
        reported |-> <<>>,  \* how often track_eb_quorum_reached was called
        out |-> Quiet, todo |-> {}, later |-> {}]

Init == Start(new) /\ minted = <<>>

announce_txs(s, n, txs) ==
    IF txs = <<>> THEN s ELSE FoldLeft(LAMBDA a, t : send_all(a, Consumers(n), TxMsg("AnnounceTx", t)), s, txs)

-----------------------------------------------------------------------------
(* Blocks, the chain and the ledger.                                       *)
Txs(eb) == minted[eb].eb
Announces(rb) == minted[rb].eb # <<>>
HasBody(s, rb) == rb \in DOMAIN s.blocks /\ s.blocks[rb].view = "Received"
HasHeader(s, rb) == rb \in DOMAIN s.blocks /\ s.blocks[rb].view # "HeaderPending"
HasEb(s, eb) == eb \in DOMAIN s.ebs /\ s.ebs[eb].view = "Received"
is_eb_validated(s, eb) == HasEb(s, eb) /\ s.ebs[eb].validated
has_tx(s, t) == t \in DOMAIN s.txs /\ s.txs[t].received
Wanted(view) == [view |-> view, seen |-> 0, all_txs_seen |-> FALSE, validated |-> FALSE]

latest_rb_id(s) == Latest({rb \in DOMAIN s.blocks : HasBody(s, rb)})

(* The walk from rb over the bodies held and not seen before: a block seen *)
(* once is never looked at again.                                          *)
RECURSIVE Resolved(_, _, _)
Resolved(s, ledger, rb) ==
    LET marked == [ledger EXCEPT !.seen = @ \cup {rb}]
        e == minted[rb].endorsement
        spent == {InputOf(t) : t \in ToSet(minted[rb].txs)} \cup
                 IF e # None /\ HasEb(s, e) THEN {InputOf(t) : t \in {u \in ToSet(Txs(e)) : has_tx(s, u)}} ELSE {}
    IN  IF rb = None \/ rb \in ledger.seen THEN ledger
        ELSE IF ~HasBody(s, rb) THEN marked
        ELSE Resolved(s, [marked EXCEPT !.spent = @ \cup spent], minted[rb].parent)
resolve_ledger_state(s, rb) ==
    IF rb = None \/ s.ledger.at = rb THEN s
    ELSE [s EXCEPT !.ledger = [Resolved(s, @, rb) EXCEPT !.at = rb]]

try_add_tx_to_mempool(s, t, is_local) ==
    LET Add(known) ==
            LET Added(r) == [result |-> r.result, s |-> [known EXCEPT !.mp = r.p]]
            IN  IF InputOf(t) \in known.ledger.spent THEN [result |-> "Backlogged", s |-> known]
                ELSE Added(try_insert(known.mp, t, is_local))
    IN  Add(resolve_ledger_state(s, latest_rb_id(s)))

Promoted(s, n) ==
    LET Told(r) == announce_txs([s EXCEPT !.mp = r.p], n, r.new) IN Told(promote_from_backlogs(s.mp))
(* As many as fit, in the order of the pool (not the Random strategy).     *)
Sample(s, max) == SubSeq(s.mp.pool, 1, Min({max, Len(s.mp.pool)}))
sample_from_mempool(s, n, max, remove) ==
    Promoted(IF remove THEN [s EXCEPT !.mp = remove_txs(@, ToSet(Sample(s, max)))] ELSE s, n)
remove_txs_from_mempool(s, n, txs) ==
    Promoted([s EXCEPT !.mp = remove_conflicting_txs(@, {InputOf(t) : t \in txs})], n)
remove_rb_txs_from_mempool(s, n, rb) ==
    LET e == minted[rb].endorsement
    IN  remove_txs_from_mempool(s, n, ToSet(minted[rb].txs) \cup
                                      IF e # None /\ HasEb(s, e) THEN ToSet(Txs(e)) ELSE {})

-----------------------------------------------------------------------------
(* Voting.                                                                 *)
Bundle(e, n) == [id |-> <<e[1], n>>, eb |-> e]
Tally(s, e) == SumFunction(Get(s.votes_by_eb, e, <<>>))

should_vote_for(s, e, seen) ==
    LET rb == latest_rb_id(s)
    IN  /\ seen <= e[1] + Deadline /\ now <= e[1] + Deadline
        /\ rb = e                             \* only the EB the head of our chain announces
        /\ s.blocks[rb].seen < e[1] + HeaderDeadline
        /\ Inline \/ \A t \in ToSet(Txs(e)) : has_tx(s, t)
vote_for_endorser_block(s, n, e, seen) ==
    IF now < e[1] + Gate THEN schedule_event(s, [at |-> e[1] + Gate, eb |-> e, seen |-> seen])
    ELSE IF Weight(n) = 0 \/ ~should_vote_for(s, e, seen) THEN s
    ELSE schedule_cpu_task(s, [t |-> "VTBundleGenerated", votes |-> Bundle(e, n)])

vote_bundle_is_obsolete(s, v) == v.eb \in s.pruned

count_votes(s, v) ==
    LET e == v.eb
        by == Get(s.votes_by_eb, e, <<>>)
        counted == [s EXCEPT !.votes_by_eb = SetAt(@, e, SetAt(by, v.id[2], Get(by, v.id[2], 0) + Weight(v.id[2])))]
    IN  IF e \in s.pruned THEN s
        ELSE IF Tally(counted, e) >= Threshold /\ e \notin s.quorum
        THEN [counted EXCEPT !.quorum = @ \cup {e}, !.reported = SetAt(@, e, Get(@, e, 0) + 1)]
        ELSE counted

(* To every consumer but the one it came from: the body when votes are     *)
(* pushed, else its identifier.                                            *)
diffuse_vote_bundle(s, n, v, from) ==
    send_all(s, Consumers(n) \ {from},
             IF Transport = "announce" THEN VoteMsg("AnnounceVotes", v.id) ELSE [t |-> "Votes", votes |-> v])

Held(s, id) == id \in DOMAIN s.votes /\ s.votes[id].view = "Received"
finish_generating_vote_bundle(s, n, v) ==
    LET held == [count_votes(s, v) EXCEPT !.votes = SetAt(@, v.id, [view |-> "Received", votes |-> v])]
    IN  IF now > v.eb[1] + Deadline THEN s ELSE diffuse_vote_bundle(held, n, v, n)
receive_announce_votes(s, from, id) ==
    IF id \notin DOMAIN s.votes \/ (FromAll /\ ~Held(s, id))
    THEN send_to([s EXCEPT !.votes = SetAt(@, id, [view |-> "Requested"])], from, VoteMsg("RequestVotes", id))
    ELSE s
receive_request_votes(s, from, id) ==
    IF Held(s, id) THEN send_to(s, from, [t |-> "Votes", votes |-> s.votes[id].votes]) ELSE s
receive_votes(s, from, v) ==
    LET already_have == /\ Transport # "announce"
                        /\ v.id \in DOMAIN s.votes
                        /\ Held(s, v.id) \/ Transport = "push"
        marked == IF Transport = "push" /\ v.id \notin DOMAIN s.votes
                  THEN [s EXCEPT !.votes = SetAt(@, v.id, [view |-> "Requested"])] ELSE s
    IN  IF already_have THEN s
        ELSE schedule_cpu_task(marked, [t |-> "VTBundleValidated", from |-> from, votes |-> v])
finish_validating_vote_bundle(s, n, from, v) ==
    LET held == [s EXCEPT !.votes = SetAt(@, v.id, [view |-> "Received", votes |-> v])]
    IN  IF Held(s, v.id) THEN held
        ELSE diffuse_vote_bundle(IF vote_bundle_is_obsolete(s, v) THEN held ELSE count_votes(held, v), n, v, from)

-----------------------------------------------------------------------------
(* Endorser blocks.                                                        *)
EbReceived(s, e, all, validated) ==
    [s EXCEPT !.ebs = SetAt(@, e, [view |-> "Received", seen |-> now, all_txs_seen |-> all, validated |-> validated])]

finish_generating_eb(s, n, e) ==
    vote_for_endorser_block(send_all(EbReceived(s, e, TRUE, TRUE), Consumers(n), EbMsg("AnnounceEB", e)), n, e, now)

Requestable(s, e) == /\ e \in DOMAIN s.ebs
                     /\ s.ebs[e].view = "Pending" \/ (FromAll /\ s.ebs[e].view = "Requested")
receive_announce_eb(s, from, e) ==
    LET known == [s EXCEPT !.announcements = SetAt(@, e, Append(Get(@, e, <<>>), from))]
    IN  IF Requestable(s, e)
        THEN send_to([known EXCEPT !.ebs = SetAt(@, e, Wanted("Requested"))], from, EbMsg("RequestEB", e))
        ELSE known
receive_request_eb(s, from, e) == IF HasEb(s, e) THEN send_to(s, from, EbMsg("EB", e)) ELSE s
receive_eb(s, from, e) == schedule_cpu_task(s, [t |-> "EBHeaderValidated", from |-> from, eb |-> e])

MutMissingTxs(s, e) ==  (* Mutant: a transaction requested counts as held. *)
    IF Inline THEN {} ELSE {t \in ToSet(Txs(e)) : t \notin DOMAIN s.txs}
missing_txs(s, e) == IF Inline THEN {} ELSE {t \in ToSet(Txs(e)) : ~has_tx(s, t)}

(* The EB without its transactions waits for them and asks its sender; what *)
(* we have and did not announce when we got it is announced now.           *)
finish_validating_eb_header(s, n, from, e) ==
    LET lacking == missing_txs(s, e)
        stored == EbReceived(s, e, lacking = {}, FALSE)
        told == IF Criteria = "EbReceived" \/ (Criteria = "TxsReceived" /\ lacking = {})
                THEN send_all(stored, Consumers(n) \ {from}, EbMsg("AnnounceEB", e)) ELSE stored
        waiting == IF lacking = {}
                   THEN schedule_cpu_task(told, [t |-> "EBBlockValidated", eb |-> e, seen |-> now])
                   ELSE send_to([told EXCEPT !.missing = [t \in DOMAIN @ \cup lacking |->
                                                            Get(@, t, {}) \cup IF t \in lacking THEN {e} ELSE {}]],
                                from, [t |-> "RequestEBTxs", eb |-> e, txs |-> lacking])
    IN  IF HasEb(s, e) THEN s
        ELSE IF Inline THEN waiting
        ELSE announce_txs(waiting, n, SelectSeq(Txs(e), LAMBDA t : has_tx(s, t) /\ t \notin ToSet(s.mp.pool)))

receive_request_eb_txs(s, from, e, wanted) ==
    IF HasEb(s, e) /\ wanted # {} THEN send_to(s, from, [t |-> "EBTxs", eb |-> e, txs |-> wanted]) ELSE s

try_validating_eb(s, n, e) ==
    LET told == IF Criteria = "TxsReceived" THEN send_all(s, Consumers(n), EbMsg("AnnounceEB", e)) ELSE s
    IN  IF HasEb(s, e) /\ ~s.ebs[e].all_txs_seen /\ ~s.ebs[e].validated /\ \A t \in ToSet(Txs(e)) : has_tx(s, t)
        THEN schedule_cpu_task([told EXCEPT !.ebs[e].all_txs_seen = TRUE],
                               [t |-> "EBBlockValidated", eb |-> e, seen |-> s.ebs[e].seen])
        ELSE s

finish_validating_eb(s, n, e, seen) ==
    LET cleaned == IF e \in s.incomplete
                   THEN remove_txs_from_mempool([s EXCEPT !.incomplete = @ \ {e}], n, ToSet(Txs(e))) ELSE s
        valid == [cleaned EXCEPT !.ebs[e].validated = TRUE]
        told == IF Criteria = "FullyValid" THEN send_all(valid, Consumers(n), EbMsg("AnnounceEB", e)) ELSE valid
    IN  IF HasEb(s, e) THEN vote_for_endorser_block(told, n, e, seen) ELSE cleaned

-----------------------------------------------------------------------------
(* Transactions.                                                           *)
receive_announce_tx(s, from, t) ==
    IF t \notin DOMAIN s.txs \/ (FromAll /\ ~has_tx(s, t))
    THEN send_to([s EXCEPT !.txs = SetAt(@, t, [received |-> FALSE, seen |-> s.slot])], from, TxMsg("RequestTx", t))
    ELSE s
receive_request_tx(s, from, t) == IF has_tx(s, t) THEN send_to(s, from, TxMsg("Tx", t)) ELSE s
Validate(s, from, t) == schedule_cpu_task(s, [t |-> "TransactionValidated", from |-> from, tx |-> t])
receive_tx(s, from, t) == Validate(s, from, t)
receive_eb_txs(s, from, txs) ==
    LET new_txs == {t \in txs : ~has_tx(s, t)}
    IN  IF new_txs = {} THEN s ELSE FoldSet(LAMBDA t, a : Validate(a, from, t), s, new_txs)

acknowledge_tx(s, n, t) ==
    IF t \notin DOMAIN s.missing THEN s
    ELSE FoldSet(LAMBDA e, a : try_validating_eb(a, n, e), [s EXCEPT !.missing = Drop(@, {t})], s.missing[t])

(* A transaction that found every queue full is kept only for the EB that  *)
(* waits for it.                                                           *)
propagate_tx(s, n, from, t) ==
    LET seen == IF t \in DOMAIN s.txs THEN s.txs[t].seen ELSE s.slot
        held == [s EXCEPT !.txs = SetAt(@, t, [received |-> TRUE, seen |-> seen])]
        referenced == t \in DOMAIN s.missing
        Finish(r) ==
            IF r.result = "PeerBacklogFull" /\ ~referenced THEN [r.s EXCEPT !.txs = Drop(@, {t})]
            ELSE send_all(acknowledge_tx(r.s, n, t),
                          IF referenced \/ r.result = "AddedToMempool" THEN Consumers(n) \ {from} ELSE {},
                          TxMsg("AnnounceTx", t))
    IN  IF has_tx(s, t) THEN s ELSE Finish(try_add_tx_to_mempool(held, t, from = n))
generate_tx(s, n, t) == IF Len(s.mp.local) >= MaxLocalBacklog THEN s ELSE propagate_tx(s, n, n, t)

-----------------------------------------------------------------------------
(* Ranking blocks.                                                         *)
HeaderSeen(s, rb) == IF HasHeader(s, rb) THEN s.blocks[rb].seen ELSE now
Block(s, rb, view, seen) == [s EXCEPT !.blocks = SetAt(@, rb, [view |-> view, seen |-> seen])]

publish_rb(s, n, rb, already_sent_header) ==
    LET cleaned == remove_rb_txs_from_mempool(s, n, rb)
        behind == {p \in Consumers(n) : Get(s.heads, p, 0) < rb[1]}
        told == [send_all(cleaned, behind, RbMsg(IF already_sent_header THEN "AnnounceRB" ELSE "AnnounceRBHeader", rb))
                   EXCEPT !.heads = [p \in DOMAIN @ \cup behind |-> IF p \in behind THEN rb[1] ELSE @[p]]]
    IN  Block([told EXCEPT !.ebs_by_rb = IF Announces(rb) THEN @ \cup {rb} ELSE @], rb, "Received", HeaderSeen(s, rb))

finish_generating_rb(s, n, rb) ==
    LET published == publish_rb(s, n, rb, FALSE)
    IN  IF Announces(rb) THEN finish_generating_eb(published, n, rb) ELSE published

receive_announce_rb_header(s, from, rb) ==
    IF rb \notin DOMAIN s.blocks \/ (FromAll /\ s.blocks[rb].view = "HeaderPending")
    THEN send_to(Block(s, rb, "HeaderPending", 0), from, RbMsg("RequestRBHeader", rb)) ELSE s
receive_request_rb_header(s, from, rb) ==
    IF HasHeader(s, rb)
    THEN send_to(s, from, [t |-> "RBHeader", rb |-> rb, has_body |-> HasBody(s, rb),
                           has_eb |-> Announces(rb) /\ HasEb(s, rb)])
    ELSE s
receive_rb_header(s, from, m) ==
    schedule_cpu_task(s, [t |-> "RBHeaderValidated", from |-> from, rb |-> m.rb,
                          has_body |-> m.has_body, has_eb |-> m.has_eb])

(* The EB the header announces: ask whoever is known to have it.           *)
FetchEb(s, from, e, has_eb) ==
    LET from_whom == Get(s.announcements, e, <<>>) \o IF has_eb THEN <<from>> ELSE <<>>
        known == [s EXCEPT !.announcements = SetAt(@, e, from_whom)]
        asked == [p \in Nodes |-> IF FromAll THEN Cardinality({i \in DOMAIN from_whom : from_whom[i] = p})
                                  ELSE IF from_whom # <<>> /\ from_whom[1] = p THEN 1 ELSE 0]
    IN  IF ~Announces(e) \/ HasEb(s, e) \/ e \in s.pruned THEN s
        ELSE IF from_whom = <<>> THEN [known EXCEPT !.ebs = SetAt(@, e, Wanted("Pending"))]
        ELSE [known EXCEPT !.ebs = SetAt(@, e, Wanted("Requested")),
                           !.out = [p \in Nodes |-> @[p] \o [i \in 1..asked[p] |-> EbMsg("RequestEB", e)]]]

(* A slot battle: the lower VRF wins, and the other block is forgotten.    *)
finish_validating_rb_header(s, n, from, rb, has_body, has_eb) ==
    LET old == Get(s.by_slot, rb[1], None)
        battle == old # None /\ HasHeader(s, old)
        forgot == IF ~battle THEN s
                  ELSE [s EXCEPT !.blocks = Drop(@, {old}),
                                 !.incomplete = IF HasBody(s, old) THEN @ \ {minted[old].endorsement} ELSE @]
        known == Block([forgot EXCEPT !.by_slot = SetAt(@, rb[1], rb),
                                      !.heads = SetAt(@, from, Max({Get(@, from, 0), rb[1]}))],
                       rb, "Pending", now)
        told == send_all(known, Consumers(n) \ {from}, RbMsg("AnnounceRBHeader", rb))
        asked == IF has_body THEN send_to(told, from, RbMsg("RequestRB", rb)) ELSE told
    IN  IF battle /\ Vrf(old) <= Vrf(rb) THEN s ELSE FetchEb(asked, from, rb, has_eb)

receive_announce_rb(s, from, rb) ==
    IF rb \in DOMAIN s.blocks /\ (s.blocks[rb].view = "Pending" \/ (FromAll /\ s.blocks[rb].view = "Requested"))
    THEN send_to([s EXCEPT !.blocks[rb].view = "Requested"], from, RbMsg("RequestRB", rb)) ELSE s
receive_request_rb(s, from, rb) == IF HasBody(s, rb) THEN send_to(s, from, RbMsg("RB", rb)) ELSE s
receive_rb(s, from, rb) == schedule_cpu_task(s, [t |-> "RBBlockValidated", rb |-> rb])

Endorse(s, e, slot) ==
    [s EXCEPT !.endorsed = IF e \in DOMAIN @ THEN @ ELSE SetAt(@, e, slot),
              !.incomplete = IF is_eb_validated(s, e) \/ e \in s.pruned THEN @ ELSE @ \cup {e}]
finish_validating_rb(s, n, rb) ==
    LET held == Block(s, rb, "Received", HeaderSeen(s, rb))
        e == minted[rb].endorsement
    IN  publish_rb(IF e = None THEN held ELSE Endorse(held, e, rb[1]), n, rb, TRUE)

-----------------------------------------------------------------------------
(* A new slot: mint, then prune.                                           *)
Endorsable(s, slot) ==
    LET parent == latest_rb_id(s)
    IN  /\ parent # None /\ parent[1] + Inclusion <= slot
        /\ parent \in s.ebs_by_rb /\ parent \in DOMAIN s.votes_by_eb
        /\ Tally(s, parent) >= Threshold
Endorsed(s, n, slot) ==
    LET e == latest_rb_id(s)
    IN  IF ~Endorsable(s, slot) THEN s
        ELSE Endorse(IF is_eb_validated(s, e) THEN remove_txs_from_mempool(s, n, ToSet(Txs(e))) ELSE s, e, slot)

(* The block, and the node after the lottery was won: with an endorsed EB  *)
(* it has not validated it can tell no conflict, and mints an empty block. *)
MintOn(s, n, slot, parent, endorsed) ==
    LET empty == s.incomplete # {}
        With(body, filled) ==
            [s |-> schedule_cpu_task(IF empty THEN filled ELSE sample_from_mempool(filled, n, MaxEb, FALSE),
                                     [t |-> "RBBlockGenerated", rb |-> <<slot, n>>]),
             rb |-> [parent |-> parent, txs |-> body, eb |-> IF empty THEN <<>> ELSE Sample(filled, MaxEb),
                     endorsement |-> IF endorsed THEN parent ELSE None,
                     votes |-> IF endorsed THEN s.votes_by_eb[parent] ELSE <<>>]]
    IN  IF empty \/ endorsed THEN With(<<>>, s)
        ELSE With(Sample(s, MaxBlock), sample_from_mempool(s, n, MaxBlock, TRUE))
Mint(s, n, slot) == MintOn(Endorsed(s, n, slot), n, slot, latest_rb_id(s), Endorsable(s, slot))

prune_old_txs(s, slot) ==
    [s EXCEPT !.txs = Drop(@, {t \in DOMAIN @ : slot - @[t].seen > TxMaxAge /\ t \notin s.mp.tx_ids})]

(* latest is the slot of the latest block that endorses an EB.             *)
prune_old_leios_state(s) ==
    LET latest == Max({0} \cup Range(s.endorsed))
        expired == {e \in DOMAIN s.votes_by_eb : e[1] < latest}
        gone == {e \in expired : ~(HasEb(s, e) /\ ~s.ebs[e].validated) /\ e \notin s.incomplete}
    IN  IF expired = {} THEN s
        ELSE [s EXCEPT !.endorsed = Drop(@, gone), !.votes_by_eb = Drop(@, gone),
                       !.quorum = @ \ gone, !.ebs = Drop(@, gone), !.announcements = Drop(@, gone),
                       !.pruned = @ \cup gone,
                       !.votes = Drop(@, {id \in DOMAIN @ : Held(s, id) /\ @[id].votes.eb[1] < latest}),
                       !.ebs_by_rb = {e \in @ : e[1] >= latest \/ e \in s.incomplete}]

-----------------------------------------------------------------------------
handle_message(s, n, from, m) ==
    CASE m.t = "AnnounceTx" -> receive_announce_tx(s, from, m.tx)
      [] m.t = "RequestTx" -> receive_request_tx(s, from, m.tx)
      [] m.t = "Tx" -> receive_tx(s, from, m.tx)
      [] m.t = "AnnounceRBHeader" -> receive_announce_rb_header(s, from, m.rb)
      [] m.t = "RequestRBHeader" -> receive_request_rb_header(s, from, m.rb)
      [] m.t = "RBHeader" -> receive_rb_header(s, from, m)
      [] m.t = "AnnounceRB" -> receive_announce_rb(s, from, m.rb)
      [] m.t = "RequestRB" -> receive_request_rb(s, from, m.rb)
      [] m.t = "RB" -> receive_rb(s, from, m.rb)
      [] m.t = "AnnounceEB" -> receive_announce_eb(s, from, m.eb)
      [] m.t = "RequestEB" -> receive_request_eb(s, from, m.eb)
      [] m.t = "EB" -> receive_eb(s, from, m.eb)
      [] m.t = "AnnounceVotes" -> receive_announce_votes(s, from, m.id)
      [] m.t = "RequestVotes" -> receive_request_votes(s, from, m.id)
      [] m.t = "Votes" -> receive_votes(s, from, m.votes)
      [] m.t = "RequestEBTxs" -> receive_request_eb_txs(s, from, m.eb, m.txs)
      [] m.t = "EBTxs" -> receive_eb_txs(s, from, m.txs)

handle_cpu_task(s, n, c) ==
    CASE c.t = "TransactionValidated" -> propagate_tx(s, n, c.from, c.tx)
      [] c.t = "RBBlockGenerated" -> finish_generating_rb(s, n, c.rb)
      [] c.t = "RBHeaderValidated" -> finish_validating_rb_header(s, n, c.from, c.rb, c.has_body, c.has_eb)
      [] c.t = "RBBlockValidated" -> finish_validating_rb(s, n, c.rb)
      [] c.t = "EBHeaderValidated" -> finish_validating_eb_header(s, n, c.from, c.eb)
      [] c.t = "EBBlockValidated" -> finish_validating_eb(s, n, c.eb, c.seen)
      [] c.t = "VTBundleGenerated" -> finish_generating_vote_bundle(s, n, c.votes)
      [] c.t = "VTBundleValidated" -> finish_validating_vote_bundle(s, n, c.from, c.votes)

handle_new_slot(n) ==
    /\ node[n].slot < now
    /\ LET s == [node[n] EXCEPT !.slot = now]
           r == Mint(s, n, now)
           wins == <<now, n>> \in Wins
           kept(x) == prune_old_leios_state(prune_old_txs(x, now))
       IN  /\ Commit(n, kept(IF wins THEN r.s ELSE s), net, tasks, timers)
           /\ minted' = IF wins THEN SetAt(minted, <<now, n>>, r.rb) ELSE minted
    /\ UNCHANGED <<now, submitted>>

handle_new_tx(n) ==
    \E t \in Generated(n) \ submitted[n] :
        /\ submitted' = [submitted EXCEPT ![n] = @ \cup {t}]
        /\ Commit(n, generate_tx(node[n], n, t), net, tasks, timers)
        /\ UNCHANGED <<now, minted>>

Deliver(n, from, p) ==
    /\ net[from][n][p] # <<>>
    /\ Commit(n, handle_message(node[n], n, from, Head(net[from][n][p])),
              [net EXCEPT ![from][n][p] = Tail(@)], tasks, timers)
    /\ UNCHANGED <<now, minted, submitted>>

FinishTask(n, c) ==
    /\ Commit(n, handle_cpu_task(node[n], n, c), net, [tasks EXCEPT ![n] = @ \ {c}], timers)
    /\ UNCHANGED <<now, minted, submitted>>

handle_timed_event(n) ==
    \E e \in Due(n) :
        /\ Commit(n, vote_for_endorser_block(node[n], n, e.eb, e.seen), net, tasks, [timers EXCEPT ![n] = @ \ {e}])
        /\ UNCHANGED <<now, minted, submitted>>

SlowSteps(n) ==
    \/ handle_timed_event(n) \/ handle_new_tx(n)
    \/ \E c \in tasks[n] : FinishTask(n, c)
    \/ \E from \in Nodes, p \in Protocols : Deliver(n, from, p)

Quick == IF QuickTasks # {}
         THEN LET n == Min(QuickTasks) IN FinishTask(n, CHOOSE c \in tasks[n] : ~Slow(n, c.t))
         ELSE LET m == CHOOSE m \in QuickMessages : TRUE IN Deliver(m[1], m[2], m[3])
Next == IF Starting # {} THEN handle_new_slot(Min(Starting))
        ELSE IF QuickTasks # {} \/ QuickMessages # {} THEN Quick
        ELSE Tick \/ \E n \in Nodes : SlowSteps(n)

-----------------------------------------------------------------------------
(* What sample_from_mempool panics without: every transaction of the       *)
(* mempool is held in txs, whatever prune_old_txs dropped; and the two     *)
(* indices the pool answers contains and conflicts from are exact.         *)
PoolSound ==
    \A n \in Nodes :
        LET mp == node[n].mp
        IN  /\ \A t \in ToSet(mp.pool) : has_tx(node[n], t)
            /\ mp.input_ids = {InputOf(t) : t \in ToSet(mp.pool)}
            /\ mp.tx_ids = ToSet(mp.pool) \cup ToSet(mp.local) \cup ToSet(mp.peer)

(* The crossing of the quorum is reported once per node and EB, whatever   *)
(* bundles arrive after the state of the EB was pruned.                    *)
QuorumOnce == \A n \in Nodes : \A e \in DOMAIN node[n].reported : node[n].reported[e] = 1

(* A certificate on the chain is a quorum of distinct committee members,   *)
(* each counted with its own weight once, whatever copies of its bundle    *)
(* came back through other peers.                                          *)
CertSound ==
    \A rb \in DOMAIN minted :
        LET votes == minted[rb].votes
        IN  minted[rb].endorsement # None =>
              /\ SumFunction(votes) >= Threshold
              /\ \A v \in DOMAIN votes : votes[v] = Weight(v)

(* An EB that waits for transactions waits for some, and each of them will *)
(* release it: no arrival between request, diffusion and fetch is missed.  *)
WaitsAccounted ==
    \A n \in Nodes : \A e \in DOMAIN node[n].ebs :
        HasEb(node[n], e) /\ ~node[n].ebs[e].all_txs_seen =>
            LET lacking == {t \in ToSet(Txs(e)) : ~has_tx(node[n], t)}
            IN  lacking # {} /\ \A t \in lacking : e \in Get(node[n].missing, t, {})

(* Every EB reaches every node: when nothing is left to deliver, to finish *)
(* or to wait for, each EB minted has been validated by each node that has *)
(* not pruned it, whoever announced it first, before or after its header.  *)
EbReaches == Settled => \A n \in Nodes, e \in DOMAIN minted :
                           Announces(e) => is_eb_validated(node[n], e) \/ e \in node[n].pruned
=============================================================================
