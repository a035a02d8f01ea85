------------------------------ MODULE SimLeios ------------------------------
(***************************************************************************)
(* The Short and Full Leios nodes of the simulator, with input blocks      *)
(* (sim-core: sim/leios.rs), as handlers of SimNode.  The lotteries are    *)
(* constants.  Transactions are numbered and each takes one unit of room;  *)
(* the mempool offers the lowest first (not the Random strategy).          *)
(* minted.rb, minted.ib and minted.eb hold the contents of the blocks: an  *)
(* EB is <<slot, producer>>, an IB <<slot, producer, index>>.              *)
(***************************************************************************)
EXTENDS SimNode

CONSTANTS InputOf(_),
          Wins, EbWins,       \* <<slot, node>>: who wins these lotteries when
          IbWins(_, _),       \* IbWins(n, slot): the VRFs of the IBs n wins, a sequence
          VoteWins(_, _),     \* VoteWins(n, slot): how many votes n wins
          Vrf(_),             \* the VRF value of a ranking block
          Equivocators,       \* the nodes with the behaviour ib_equivocation
          Variant,            \* "Short", "Full" or "FullWithTxReferences"
          Threshold,          \* vote_threshold
          StageLength, VoteSlots, \* stage_length, vote_slot_length
          Quality,            \* praos_chain_quality
          HeaderDiffusion, IbGeneration, MaxEbAge,
          MaxBlock, MaxIb,
          ShardOf(_), Over,   \* the shard of a transaction, overcollateralization_factor
          Shards, ShardGroups, ShardPeriod,
          LateIbs,            \* late_ib_inclusion
          MaxRequests,        \* max_ib_requests_per_peer
          Strategy,           \* ib_diffusion_strategy: "peer", "freshest" or "oldest"
          Aggressive,         \* mempool_aggressive_pruning
          Fallback            \* praos_fallback

new == [slot |-> 0, txs |-> <<>>, ledgers |-> <<>>,
        praos |-> {}, heads |-> <<>>, seen |-> {}, blocks |-> {}, by_slot |-> <<>>,
        leios |-> {}, in_flight |-> {}, to_mint |-> <<>>, ibs |-> <<>>, requests |-> <<>>,
        by_vrf |-> <<>>, ibs_by_pipeline |-> <<>>, ebs |-> <<>>, by_pipeline |-> <<>>, cert_times |-> <<>>,
        to_vote |-> <<>>, votes_by_eb |-> <<>>, votes |-> <<>>,
        panicked |-> FALSE, \* what a panic! would have done
        out |-> Quiet, todo |-> {}, later |-> {}]

Init == Start(new) /\ minted = [rb |-> <<>>, ib |-> <<>>, eb |-> <<>>]

slot_to_pipeline(slot) == slot \div StageLength
PipelineOf(eb) == slot_to_pipeline(eb[1]) + 1
IbPipeline(ib) == slot_to_pipeline(ib[1]) + 4
Rb(id) == minted.rb[id]
Ib(id) == minted.ib[id]
Eb(id) == minted.eb[id]
Inputs(txs) == {InputOf(t) : t \in ToSet(txs)}
IbMsg(t, id) == [t |-> t, ib |-> id]
has_tx(s, t) == Get(s.txs, t, "") = "Received"
HasEb(s, e) == e \in DOMAIN s.ebs /\ s.ebs[e].received
HasIb(s, i) == i \in DOMAIN s.ibs /\ s.ibs[i].view = "Received"
HasIbHeader(s, i) == i \in DOMAIN s.ibs /\ s.ibs[i].view # "HeaderPending"
Tally(s, e) == SumFunction(Get(s.votes_by_eb, e, <<>>))
latest_rb_ref(s) == Latest(s.blocks)

-----------------------------------------------------------------------------
(* The ledger and the mempools.                                            *)
HeldIbs(s, e) == {i \in ToSet(Eb(e).ibs) : HasIb(s, i)}
TxsOf(s, e) == UNION {ToSet(Ib(i).txs) : i \in HeldIbs(s, e)}
RECURSIVE EbsSpend(_, _, _)
EbsSpend(s, ledger, queue) ==
    IF queue = {} THEN ledger
    ELSE LET e == CHOOSE e \in queue : TRUE
             marked == [ledger EXCEPT !.ebs = @ \cup {e}]
         IN  IF e \in ledger.ebs THEN EbsSpend(s, ledger, queue \ {e})
             ELSE IF ~HasEb(s, e) THEN EbsSpend(s, marked, queue \ {e})
             ELSE EbsSpend(s, [marked EXCEPT !.spent = @ \cup {InputOf(t) : t \in TxsOf(s, e)}],
                           (queue \ {e}) \cup ToSet(Eb(e).ebs))
RECURSIVE ChainSpends(_, _, _)
ChainSpends(s, ledger, rb) ==
    LET marked == [ledger EXCEPT !.blocks = @ \cup {rb}]
        spent == [marked EXCEPT !.spent = @ \cup Inputs(Rb(rb).txs)]
    IN  IF rb = None \/ rb \in ledger.blocks THEN ledger
        ELSE IF rb \notin s.blocks THEN marked
        ELSE ChainSpends(s, EbsSpend(s, spent, {Rb(rb).endorsement} \ {None}), Rb(rb).parent)
(* From the ledger of the latest block resolved before.                    *)
resolve_ledger_state(s, rb) ==
    LET base == IF s.ledgers = <<>> THEN [spent |-> {}, blocks |-> {}, ebs |-> {}]
                ELSE s.ledgers[Latest(DOMAIN s.ledgers)]
    IN  IF rb = None \/ rb \in DOMAIN s.ledgers THEN s
        ELSE [s EXCEPT !.ledgers = SetAt(@, rb, ChainSpends(s, base, rb))]
Spent(s, rb) == IF rb = None THEN {} ELSE s.ledgers[rb].spent

Lowest(S, max) == SubSeq(SetToSortSeq(S, LAMBDA a, b : a < b), 1, Min({max, Cardinality(S)}))
Without(s, txs) == [s EXCEPT !.praos = @ \ txs, !.leios = @ \ txs]

(* One transaction per input, of a shard the IB may take, not spent before. *)
select_txs(s, shard, spent) ==
    LET usable == {t \in s.leios : InputOf(t) \notin spent /\ \E i \in 0..Over : (ShardOf(t) + i) % Shards = shard}
        first == {t \in usable : ~\E u \in usable : u < t /\ InputOf(u) = InputOf(t)}
    IN  Lowest(first, MaxIb)

(* The EB and those it refers to, without the ones finalized before.       *)
RECURSIVE Endorses(_, _, _)
Endorses(s, queue, found) ==
    LET next == {e \in queue \ found : HasEb(s, e) /\ ~s.ebs[e].finalized}
    IN  IF next = {} THEN found
        ELSE Endorses(s, UNION {ToSet(Eb(e).ebs) : e \in next}, found \cup next)
remove_endorsed_txs_from_mempools(s, e) ==
    LET all == Endorses(s, {e}, {})
        final == [s EXCEPT !.ebs = [x \in DOMAIN @ |-> IF x \in all THEN [@[x] EXCEPT !.finalized = TRUE] ELSE @[x]]]
    IN  Without(final, UNION {TxsOf(s, x) : x \in all})

-----------------------------------------------------------------------------
(* Transactions.                                                           *)
receive_announce_tx(s, from, t) ==
    IF t \notin DOMAIN s.txs \/ (FromAll /\ s.txs[t] = "Pending")
    THEN send_to([s EXCEPT !.txs = SetAt(@, t, "Pending")], from, TxMsg("RequestTx", t)) ELSE s
receive_request_tx(s, from, t) == IF has_tx(s, t) THEN send_to(s, from, TxMsg("Tx", t)) ELSE s
receive_tx(s, from, t) == schedule_cpu_task(s, [t |-> "TransactionValidated", from |-> from, tx |-> t])
propagate_tx(s, n, from, t) ==
    LET held == [s EXCEPT !.txs = SetAt(@, t, "Received")]
        known == resolve_ledger_state(held, latest_rb_ref(held))
        conflicts == \/ InputOf(t) \in Spent(known, latest_rb_ref(known))
                     \/ \E u \in s.praos : InputOf(u) = InputOf(t)
        pooled == send_all([known EXCEPT !.praos = @ \cup {t}], Consumers(n) \ {from}, TxMsg("AnnounceTx", t))
    IN  IF has_tx(s, t) THEN s
        ELSE IF conflicts THEN known
        ELSE IF Aggressive /\ InputOf(t) \in s.in_flight THEN pooled
        ELSE [pooled EXCEPT !.leios = @ \cup {t}]
generate_tx(s, n, t) == propagate_tx(s, n, n, t)

-----------------------------------------------------------------------------
(* Input blocks.                                                           *)
(* The shard, of the group whose turn it is, that the VRF picks.           *)
IbShard(slot, vrf) ==
    LET group == (slot \div ShardPeriod) % ShardGroups
        per_group == Shards \div ShardGroups
    IN  group * per_group + (vrf % per_group)
(* The wins of the whole stage are drawn when it starts.                   *)
schedule_input_block_generation(s, n, slot) ==
    LET won == {x \in slot..(slot + StageLength - 1) : IbWins(n, x) # <<>>}
    IN  [s EXCEPT !.to_mint = [x \in DOMAIN @ \cup won |-> IF x \in won THEN IbWins(n, x) ELSE @[x]]]

(* The headers of a slot: each VRF once, or twice by an equivocator.       *)
Headers(n, vrfs) == IF n \in Equivocators THEN [i \in 1..(2 * Len(vrfs)) |-> vrfs[(i + 1) \div 2]] ELSE vrfs
(* The IBs are filled one after the other from what is left.               *)
RECURSIVE Fill(_, _, _, _)
Fill(s, n, slot, vrfs) ==
    IF vrfs = <<>> THEN [s |-> s, ibs |-> <<>>]
    ELSE LET before == Fill(s, n, slot, Front(vrfs))
             id == <<slot, n, Len(vrfs) - 1>>
             known == resolve_ledger_state(before.s, latest_rb_ref(s))
             txs == select_txs(known, IbShard(slot, Last(vrfs)), Spent(known, latest_rb_ref(s)))
             drawn == [known EXCEPT !.leios = @ \ ToSet(txs),
                                    !.by_vrf = SetAt(@, Last(vrfs), Append(Get(@, Last(vrfs), <<>>), id))]
         IN  [s |-> schedule_cpu_task(drawn, [t |-> "IBBlockGenerated", ib |-> id]),
              ibs |-> SetAt(before.ibs, id, [vrf |-> Last(vrfs), txs |-> txs])]
generate_input_blocks(s, n, slot) ==
    IF slot \notin DOMAIN s.to_mint THEN [s |-> s, ibs |-> <<>>]
    ELSE Fill([s EXCEPT !.to_mint = Drop(@, {slot})], n, slot, Headers(n, s.to_mint[slot]))

IbState(s, i, view, seen, stamp) == [s EXCEPT !.ibs = SetAt(@, i, [view |-> view, seen |-> seen, stamp |-> stamp])]
InPipeline(s, i) == [s EXCEPT !.ibs_by_pipeline = SetAt(@, IbPipeline(i), Append(Get(@, IbPipeline(i), <<>>), i))]
finish_generating_ib(s, n, i) ==
    send_all(IbState(InPipeline(s, i), i, "Received", now, now), Consumers(n), IbMsg("AnnounceIBHeader", i))

receive_announce_ib_header(s, from, i) ==
    IF i \notin DOMAIN s.ibs \/ (FromAll /\ ~HasIbHeader(s, i))
    THEN send_to(IbState(s, i, "HeaderPending", 0, 0), from, IbMsg("RequestIBHeader", i)) ELSE s
receive_request_ib_header(s, from, i) ==
    IF HasIbHeader(s, i)
    THEN send_to(s, from, [t |-> "IBHeader", ib |-> i, has_body |-> HasIb(s, i), stamp |-> s.ibs[i].stamp]) ELSE s
(* Two headers with the same VRF are the proof of an equivocation: the     *)
(* second is still passed on, the ones after it are not.                   *)
Validate(s, from, m) ==
    schedule_cpu_task(IbState(s, m.ib, "Pending", now, m.stamp),
                      [t |-> "IBHeaderValidated", from |-> from, ib |-> m.ib, has_body |-> m.has_body])
SameVrf(s, i) == [s EXCEPT !.by_vrf = SetAt(@, Ib(i).vrf, Append(Get(@, Ib(i).vrf, <<>>), i))]
MutIbHeader(s, n, from, m) ==  (* Mutant: the second header of a VRF is not passed on. *)
    LET known == SameVrf(s, m.ib)
    IN  IF HasIbHeader(s, m.ib) THEN s
        ELSE IF n \notin Equivocators /\ Len(known.by_vrf[Ib(m.ib).vrf]) > 1 THEN known
        ELSE Validate(known, from, m)
receive_ib_header(s, n, from, m) ==
    LET known == SameVrf(s, m.ib)
    IN  IF HasIbHeader(s, m.ib) THEN s
        ELSE IF n \notin Equivocators /\ Len(known.by_vrf[Ib(m.ib).vrf]) > 2 THEN known
        ELSE Validate(known, from, m)
ib_equivocation_detected(s, n, i) == n \notin Equivocators /\ Len(Get(s.by_vrf, Ib(i).vrf, <<>>)) > 1

Requests(s, p) == Get(s.requests, p, [pending |-> <<>>, active |-> {}])
Wanted(s, i) == i \in DOMAIN s.ibs /\ (s.ibs[i].view = "Pending" \/ (FromAll /\ s.ibs[i].view = "Requested"))
Request(s, from, i) ==
    send_to([s EXCEPT !.ibs[i].view = "Requested",
                      !.requests = SetAt(@, from, [Requests(s, from) EXCEPT !.active = @ \cup {i}])],
            from, IbMsg("RequestIB", i))
receive_announce_ib(s, n, from, i) ==
    IF ~Wanted(s, i) \/ ib_equivocation_detected(s, n, i) THEN s
    ELSE IF Cardinality(Requests(s, from).active) < MaxRequests THEN Request(s, from, i)
    ELSE [s EXCEPT !.requests = SetAt(@, from, [Requests(s, from) EXCEPT !.pending =
             IF Strategy # "peer" /\ i \in ToSet(@) THEN @ ELSE Append(@, i)])]
finish_validating_ib_header(s, n, from, i, has_body) ==
    LET told == send_all(s, Consumers(n) \ {from}, IbMsg("AnnounceIBHeader", i))
    IN  IF has_body THEN receive_announce_ib(told, n, from, i) ELSE told

receive_request_ib(s, from, i) == IF HasIb(s, i) THEN send_to(s, from, IbMsg("IB", i)) ELSE s
receive_ib(s, n, from, i) ==
    IF HasIb(s, i) \/ ib_equivocation_detected(s, n, i) THEN s
    ELSE schedule_cpu_task(s, [t |-> "IBBlockValidated", from |-> from, ib |-> i])

(* The place of the request that PendingQueue::pop takes.                  *)
Popped(s, pending) ==
    LET stamp(k) == s.ibs[pending[k]].stamp
    IN  CASE Strategy = "peer" -> Len(pending)
          [] Strategy = "freshest" -> CHOOSE k \in DOMAIN pending : \A j \in DOMAIN pending : stamp(j) <= stamp(k)
          [] Strategy = "oldest" -> CHOOSE k \in DOMAIN pending : \A j \in DOMAIN pending : stamp(j) >= stamp(k)
(* One more from this peer: those fetched elsewhere and the equivocated    *)
(* are passed over.                                                        *)
RECURSIVE NextRequest(_, _, _)
NextRequest(s, n, from) ==
    LET pending == Requests(s, from).pending
        k == Popped(s, pending)
        rest == [s EXCEPT !.requests[from].pending = RemoveAt(@, k)]
    IN  IF pending = <<>> THEN s
        ELSE IF Wanted(s, pending[k]) /\ ~ib_equivocation_detected(s, n, pending[k]) THEN Request(rest, from, pending[k])
        ELSE NextRequest(rest, n, from)
finish_validating_ib(s, n, from, i) ==
    LET flying == s.in_flight \cup Inputs(Ib(i).txs)
        cleaned == [s EXCEPT !.leios = @ \ ToSet(Ib(i).txs)]
        pruned == IF Aggressive
                  THEN [cleaned EXCEPT !.in_flight = flying, !.leios = {t \in @ : InputOf(t) \notin flying}] ELSE cleaned
        held == IbState(pruned, i, "Received", s.ibs[i].seen, s.ibs[i].stamp)
        told == send_all(InPipeline(held, i), Consumers(n) \ {from}, IbMsg("AnnounceIB", i))
        free == [told EXCEPT !.requests = SetAt(@, from, [Requests(s, from) EXCEPT !.active = @ \ {i}])]
    IN  IF HasIb(s, i) THEN held ELSE NextRequest(free, n, from)

-----------------------------------------------------------------------------
(* Endorser blocks.                                                        *)
all_ibs_seen(s, e) == HasEb(s, e) /\ \A i \in ToSet(Eb(e).ibs) : HasIb(s, i)
count_txs_in_eb(s, e) == IF all_ibs_seen(s, e) THEN Cardinality(TxsOf(s, e)) + 1 ELSE 0
Certified(s, e) == e \in DOMAIN s.votes_by_eb /\ Tally(s, e) >= Threshold

pipelines_for_ib_references(p) == (IF ~LateIbs THEN p ELSE IF p < 3 THEN 0 ELSE p - 3)..p
pipelines_for_eb_references(p) ==
    LET oldest == (3 * Quality + StageLength - 1) \div StageLength
    IN  IF Variant = "Short" \/ p < 3 THEN {} ELSE (IF p < oldest THEN 0 ELSE p - oldest)..(p - 3)
select_ibs_for_eb(s, pipeline) ==
    LET old == pipelines_for_ib_references(pipeline)
    IN  FlattenSeq([k \in 1..Cardinality(old) |-> Get(s.ibs_by_pipeline, Min(old) + k - 1, <<>>)])
choose_endorsed_block_from_pipeline(s, pipeline) ==
    LET ids == Get(s.by_pipeline, pipeline, <<>>)
        candidates == {e \in ToSet(ids) : Certified(s, e) /\ all_ibs_seen(s, e)}
        place(e) == CHOOSE i \in DOMAIN ids : ids[i] = e
    IN  IF candidates = {} THEN None
        ELSE Best(candidates, LAMBDA e : <<count_txs_in_eb(s, e), Tally(s, e), place(e)>>)
(* One certified EB from each of the pipelines, the oldest first.          *)
select_ebs_for_eb(s, pipeline) ==
    SetToSortSeq({choose_endorsed_block_from_pipeline(s, p) : p \in pipelines_for_eb_references(pipeline)} \ {None},
                 LAMBDA a, b : Above(b, a))
MintsEb(n, slot) == slot_to_pipeline(slot) + 1 >= 4 /\ <<slot, n>> \in EbWins
NewEb(s, slot) == LET pipeline == slot_to_pipeline(slot) + 1
                  IN  [ibs |-> select_ibs_for_eb(s, pipeline), ebs |-> select_ebs_for_eb(s, pipeline)]
generate_endorser_blocks(s, n, slot) ==
    IF MintsEb(n, slot) THEN schedule_cpu_task(s, [t |-> "EBBlockGenerated", eb |-> <<slot, n>>]) ELSE s

EbInPipeline(s, e) == [s EXCEPT !.by_pipeline = SetAt(@, PipelineOf(e), Append(Get(@, PipelineOf(e), <<>>), e))]
finish_generating_eb(s, n, e) ==
    send_all([EbInPipeline(s, e) EXCEPT !.ebs = SetAt(@, e, [received |-> TRUE, finalized |-> FALSE])],
             Consumers(n), EbMsg("AnnounceEB", e))
receive_announce_eb(s, from, e) ==
    IF e \notin DOMAIN s.ebs \/ (FromAll /\ ~s.ebs[e].received)
    THEN send_to([s EXCEPT !.ebs = SetAt(@, e, [received |-> FALSE])], from, EbMsg("RequestEB", e)) ELSE s
receive_request_eb(s, from, e) == IF HasEb(s, e) THEN send_to(s, from, EbMsg("EB", e)) ELSE s
receive_eb(s, from, e) == schedule_cpu_task(s, [t |-> "EBBlockValidated", from |-> from, eb |-> e])
(* The body is not kept: a node holds only the EBs it made.                *)
finish_validating_eb(s, n, from, e) == send_all(EbInPipeline(s, e), Consumers(n) \ {from}, EbMsg("AnnounceEB", e))

-----------------------------------------------------------------------------
(* Votes.  The bundle of a node is <<slot, node>>.                         *)
schedule_endorser_block_votes(s, n, slot, delay) ==
    IF slot_to_pipeline(slot) < 4 \/ VoteWins(n, slot) = 0 THEN s
    ELSE [s EXCEPT !.to_vote = SetAt(@, slot + delay, VoteWins(n, slot))]

should_vote_for(s, n, e) ==
    LET others(i) == {j \in ToSet(s.by_vrf[Ib(i).vrf]) : j # i /\ HasIbHeader(s, j)}
        actual == {PipelineOf(r) : r \in ToSet(Eb(e).ebs)}
        last(q) == (q + 1) * StageLength - 1
        cutoff(q) == IF last(q) < HeaderDiffusion THEN 0 ELSE last(q) - HeaderDiffusion
    IN  /\ \A i \in ToSet(Eb(e).ibs) :
             /\ HasIb(s, i)
             /\ n \in Equivocators \/ \A j \in others(i) : s.ibs[j].seen >= i[1] + 4 * HeaderDiffusion + IbGeneration
             /\ s.ibs[i].seen <= i[1] + 2 * HeaderDiffusion + IbGeneration
             /\ IbPipeline(i) \in pipelines_for_ib_references(PipelineOf(e))
             /\ Variant = "FullWithTxReferences" => \A t \in ToSet(Ib(i).txs) : has_tx(s, t)
        /\ \A q \in pipelines_for_eb_references(PipelineOf(e)) :
             q \in DOMAIN s.cert_times /\ s.cert_times[q] <= cutoff(q) => q \in actual
        /\ \A r \in ToSet(Eb(e).ebs) : Certified(s, r)

try_vote_for_endorser_blocks(s, n, slot) ==
    LET stage == slot \div StageLength
        done == [s EXCEPT !.to_vote = Drop(@, {slot})]
        ids == Get(s.by_pipeline, stage - 1, <<>>)
        ebs == {e \in ToSet(ids) : should_vote_for(s, n, e)}
    IN  IF slot \notin DOMAIN s.to_vote THEN s
        ELSE IF stage = 0 THEN done
        ELSE IF \E e \in ToSet(ids) : ~HasEb(s, e) THEN [done EXCEPT !.panicked = TRUE]
        ELSE IF ebs = {} THEN done
        ELSE schedule_cpu_task(done, [t |-> "VTBundleGenerated",
               votes |-> [id |-> <<slot, n>>, ebs |-> [e \in ebs |-> s.to_vote[slot] * Len(ids)]]])
(* There is nothing to vote for before pipeline 4.                         *)
vote_for_endorser_blocks(s, n, slot) ==
    IF slot_to_pipeline(slot) < 4 THEN s ELSE try_vote_for_endorser_blocks(s, n, slot)

(* Some EB of a pipeline is known to be certified once one voter alone     *)
(* reaches the bar, of at least `enough` votes.                            *)
CountVotes(s, v, enough) ==
    LET by(e) == Get(s.votes_by_eb, e, <<>>)
        total(e) == Get(by(e), v.id[2], 0) + v.ebs[e]
        certain == {PipelineOf(e) : e \in {x \in DOMAIN v.ebs : total(x) >= enough}}
    IN  [s EXCEPT !.votes_by_eb = [e \in DOMAIN @ \cup DOMAIN v.ebs |->
                                     IF e \in DOMAIN v.ebs THEN SetAt(by(e), v.id[2], total(e)) ELSE @[e]],
                  !.cert_times = [p \in DOMAIN @ \cup certain |-> Get(@, p, now)]]
HoldVotes(s, v) == [s EXCEPT !.votes = SetAt(@, v.id, [view |-> "Received", votes |-> v])]
Held(s, id) == id \in DOMAIN s.votes /\ s.votes[id].view = "Received"
finish_generating_vote_bundle(s, n, v) ==
    send_all(HoldVotes(CountVotes(s, v, Threshold + 1), v), Consumers(n), VoteMsg("AnnounceVotes", v.id))
receive_announce_votes(s, from, id) ==
    IF id \notin DOMAIN s.votes \/ (FromAll /\ ~Held(s, id))
    THEN send_to([s EXCEPT !.votes = SetAt(@, id, [view |-> "Requested"])], from, VoteMsg("RequestVotes", id)) ELSE s
receive_request_votes(s, from, id) ==
    IF Held(s, id) THEN send_to(s, from, [t |-> "Votes", votes |-> s.votes[id].votes]) ELSE s
receive_votes(s, from, v) == schedule_cpu_task(s, [t |-> "VTBundleValidated", from |-> from, votes |-> v])
finish_validating_vote_bundle(s, n, from, v) ==
    IF Held(s, v.id) THEN s
    ELSE send_all(HoldVotes(CountVotes(s, v, Threshold), v), Consumers(n) \ {from},
                  VoteMsg("AnnounceVotes", v.id))

-----------------------------------------------------------------------------
(* Ranking blocks.  Short Leios prefers the oldest EB, Full the newest.    *)
choose_endorsed_block_for_rb(s, slot) ==
    LET forbidden == {Rb(rb).endorsement[1] : rb \in {b \in s.blocks : Rb(b).endorsement # None}}
        age(e) == slot - e[1]
        candidates == {e \in DOMAIN s.votes_by_eb :
                         age(e) <= MaxEbAge /\ e[1] \notin forbidden /\ Tally(s, e) >= Threshold /\ all_ibs_seen(s, e)}
    IN  IF candidates = {} THEN None
        ELSE Best(candidates, LAMBDA e : <<IF Variant = "Short" THEN age(e) ELSE e[1],
                                           count_txs_in_eb(s, e), Tally(s, e), e[2]>>)
Endorsing(s, slot) ==
    LET e == choose_endorsed_block_for_rb(s, slot)
    IN  IF e = None THEN s ELSE remove_endorsed_txs_from_mempools(s, e)
(* The content of the block won in the slot, and the node that scheduled it. *)
SampledPraos(s) == IF Fallback THEN Lowest(s.praos, MaxBlock) ELSE <<>>
NewRb(s, slot) ==
    LET e == choose_endorsed_block_for_rb(s, slot)
    IN  [parent |-> latest_rb_ref(s), endorsement |-> e, txs |-> SampledPraos(Endorsing(s, slot))]
try_generate_praos_block(s, n, slot) ==
    LET ready == Endorsing(s, slot)
    IN  IF <<slot, n>> \notin Wins THEN s
        ELSE schedule_cpu_task(Without(ready, ToSet(SampledPraos(ready))), [t |-> "RBBlockGenerated", rb |-> <<slot, n>>])

publish_block(s, n, rb) ==
    LET e == Rb(rb).endorsement
        cleaned == Without(s, ToSet(Rb(rb).txs))
        behind == {p \in Consumers(n) : Get(s.heads, p, 0) < rb[1]}
        told == send_all(IF e = None THEN cleaned ELSE remove_endorsed_txs_from_mempools(cleaned, e),
                         behind, RbMsg("AnnounceRB", rb))
    IN  [told EXCEPT !.heads = [p \in DOMAIN @ \cup behind |-> IF p \in behind THEN rb[1] ELSE @[p]],
                     !.by_slot = SetAt(@, rb[1], rb), !.blocks = @ \cup {rb}]
receive_roll_forward(s, from, rb) ==
    IF rb \in s.seen THEN s ELSE send_to([s EXCEPT !.seen = @ \cup {rb}], from, RbMsg("RequestRB", rb))
receive_request_block(s, from, rb) == IF rb \in s.blocks THEN send_to(s, from, RbMsg("RB", rb)) ELSE s
receive_block(s, from, rb) == schedule_cpu_task(s, [t |-> "RBBlockValidated", from |-> from, rb |-> rb])
(* A slot battle: the lower VRF wins, and the other block is forgotten.    *)
finish_validating_block(s, n, from, rb) ==
    LET old == Get(s.by_slot, rb[1], None)
    IN  IF old \in s.blocks /\ Vrf(old) <= Vrf(rb) THEN s
        ELSE publish_block([s EXCEPT !.blocks = @ \ {old},
                                  !.heads = SetAt(@, from, Max({Get(@, from, 0), rb[1]}))], n, rb)

-----------------------------------------------------------------------------
(* AnnounceRB, RequestRB and RB are the source's RollForward, RequestBlock *)
(* and Block.                                                              *)
handle_message(s, n, from, m) ==
    CASE m.t = "AnnounceTx" -> receive_announce_tx(s, from, m.tx)
      [] m.t = "RequestTx" -> receive_request_tx(s, from, m.tx)
      [] m.t = "Tx" -> receive_tx(s, from, m.tx)
      [] m.t = "AnnounceRB" -> receive_roll_forward(s, from, m.rb)
      [] m.t = "RequestRB" -> receive_request_block(s, from, m.rb)
      [] m.t = "RB" -> receive_block(s, from, m.rb)
      [] m.t = "AnnounceIBHeader" -> receive_announce_ib_header(s, from, m.ib)
      [] m.t = "RequestIBHeader" -> receive_request_ib_header(s, from, m.ib)
      [] m.t = "IBHeader" -> receive_ib_header(s, n, from, m)
      [] m.t = "AnnounceIB" -> receive_announce_ib(s, n, from, m.ib)
      [] m.t = "RequestIB" -> receive_request_ib(s, from, m.ib)
      [] m.t = "IB" -> receive_ib(s, n, from, m.ib)
      [] m.t = "AnnounceEB" -> receive_announce_eb(s, from, m.eb)
      [] m.t = "RequestEB" -> receive_request_eb(s, from, m.eb)
      [] m.t = "EB" -> receive_eb(s, from, m.eb)
      [] m.t = "AnnounceVotes" -> receive_announce_votes(s, from, m.id)
      [] m.t = "RequestVotes" -> receive_request_votes(s, from, m.id)
      [] m.t = "Votes" -> receive_votes(s, from, m.votes)

handle_cpu_task(s, n, c) ==
    CASE c.t = "TransactionValidated" -> propagate_tx(s, n, c.from, c.tx)
      [] c.t = "RBBlockGenerated" -> publish_block(s, n, c.rb)
      [] c.t = "RBBlockValidated" -> finish_validating_block(s, n, c.from, c.rb)
      [] c.t = "IBBlockGenerated" -> finish_generating_ib(s, n, c.ib)
      [] c.t = "IBHeaderValidated" -> finish_validating_ib_header(s, n, c.from, c.ib, c.has_body)
      [] c.t = "IBBlockValidated" -> finish_validating_ib(s, n, c.from, c.ib)
      [] c.t = "EBBlockGenerated" -> finish_generating_eb(s, n, c.eb)
      [] c.t = "EBBlockValidated" -> finish_validating_eb(s, n, c.from, c.eb)
      [] c.t = "VTBundleGenerated" -> finish_generating_vote_bundle(s, n, c.votes)
      [] c.t = "VTBundleValidated" -> finish_validating_vote_bundle(s, n, c.from, c.votes)

(* A stage starts with the draws, the EBs and the votes; every slot may    *)
(* bring IBs and a ranking block.                                          *)
handle_new_slot(n) ==
    /\ node[n].slot < now
    /\ \E delay \in 0..(VoteSlots - 1) :
         LET s == [node[n] EXCEPT !.slot = now]
             starts == now % StageLength = 0
             scheduled == schedule_endorser_block_votes(s, n, now, delay)
             drawn == schedule_input_block_generation(generate_endorser_blocks(scheduled, n, now), n, now)
             ready == generate_input_blocks(IF starts THEN vote_for_endorser_blocks(drawn, n, now) ELSE s, n, now)
         IN  /\ Commit(n, try_generate_praos_block(ready.s, n, now), net, tasks, timers)
             /\ minted' = [minted EXCEPT
                  !.ib = IF ready.ibs = <<>> THEN @ ELSE [i \in DOMAIN @ \cup DOMAIN ready.ibs |-> Get(ready.ibs, i, Get(@, i, 0))],
                  !.eb = IF starts /\ MintsEb(n, now) THEN SetAt(@, <<now, n>>, NewEb(scheduled, now)) ELSE @,
                  !.rb = IF <<now, n>> \in Wins THEN SetAt(@, <<now, n>>, NewRb(ready.s, now)) ELSE @]
    /\ UNCHANGED <<now, submitted>>

handle_new_tx(n) ==
    \E t \in Generated(n) \ submitted[n] :
        /\ submitted' = [submitted EXCEPT ![n] = @ \cup {t}]
        /\ Commit(n, generate_tx(node[n], n, t), net, tasks, timers)
        /\ UNCHANGED <<now, minted>>

Deliver(n, from, p) ==
    /\ net[from][n][p] # <<>>
    /\ Commit(n, handle_message(node[n], n, from, Head(net[from][n][p])),
              [net EXCEPT ![from][n][p] = Tail(@)], tasks, timers)
    /\ UNCHANGED <<now, minted, submitted>>

FinishTask(n, c) ==
    /\ Commit(n, handle_cpu_task(node[n], n, c), net, [tasks EXCEPT ![n] = @ \ {c}], timers)
    /\ UNCHANGED <<now, minted, submitted>>

SlowSteps(n) ==
    \/ handle_new_tx(n)
    \/ \E c \in tasks[n] : FinishTask(n, c)
    \/ \E from \in Nodes, p \in Protocols : Deliver(n, from, p)

Quick == IF QuickTasks # {}
         THEN LET n == Min(QuickTasks) IN FinishTask(n, CHOOSE c \in tasks[n] : ~Slow(n, c.t))
         ELSE LET m == CHOOSE m \in QuickMessages : TRUE IN Deliver(m[1], m[2], m[3])
Next == IF Starting # {} THEN handle_new_slot(Min(Starting))
        ELSE IF QuickTasks # {} \/ QuickMessages # {} THEN Quick
        ELSE Tick \/ \E n \in Nodes : SlowSteps(n)

-----------------------------------------------------------------------------
Equivocated(i) == \E j \in DOMAIN minted.ib : j # i /\ Ib(j).vrf = Ib(i).vrf
(* When nothing is left to deliver or to finish, every node holds every IB *)
(* that was not equivocated, and no peer is left with a request open or    *)
(* waiting, whatever order headers, announcements and bodies came in and   *)
(* however few requests a peer takes at a time.                            *)
IbsReach == Settled => \A n \in Nodes :
    /\ \A i \in DOMAIN minted.ib : Equivocated(i) \/ HasIb(node[n], i)
    /\ \A p \in DOMAIN node[n].requests : node[n].requests[p] = [pending |-> <<>>, active |-> {}]

(* Two IBs with the same VRF are seen by all: each honest node has, when   *)
(* nothing is left to deliver, the headers that prove the equivocation.    *)
EquivocationProven == Settled => \A n \in Nodes : \A i \in DOMAIN minted.ib :
    Equivocated(i) => Len(Get(node[n].by_vrf, Ib(i).vrf, <<>>)) >= 2

(* The Leios mempool is within that of Praos, which can fall back on all   *)
(* of it, and no two transactions of that one spend the same input.        *)
PoolsNest == \A n \in Nodes :
    /\ node[n].leios \subseteq node[n].praos
    /\ \A t, u \in node[n].praos : InputOf(t) = InputOf(u) => t = u
=============================================================================
