--------------------------- MODULE Stracciatella ---------------------------
(***************************************************************************)
(* The Full Leios nodes without input blocks of the simulator (sim-core:   *)
(* sim/stracciatella.rs), as handlers of SimNode.  The lotteries are       *)
(* constants.  Transactions are numbered, a mempool offers the lowest      *)
(* first (not the Random strategy), and each takes one unit of room.       *)
(* minted.rb and minted.eb hold the contents of the blocks: an EB is       *)
(* <<slot, producer>>, and its pipeline follows from its slot.             *)
(***************************************************************************)
EXTENDS SimNode

CONSTANTS InputOf(_),
          Wins, EbWins,       \* <<slot, node>>: who wins these lotteries when
          VoteWins(_, _),     \* VoteWins(n, slot): how many votes n wins
          Vrf(_),             \* the VRF value of a ranking block
          Threshold,          \* vote_threshold
          StageLength, VoteSlots, \* stage_length, vote_slot_length
          Quality,            \* praos_chain_quality
          HeaderDiffusion, MaxEbAge,
          MaxBlock, MaxEb,
          ShardOf(_), Over,   \* the shard of a transaction, overcollateralization_factor
          Shards, ShardGroups, ShardPeriod,
          IncludePrevious,    \* eb_include_txs_from_previous_stage
          Aggressive,         \* mempool_aggressive_pruning
          Fallback            \* praos_fallback

new == [slot |-> 0, txs |-> <<>>, ledgers |-> <<>>,
        praos |-> {}, heads |-> <<>>, seen |-> {}, blocks |-> {}, by_slot |-> <<>>,
        leios |-> <<>>,     \* the Leios mempool: when each transaction was seen
        in_flight |-> {}, ebs |-> <<>>, by_pipeline |-> <<>>, cert_times |-> <<>>,
        to_vote |-> <<>>, votes_by_eb |-> <<>>, votes |-> <<>>,
        panicked |-> FALSE, \* what a panic! would have done
        out |-> Quiet, todo |-> {}, later |-> {}]

Init == Start(new) /\ minted = [rb |-> <<>>, eb |-> <<>>]

slot_to_pipeline(slot) == slot \div StageLength
PipelineOf(eb) == slot_to_pipeline(eb[1]) + 1
Rb(id) == minted.rb[id]
Eb(id) == minted.eb[id]
Inputs(txs) == {InputOf(t) : t \in ToSet(txs)}
has_tx(s, t) == Get(s.txs, t, "") = "Received"
HasEb(s, e) == e \in DOMAIN s.ebs /\ s.ebs[e].received
Tally(s, e) == SumFunction(Get(s.votes_by_eb, e, <<>>))
latest_rb(s) == Latest(s.blocks)

-----------------------------------------------------------------------------
(* The ledger and the mempools.                                            *)
RECURSIVE EbsSpend(_, _, _)
EbsSpend(s, ledger, queue) ==
    IF queue = {} THEN ledger
    ELSE LET e == CHOOSE e \in queue : TRUE
             marked == [ledger EXCEPT !.ebs = @ \cup {e}]
         IN  IF e \in ledger.ebs THEN EbsSpend(s, ledger, queue \ {e})
             ELSE IF ~HasEb(s, e) THEN EbsSpend(s, marked, queue \ {e})
             ELSE EbsSpend(s, [marked EXCEPT !.spent = @ \cup Inputs(Eb(e).txs)],
                           (queue \ {e}) \cup ToSet(Eb(e).ebs))
RECURSIVE ChainSpends(_, _, _)
ChainSpends(s, ledger, rb) ==
    LET marked == [ledger EXCEPT !.blocks = @ \cup {rb}]
        spent == [marked EXCEPT !.spent = @ \cup Inputs(Rb(rb).txs)]
    IN  IF rb = None \/ rb \in ledger.blocks THEN ledger
        ELSE IF rb \notin s.blocks THEN marked
        ELSE ChainSpends(s, EbsSpend(s, spent, {Rb(rb).endorsement} \ {None}), Rb(rb).parent)
(* From the ledger of the latest block resolved before.                    *)
resolve_ledger_state(s, rb) ==
    LET base == IF s.ledgers = <<>> THEN [spent |-> {}, blocks |-> {}, ebs |-> {}]
                ELSE s.ledgers[Latest(DOMAIN s.ledgers)]
    IN  IF rb = None \/ rb \in DOMAIN s.ledgers THEN s
        ELSE [s EXCEPT !.ledgers = SetAt(@, rb, ChainSpends(s, base, rb))]
Spent(s, rb) == IF rb = None THEN {} ELSE s.ledgers[rb].spent

Lowest(S, max) == SubSeq(SetToSortSeq(S, LAMBDA a, b : a < b), 1, Min({max, Cardinality(S)}))

SampledPraos(s) == Lowest(s.praos, MaxBlock)
sample_from_praos_mempool(s) ==
    LET txs == ToSet(SampledPraos(s)) IN [s EXCEPT !.praos = @ \ txs, !.leios = Drop(@, txs)]

(* The shards a transaction may go to are the Over that follow its own.    *)
can_include_tx(s, t, shard, pipeline) ==
    /\ s.leios[t] < pipeline * StageLength - StageLength
    /\ \E i \in 0..Over : (ShardOf(t) + i) % Shards = shard
SampledLeios(s, shard, pipeline) ==
    Lowest({t \in DOMAIN s.leios : can_include_tx(s, t, shard, pipeline)}, MaxEb)

remove_txs_from_mempools(s, txs) ==
    LET gone(t) == InputOf(t) \in Inputs(txs)
    IN  [s EXCEPT !.praos = {t \in @ : ~gone(t)}, !.leios = Drop(@, {t \in DOMAIN @ : gone(t)})]
remove_rb_txs_from_mempools(s, rb) ==
    LET e == Rb(rb).endorsement
    IN  remove_txs_from_mempools(s, Rb(rb).txs \o IF e # None /\ HasEb(s, e) THEN Eb(e).txs ELSE <<>>)
remove_eb_txs_from_mempools(s, e) ==
    LET flying == s.in_flight \cup Inputs(Eb(e).txs)
        kept == [s EXCEPT !.leios = Drop(@, ToSet(Eb(e).txs))]
    IN  IF Aggressive
        THEN [kept EXCEPT !.in_flight = flying, !.leios = Drop(@, {t \in DOMAIN @ : InputOf(t) \in flying})]
        ELSE kept

(* The EB and those it refers to, without the ones finalized before.       *)
RECURSIVE Endorses(_, _, _)
Endorses(s, queue, found) ==
    LET next == {e \in queue \ found : HasEb(s, e) /\ ~s.ebs[e].finalized}
    IN  IF next = {} THEN found
        ELSE Endorses(s, UNION {ToSet(Eb(e).ebs) : e \in next}, found \cup next)
remove_endorsed_txs_from_mempools(s, e) ==
    LET all == Endorses(s, {e}, {})
        final == [s EXCEPT !.ebs = [x \in DOMAIN @ |-> IF x \in all THEN [@[x] EXCEPT !.finalized = TRUE] ELSE @[x]]]
    IN  remove_txs_from_mempools(final, FoldSet(LAMBDA x, acc : acc \o Eb(x).txs, <<>>, all))

-----------------------------------------------------------------------------
(* Transactions.                                                           *)
Unknown(f, k, pending) == k \notin DOMAIN f \/ (FromAll /\ f[k] = pending)
receive_announce_tx(s, from, t) ==
    IF Unknown(s.txs, t, "Pending")
    THEN send_to([s EXCEPT !.txs = SetAt(@, t, "Pending")], from, TxMsg("RequestTx", t)) ELSE s
receive_request_tx(s, from, t) == IF has_tx(s, t) THEN send_to(s, from, TxMsg("Tx", t)) ELSE s
receive_tx(s, from, t) == schedule_cpu_task(s, [t |-> "TransactionValidated", from |-> from, tx |-> t])
propagate_tx(s, n, from, t) ==
    LET held == [s EXCEPT !.txs = SetAt(@, t, "Received")]
        known == resolve_ledger_state(held, latest_rb(held))
        conflicts == \/ InputOf(t) \in Spent(known, latest_rb(known))
                     \/ \E u \in s.praos : InputOf(u) = InputOf(t)
        pooled == send_all([known EXCEPT !.praos = @ \cup {t}], Consumers(n) \ {from}, TxMsg("AnnounceTx", t))
    IN  IF has_tx(s, t) THEN s
        ELSE IF conflicts THEN known
        ELSE IF Aggressive /\ InputOf(t) \in s.in_flight THEN pooled
        ELSE [pooled EXCEPT !.leios = SetAt(@, t, now)]
generate_tx(s, n, t) == propagate_tx(s, n, n, t)

-----------------------------------------------------------------------------
(* Endorser blocks.                                                        *)
find_available_shards(slot) ==
    LET group == (slot \div ShardPeriod) % ShardGroups
        per_group == Shards \div ShardGroups
    IN  (group * per_group)..((group + 1) * per_group - 1)

count_txs_in_eb(s, e) == IF HasEb(s, e) THEN Len(Eb(e).txs) + 1 ELSE 0
Certified(s, e) == e \in DOMAIN s.votes_by_eb /\ Tally(s, e) >= Threshold
pipelines_for_eb_references(pipeline) ==
    LET oldest == (3 * Quality + StageLength - 1) \div StageLength
    IN  (IF pipeline < oldest THEN 0 ELSE pipeline - oldest)..(pipeline - 1)
choose_endorsed_block_from_pipeline(s, pipeline) ==
    LET ids == Get(s.by_pipeline, pipeline, <<>>)
        candidates == {e \in ToSet(ids) : Certified(s, e)}
        place(e) == CHOOSE i \in DOMAIN ids : ids[i] = e
    IN  IF candidates = {} THEN None
        ELSE Best(candidates, LAMBDA e : <<count_txs_in_eb(s, e), Tally(s, e), place(e)>>)
(* One certified EB from each of the pipelines, the oldest first.          *)
select_ebs_for_eb(s, pipeline) ==
    LET old == pipelines_for_eb_references(pipeline)
        chosen == {choose_endorsed_block_from_pipeline(s, p) : p \in old} \ {None}
    IN  SetToSortSeq(chosen, LAMBDA a, b : Above(b, a))

(* Those the first EB held of this very pipeline has come first.           *)
Previous(s, pipeline) ==
    LET held == SelectSeq(Get(s.by_pipeline, pipeline, <<>>), LAMBDA e : HasEb(s, e))
    IN  IF ~IncludePrevious \/ held = <<>> THEN <<>> ELSE SelectSeq(Eb(held[1]).txs, LAMBDA t : has_tx(s, t))
(* The content of the EB won in the slot, and the node that scheduled it.  *)
NewEb(s, n, slot, shard) ==
    LET pipeline == slot_to_pipeline(slot) + 1
    IN  [shard |-> shard, ebs |-> select_ebs_for_eb(s, pipeline),
         txs |-> Previous(s, pipeline) \o SampledLeios(s, shard, pipeline)]
generate_endorser_blocks(s, n, slot, shard) ==
    LET taken == ToSet(SampledLeios(s, shard, slot_to_pipeline(slot) + 1))
    IN  IF <<slot, n>> \notin EbWins THEN s
        ELSE schedule_cpu_task([s EXCEPT !.leios = Drop(@, taken)], [t |-> "EBBlockGenerated", eb |-> <<slot, n>>])

StoreEb(s, e) ==
    [s EXCEPT !.ebs = SetAt(@, e, [received |-> TRUE, finalized |-> FALSE]),
              !.by_pipeline = SetAt(@, PipelineOf(e), Append(Get(@, PipelineOf(e), <<>>), e))]
finish_generating_eb(s, n, e) == send_all(StoreEb(s, e), Consumers(n), EbMsg("AnnounceEB", e))
receive_announce_eb(s, from, e) ==
    IF e \notin DOMAIN s.ebs \/ (FromAll /\ ~s.ebs[e].received)
    THEN send_to([s EXCEPT !.ebs = SetAt(@, e, [received |-> FALSE])], from, EbMsg("RequestEB", e)) ELSE s
receive_request_eb(s, from, e) == IF HasEb(s, e) THEN send_to(s, from, EbMsg("EB", e)) ELSE s
receive_eb(s, from, e) == schedule_cpu_task(s, [t |-> "EBBlockValidated", from |-> from, eb |-> e])
MutValidatingEb(s, n, from, e) ==  (* Mutant: the body is validated and not kept. *)
    send_all([s EXCEPT !.by_pipeline = SetAt(@, PipelineOf(e), Append(Get(@, PipelineOf(e), <<>>), e))],
             Consumers(n) \ {from}, EbMsg("AnnounceEB", e))
finish_validating_eb(s, n, from, e) ==
    IF HasEb(s, e) THEN s
    ELSE send_all(StoreEb(remove_eb_txs_from_mempools(s, e), e), Consumers(n) \ {from}, EbMsg("AnnounceEB", e))

-----------------------------------------------------------------------------
(* Votes.  The bundle of a node is <<slot, node>>.                         *)
schedule_endorser_block_votes(s, n, slot, delay) ==
    IF VoteWins(n, slot) = 0 THEN s ELSE [s EXCEPT !.to_vote = SetAt(@, slot + delay, VoteWins(n, slot))]

should_vote_for(s, e) ==
    LET expected == pipelines_for_eb_references(PipelineOf(e))
        actual == {PipelineOf(r) : r \in ToSet(Eb(e).ebs)}
        last(q) == (q + 1) * StageLength - 1
        cutoff(q) == IF last(q) < HeaderDiffusion THEN 0 ELSE last(q) - HeaderDiffusion
    IN  /\ \A t \in ToSet(Eb(e).txs) : has_tx(s, t)
        /\ \A q \in expected : q \in DOMAIN s.cert_times /\ s.cert_times[q] <= cutoff(q) => q \in actual
        /\ \A r \in ToSet(Eb(e).ebs) : Certified(s, r)

try_vote_for_endorser_blocks(s, n, slot) ==
    LET stage == slot \div StageLength
        done == [s EXCEPT !.to_vote = Drop(@, {slot})]
        ids == Get(s.by_pipeline, stage - 1, <<>>)
        ebs == {e \in ToSet(ids) : should_vote_for(s, e)}
    IN  IF slot \notin DOMAIN s.to_vote THEN s
        ELSE IF stage = 0 THEN done
        ELSE IF \E e \in ToSet(ids) : ~HasEb(s, e) THEN [done EXCEPT !.panicked = TRUE]
        ELSE IF ebs = {} THEN done
        ELSE schedule_cpu_task(done, [t |-> "VTBundleGenerated",
               votes |-> [id |-> <<slot, n>>, ebs |-> [e \in ebs |-> s.to_vote[slot] * Len(ids)]]])
(* There is nothing to vote for before pipeline 4.                         *)
vote_for_endorser_blocks(s, n, slot) ==
    IF slot_to_pipeline(slot) < 4 THEN s ELSE try_vote_for_endorser_blocks(s, n, slot)

(* Some EB of a pipeline is known to be certified once one voter alone     *)
(* reaches the bar, of at least `enough` votes.                            *)
CountVotes(s, v, enough) ==
    LET by(e) == Get(s.votes_by_eb, e, <<>>)
        total(e) == Get(by(e), v.id[2], 0) + v.ebs[e]
        certain == {PipelineOf(e) : e \in {x \in DOMAIN v.ebs : total(x) >= enough}}
    IN  [s EXCEPT !.votes_by_eb = [e \in DOMAIN @ \cup DOMAIN v.ebs |->
                                     IF e \in DOMAIN v.ebs THEN SetAt(by(e), v.id[2], total(e)) ELSE @[e]],
                  !.cert_times = [p \in DOMAIN @ \cup certain |-> Get(@, p, now)]]
HoldVotes(s, v) == [s EXCEPT !.votes = SetAt(@, v.id, [view |-> "Received", votes |-> v])]
Held(s, id) == id \in DOMAIN s.votes /\ s.votes[id].view = "Received"
finish_generating_vote_bundle(s, n, v) ==
    send_all(HoldVotes(CountVotes(s, v, Threshold + 1), v), Consumers(n), VoteMsg("AnnounceVotes", v.id))
receive_announce_votes(s, from, id) ==
    IF id \notin DOMAIN s.votes \/ (FromAll /\ ~Held(s, id))
    THEN send_to([s EXCEPT !.votes = SetAt(@, id, [view |-> "Requested"])], from, VoteMsg("RequestVotes", id)) ELSE s
receive_request_votes(s, from, id) ==
    IF Held(s, id) THEN send_to(s, from, [t |-> "Votes", votes |-> s.votes[id].votes]) ELSE s
receive_votes(s, from, v) == schedule_cpu_task(s, [t |-> "VTBundleValidated", from |-> from, votes |-> v])
finish_validating_vote_bundle(s, n, from, v) ==
    IF Held(s, v.id) THEN s
    ELSE send_all(HoldVotes(CountVotes(s, v, Threshold), v), Consumers(n) \ {from},
                  VoteMsg("AnnounceVotes", v.id))

-----------------------------------------------------------------------------
(* Ranking blocks.                                                         *)
choose_endorsed_block_for_rb(s, slot) ==
    LET forbidden == {Rb(rb).endorsement[1] : rb \in {b \in s.blocks : Rb(b).endorsement # None}}
        candidates == {e \in DOMAIN s.votes_by_eb :
                         slot - e[1] <= MaxEbAge /\ e[1] \notin forbidden /\ Tally(s, e) >= Threshold}
    IN  IF candidates = {} THEN None
        ELSE Best(candidates, LAMBDA e : <<e[1], count_txs_in_eb(s, e), Tally(s, e), e[2]>>)
Endorsing(s, slot) ==
    LET e == choose_endorsed_block_for_rb(s, slot)
    IN  IF e = None THEN s ELSE remove_endorsed_txs_from_mempools(s, e)
(* The content of the block won in the slot, and the node that scheduled it. *)
NewRb(s, slot) ==
    LET e == choose_endorsed_block_for_rb(s, slot)
    IN  [parent |-> latest_rb(s), endorsement |-> e, votes |-> IF e = None THEN <<>> ELSE s.votes_by_eb[e],
         txs |-> IF Fallback THEN SampledPraos(Endorsing(s, slot)) ELSE <<>>]
try_generate_rb(s, n, slot) ==
    LET ready == Endorsing(s, slot)
    IN  IF <<slot, n>> \notin Wins THEN s
        ELSE schedule_cpu_task(IF Fallback THEN sample_from_praos_mempool(ready) ELSE ready,
                               [t |-> "RBBlockGenerated", rb |-> <<slot, n>>])

publish_rb(s, n, rb) ==
    LET behind == {p \in Consumers(n) : Get(s.heads, p, 0) < rb[1]}
        told == send_all(remove_rb_txs_from_mempools(s, rb), behind, RbMsg("AnnounceRB", rb))
    IN  [told EXCEPT !.heads = [p \in DOMAIN @ \cup behind |-> IF p \in behind THEN rb[1] ELSE @[p]],
                     !.by_slot = SetAt(@, rb[1], rb), !.blocks = @ \cup {rb}]
receive_announce_rb(s, from, rb) ==
    IF rb \in s.seen THEN s ELSE send_to([s EXCEPT !.seen = @ \cup {rb}], from, RbMsg("RequestRB", rb))
receive_request_rb(s, from, rb) == IF rb \in s.blocks THEN send_to(s, from, RbMsg("RB", rb)) ELSE s
receive_rb(s, from, rb) == schedule_cpu_task(s, [t |-> "RBBlockValidated", from |-> from, rb |-> rb])
(* A slot battle: the lower VRF wins, and the other block is forgotten.    *)
finish_validating_rb(s, n, from, rb) ==
    LET old == Get(s.by_slot, rb[1], None)
    IN  IF old \in s.blocks /\ Vrf(old) <= Vrf(rb) THEN s
        ELSE publish_rb([s EXCEPT !.blocks = @ \ {old},
                                  !.heads = SetAt(@, from, Max({Get(@, from, 0), rb[1]}))], n, rb)

-----------------------------------------------------------------------------
handle_message(s, from, m) ==
    CASE m.t = "AnnounceTx" -> receive_announce_tx(s, from, m.tx)
      [] m.t = "RequestTx" -> receive_request_tx(s, from, m.tx)
      [] m.t = "Tx" -> receive_tx(s, from, m.tx)
      [] m.t = "AnnounceRB" -> receive_announce_rb(s, from, m.rb)
      [] m.t = "RequestRB" -> receive_request_rb(s, from, m.rb)
      [] m.t = "RB" -> receive_rb(s, from, m.rb)
      [] m.t = "AnnounceEB" -> receive_announce_eb(s, from, m.eb)
      [] m.t = "RequestEB" -> receive_request_eb(s, from, m.eb)
      [] m.t = "EB" -> receive_eb(s, from, m.eb)
      [] m.t = "AnnounceVotes" -> receive_announce_votes(s, from, m.id)
      [] m.t = "RequestVotes" -> receive_request_votes(s, from, m.id)
      [] m.t = "Votes" -> receive_votes(s, from, m.votes)

handle_cpu_task(s, n, c) ==
    CASE c.t = "TransactionValidated" -> propagate_tx(s, n, c.from, c.tx)
      [] c.t = "RBBlockGenerated" -> publish_rb(s, n, c.rb)
      [] c.t = "RBBlockValidated" -> finish_validating_rb(s, n, c.from, c.rb)
      [] c.t = "EBBlockGenerated" -> finish_generating_eb(s, n, c.eb)
      [] c.t = "EBBlockValidated" -> finish_validating_eb(s, n, c.from, c.eb)
      [] c.t = "VTBundleGenerated" -> finish_generating_vote_bundle(s, n, c.votes)
      [] c.t = "VTBundleValidated" -> finish_validating_vote_bundle(s, n, c.from, c.votes)

(* A stage starts with votes, EBs and the votes for EBs; every slot may    *)
(* bring a ranking block.                                                  *)
handle_new_slot(n) ==
    /\ node[n].slot < now
    /\ \E delay \in 0..(VoteSlots - 1), shard \in find_available_shards(now) :
         LET s == [node[n] EXCEPT !.slot = now]
             starts == now % StageLength = 0
             scheduled == schedule_endorser_block_votes(s, n, now, delay)
             voted == vote_for_endorser_blocks(generate_endorser_blocks(scheduled, n, now, shard), n, now)
             ready == IF starts THEN voted ELSE s
         IN  /\ Commit(n, try_generate_rb(ready, n, now), net, tasks, timers)
             /\ minted' = [minted EXCEPT
                  !.eb = IF starts /\ <<now, n>> \in EbWins THEN SetAt(@, <<now, n>>, NewEb(scheduled, n, now, shard)) ELSE @,
                  !.rb = IF <<now, n>> \in Wins THEN SetAt(@, <<now, n>>, NewRb(ready, now)) ELSE @]
    /\ UNCHANGED <<now, submitted>>

handle_new_tx(n) ==
    \E t \in Generated(n) \ submitted[n] :
        /\ submitted' = [submitted EXCEPT ![n] = @ \cup {t}]
        /\ Commit(n, generate_tx(node[n], n, t), net, tasks, timers)
        /\ UNCHANGED <<now, minted>>

Deliver(n, from, p) ==
    /\ net[from][n][p] # <<>>
    /\ Commit(n, handle_message(node[n], from, Head(net[from][n][p])),
              [net EXCEPT ![from][n][p] = Tail(@)], tasks, timers)
    /\ UNCHANGED <<now, minted, submitted>>

FinishTask(n, c) ==
    /\ Commit(n, handle_cpu_task(node[n], n, c), net, [tasks EXCEPT ![n] = @ \ {c}], timers)
    /\ UNCHANGED <<now, minted, submitted>>

SlowSteps(n) ==
    \/ handle_new_tx(n)
    \/ \E c \in tasks[n] : FinishTask(n, c)
    \/ \E from \in Nodes, p \in Protocols : Deliver(n, from, p)

Quick == IF QuickTasks # {}
         THEN LET n == Min(QuickTasks) IN FinishTask(n, CHOOSE c \in tasks[n] : ~Slow(n, c.t))
         ELSE LET m == CHOOSE m \in QuickMessages : TRUE IN Deliver(m[1], m[2], m[3])
Next == IF Starting # {} THEN handle_new_slot(Min(Starting))
        ELSE IF QuickTasks # {} \/ QuickMessages # {} THEN Quick
        ELSE Tick \/ \E n \in Nodes : SlowSteps(n)

-----------------------------------------------------------------------------
(* What the vote of a node panics without: an EB listed under its pipeline *)
(* has been received, whoever announced it and whatever order it came in.  *)
NeverPanics == \A n \in Nodes :
    /\ ~node[n].panicked
    /\ \A p \in DOMAIN node[n].by_pipeline : \A e \in ToSet(node[n].by_pipeline[p]) : HasEb(node[n], e)

(* Along a chain each pipeline is endorsed once at most, by whichever node *)
(* mints (the ranking blocks reaching it in order).                        *)
RECURSIVE Endorsed(_)
Endorsed(rb) == IF rb = None THEN <<>>
                ELSE Endorsed(Rb(rb).parent) \o IF Rb(rb).endorsement = None THEN <<>> ELSE <<Rb(rb).endorsement>>
EndorsedOnce ==
    \A rb \in DOMAIN minted.rb :
        LET es == Endorsed(rb) IN \A i, j \in DOMAIN es : PipelineOf(es[i]) = PipelineOf(es[j]) => i = j

(* The votes cast for an EB, by everyone.                                  *)
Cast(e) == LET bundles == UNION {{node[n].votes[id].votes : id \in {i \in DOMAIN node[n].votes : Held(node[n], i)}} : n \in Nodes}
           IN  SumFunction([v \in {b \in bundles : e \in DOMAIN b.ebs} |-> v.ebs[e]])
(* What goes on the chain was certified by a quorum of votes really cast,  *)
(* each bundle counted once however many copies came, and so was every EB  *)
(* that an EB refers to.                                                   *)
CertifiedOnly ==
    /\ \A rb \in DOMAIN minted.rb : Rb(rb).endorsement # None =>
         Threshold <= SumFunction(Rb(rb).votes) /\ SumFunction(Rb(rb).votes) <= Cast(Rb(rb).endorsement)
    /\ \A e \in DOMAIN minted.eb : \A r \in ToSet(Eb(e).ebs) : Cast(r) >= Threshold

(* The Leios mempool is within that of Praos, which can fall back on all   *)
(* of it, and no two transactions of that one spend the same input.        *)
PoolsNest == \A n \in Nodes :
    /\ DOMAIN node[n].leios \subseteq node[n].praos
    /\ \A t, u \in node[n].praos : InputOf(t) = InputOf(u) => t = u

(* When nothing is left to deliver or to finish, every node holds every EB *)
(* and every bundle, and all agree on the block of each slot.              *)
AllReach == Settled => \A n \in Nodes :
    /\ \A e \in DOMAIN minted.eb : HasEb(node[n], e)
    /\ \A m \in Nodes : DOMAIN node[m].votes = DOMAIN node[n].votes /\ node[m].blocks = node[n].blocks

=============================================================================
