-------------------------- MODULE SharedConsensus ---------------------------
(***************************************************************************)
(* The nodes of the simulator that run the shared consensus crate          *)
(* (sim-core: sim/shared_consensus.rs), as handlers of SimNode.  The       *)
(* adapter is modelled whole; the state machines it drives, MempoolState,  *)
(* PraosState, LeiosState and Elections, are reduced to the calls it makes *)
(* and the effects it acts on.  It drops those that fetch; the selection   *)
(* over the peers' header chains that asks for them decides nothing more   *)
(* while bodies arrive in the order of the chain, and is left out.         *)
(* Elections are keyed by the EB, which has the identity of the block that *)
(* announces it.  The nodes are honest, hold persistent seats or none, and *)
(* a transaction takes one unit of room.                                   *)
(***************************************************************************)
EXTENDS SimNode

CONSTANTS Wins,           \* <<slot, node>>: who wins the RB lottery when
          Seats(_),       \* the persistent seats of a node
          Quorum,         \* the weight that certifies an EB
          DeltaHdr, VoteWindow, DiffuseWindow, \* the pipeline, in slots
          Retry,          \* retry_vote_in_window
          Capacity,       \* of the mempool, in transactions
          MaxBlock, MaxEb,
          PruneEvery,     \* the period of prune_chain_state (100 slots)
          ChainKeep,      \* the slots it keeps (five pipeline windows, at least 50)
          TxMaxAge        \* linear_tx_max_age_slots

VotingEnd == 3 * DeltaHdr + VoteWindow
CertEligible == VotingEnd + DiffuseWindow

new == [slot |-> 0, pool |-> <<>>, pinned |-> {}, applied |-> {},
        tx_arcs |-> {}, known |-> {}, tx_seen |-> <<>>,
        rbs |-> <<>>, ebs |-> <<>>, pending |-> <<>>, missing |-> <<>>,
        votes |-> {}, asked |-> {}, votes_by_eb |-> <<>>,
        elections |-> <<>>, valid |-> {}, gate |-> {}, manifests |-> {}, tip |-> None,
        headers |-> <<>>, cache |-> {}, submitted |-> {}, adopted |-> None,
        done |-> {},  \* the blocks applied (history)
        out |-> Quiet, todo |-> {}, later |-> {}]

Init == Start(new) /\ minted = <<>>

Below(S, min) == {id \in S : id[1] < min}
Since(slot, span) == IF slot > span THEN slot - span ELSE 0
Txs(e) == minted[e].eb
Announces(rb) == rb # None /\ minted[rb].eb # <<>>
HasBody(s, rb) == rb \in DOMAIN s.rbs /\ s.rbs[rb] = "Received"
HasHeader(s, rb) == rb \in DOMAIN s.rbs /\ s.rbs[rb] # "HeaderPending"
HasEb(s, e) == e \in DOMAIN s.ebs /\ s.ebs[e] \in {"Received", "Validated"}
local_has_tx(s, t) == t \in ToSet(s.pool) \cup s.pinned \cup s.tx_arcs

-----------------------------------------------------------------------------
(* The mempool.                                                            *)
admit_validated(s, t) ==
    IF t \in ToSet(s.pool) \cup s.applied THEN [fx |-> "AlreadyKnown", s |-> s]
    ELSE IF Len(s.pool) >= Capacity /\ s.pool # <<>>
    THEN [fx |-> "QueueFull", s |-> [s EXCEPT !.pool = Append(Tail(@), t)]]  \* the oldest is evicted
    ELSE [fx |-> "none", s |-> [s EXCEPT !.pool = Append(@, t)]]
Included(s, txs) == [s EXCEPT !.pool = SelectSeq(@, LAMBDA t : t \notin txs), !.applied = @ \cup txs]

(* Mutant: the transactions of the endorsed EB stay in the mempool.        *)
MutDrain(s, e) ==
    LET txs == ToSet(Txs(e)) IN [s EXCEPT !.known = @ \ txs, !.tx_seen = Drop(@, txs)]

drain_endorsed_eb(s, e) ==
    LET txs == ToSet(Txs(e))
    IN  [Included(s, txs) EXCEPT !.tx_arcs = @ \ txs, !.known = @ \ txs, !.tx_seen = Drop(@, txs)]

-----------------------------------------------------------------------------
(* Chain selection over the tree of the headers seen: a switch submits the *)
(* blocks above the common ancestor, in order, up to the first that is not *)
(* held or is submitted.  The lower producer wins a tie of slots.          *)
BetterTip(a, b) == b = None \/ a[1] > b[1] \/ (a[1] = b[1] /\ a[2] < b[2])
RECURSIVE Branch(_, _)
Branch(s, rb) == IF rb \in DOMAIN s.headers THEN Append(Branch(s, minted[rb].parent), rb) ELSE <<>>

(* `dispatch_praos_effects`, of a ValidatorApply: the block has to be held *)
(* in rbs at this moment.                                                  *)
dispatch_praos_effects(s, rb) ==
    IF HasBody(s, rb) THEN schedule_cpu_task(s, [t |-> "RBBlockApplied", rb |-> rb]) ELSE s
Submit(s, rb) == dispatch_praos_effects([s EXCEPT !.adopted = rb, !.submitted = @ \cup {rb}], rb)
RECURSIVE SubmitAll(_, _)
SubmitAll(s, rbs) ==
    IF rbs = <<>> \/ Head(rbs) \notin s.cache \ s.submitted THEN s ELSE SubmitAll(Submit(s, Head(rbs)), Tail(rbs))

try_switch_to(s, tip) ==
    LET path == Branch(s, tip)
        old == ToSet(Branch(s, s.adopted))
        replay == SelectSeq(path, LAMBDA rb : rb \notin old)
        rooted == s.adopted = None /\ minted[path[1]].parent = None
    IN  IF tip = s.adopted \/ ~BetterTip(tip, s.adopted) THEN s
        ELSE IF ToSet(path) \cap old = {} /\ ~rooted THEN s
        ELSE SubmitAll(s, replay)
on_block_received(s, rb) ==
    IF rb \in s.cache THEN s ELSE try_switch_to([s EXCEPT !.cache = @ \cup {rb}], rb)
register_self_produced(s, rb) == Submit([s EXCEPT !.cache = @ \cup {rb}], rb)
BestTip(s) == CHOOSE rb \in DOMAIN s.headers : \A x \in DOMAIN s.headers : x = rb \/ BetterTip(rb, x)
on_block_applied(s, rb) ==
    LET settled == [s EXCEPT !.submitted = @ \ {rb}, !.done = @ \cup {rb}]
    IN  try_switch_to(settled, BestTip(settled))
note_header_first_seen(s, rb) ==
    [s EXCEPT !.headers = IF rb \in DOMAIN @ THEN @ ELSE SetAt(@, rb, s.slot)]

-----------------------------------------------------------------------------
(* Elections and votes.                                                    *)
Announced(s, e) ==
    IF e \in DOMAIN s.elections THEN s.elections
    ELSE SetAt(s.elections, e, [seen |-> s.slot, voted |-> FALSE, ballots |-> {}, quorum |-> FALSE])
update_chain_tip_ctx(s) ==
    [s EXCEPT !.tip = s.adopted,
              !.elections = IF Announces(s.adopted) THEN Announced(s, s.adopted) ELSE @]
record_eb_manifest_in_leios(s, e) == [s EXCEPT !.manifests = @ \cup {e}]
record_eb_validated_in_leios(s, e) == [s EXCEPT !.valid = @ \cup {e}, !.gate = @ \ {e}]
record_eb_in_leios(s, e) == record_eb_validated_in_leios(record_eb_manifest_in_leios(s, e), e)
on_chain_endorsement(s, e) ==
    IF e \in DOMAIN s.elections /\ e \in s.valid THEN s ELSE [s EXCEPT !.gate = @ \cup {e}]

WeightOf(voters) == MapThenSumSet(Seats, voters)
(* A vote for an EB without an election is not counted, only listed.       *)
record_vote_into_elections(s, v) ==
    LET ballots == s.elections[v.eb].ballots \cup {v.voter}
        listed == [s EXCEPT !.votes_by_eb = SetAt(@, v.eb, Get(@, v.eb, {}) \cup {v.voter})]
    IN  IF Seats(v.voter) = 0 THEN s
        ELSE IF v.eb \notin DOMAIN s.elections THEN listed
        ELSE [listed EXCEPT !.elections[v.eb].ballots = ballots,
                            !.elections[v.eb].quorum = @ \/ WeightOf(ballots) >= Quorum]

receive_announce_vote(s, from, v) ==
    IF v \in s.votes \/ (v \in s.asked /\ ~FromAll) THEN s
    ELSE send_to([s EXCEPT !.asked = @ \cup {v}], from, VoteMsg("RequestVote", v))
receive_request_vote(s, from, v) == IF v \in s.votes THEN send_to(s, from, VoteMsg("Vote", v)) ELSE s
finish_generating_vote(s, n, v) ==
    send_all(record_vote_into_elections([s EXCEPT !.votes = @ \cup {v}], v), Consumers(n), VoteMsg("AnnounceVote", v))
finish_validating_vote(s, n, from, v) ==
    IF v \in s.votes THEN s
    ELSE send_all(record_vote_into_elections([s EXCEPT !.votes = @ \cup {v}], v),
                  Consumers(n) \ {from}, VoteMsg("AnnounceVote", v))

Voting(s, e) == s.slot - e[1] >= 3 * DeltaHdr /\ s.slot - e[1] < VotingEnd /\ ~s.elections[e].voted
decide_vote(s, e) ==
    /\ s.elections[e].seen - e[1] < VotingEnd
    /\ s.tip = e
    /\ s.headers[e] < e[1] + DeltaHdr
    /\ e \in s.manifests => \A t \in ToSet(Txs(e)) : local_has_tx(s, t)
    /\ e \in s.valid
emit_vote(s, n, e) ==
    IF Seats(n) = 0 THEN s
    ELSE schedule_cpu_task(s, [t |-> "VoteGenerated", vote |-> [eb |-> e, voter |-> n]])
apply_leios_effects(s, n, cast) == FoldSet(LAMBDA e, a : emit_vote(a, n, e), s, cast)
(* `LeiosState::on_slot`: the votes, then nothing older than the tip stays. *)
on_slot(s, n) ==
    LET open == {e \in DOMAIN s.elections : Voting(s, e)}
        cast == {e \in open : decide_vote(s, e)}
        voted == apply_leios_effects(s, n, cast)
        settled == {e \in open : e \in cast \/ ~Retry \/ s.elections[e].seen - e[1] >= VotingEnd}
        old(S) == Below(S, s.tip[1])
    IN  [voted EXCEPT !.elections = Drop([e \in DOMAIN @ |-> [@[e] EXCEPT !.voted = @ \/ e \in settled]], old(DOMAIN @)),
                      !.valid = @ \ old(@), !.gate = @ \ old(@), !.manifests = @ \ old(@)]

-----------------------------------------------------------------------------
(* Transactions.                                                           *)

acknowledge_tx_for_pending_ebs(s, t) ==
    LET blocked == Get(s.missing, t, {}) \cap DOMAIN s.pending
        left == [e \in DOMAIN s.pending |-> s.pending[e] \ IF e \in blocked THEN {t} ELSE {}]
        free == {e \in blocked : left[e] = {}}
    IN  IF t \notin DOMAIN s.missing THEN s
        ELSE [s EXCEPT !.missing = Drop(@, {t}), !.pending = Drop(left, free),
                       !.todo = @ \cup {[t |-> "EBBlockValidated", eb |-> e] : e \in {x \in free : HasEb(s, x)}}]

Seen(s, t) == [s EXCEPT !.tx_seen = IF t \in DOMAIN @ THEN @ ELSE SetAt(@, t, s.slot)]
handle_new_tx_of(s, n, t) ==
    LET held == [s EXCEPT !.tx_arcs = @ \cup {t}, !.known = @ \cup {t}, !.tx_seen = SetAt(@, t, s.slot)]
    IN  acknowledge_tx_for_pending_ebs(
            send_all(admit_validated(held, t).s, Consumers(n), TxMsg("AnnounceTx", t)), t)
receive_announce_tx(s, from, t) ==
    IF t \in s.known THEN s
    ELSE send_to(Seen([s EXCEPT !.known = @ \cup {t}], t), from, TxMsg("RequestTx", t))
receive_request_tx(s, from, t) == IF t \in s.tx_arcs THEN send_to(s, from, TxMsg("Tx", t)) ELSE s
Validate(s, from, t) ==
    schedule_cpu_task(Seen([s EXCEPT !.tx_arcs = @ \cup {t}], t), [t |-> "TransactionValidated", from |-> from, tx |-> t])
receive_tx(s, from, t) == Validate(s, from, t)

(* A full mempool makes room and says so: the adapter takes it for a       *)
(* refusal of the transaction, which is forgotten unless an EB waits.      *)
transaction_validated(s, n, from, t) ==
    LET r == admit_validated(s, t)
        shared == acknowledge_tx_for_pending_ebs(send_all(r.s, Consumers(n) \ {from}, TxMsg("AnnounceTx", t)), t)
    IN  IF r.fx = "none" \/ (r.fx = "QueueFull" /\ t \in DOMAIN s.missing) THEN shared
        ELSE IF r.fx = "QueueFull"
        THEN [r.s EXCEPT !.tx_arcs = @ \ {t}, !.known = @ \ {t}, !.tx_seen = Drop(@, {t})]
        ELSE r.s
-----------------------------------------------------------------------------
(* Endorser blocks.                                                        *)
receive_announce_eb(s, from, e) ==
    IF HasEb(s, e) \/ (e \in DOMAIN s.ebs /\ s.ebs[e] = "Requested" /\ ~FromAll) THEN s
    ELSE send_to([s EXCEPT !.ebs = SetAt(@, e, "Requested")], from, EbMsg("RequestEB", e))
receive_request_eb(s, from, e) == IF HasEb(s, e) THEN send_to(s, from, EbMsg("EB", e)) ELSE s
OfferEb(s, peers, e) == send_all(send_all(s, peers, EbMsg("AnnounceEB", e)), peers, EbMsg("AnnounceEBTxs", e))

(* The EB waits for the transactions that are not held, and asks for them. *)
finish_validating_eb_header(s, n, from, e) ==
    LET stored == record_eb_manifest_in_leios([s EXCEPT !.ebs = SetAt(@, e, "Received")], e)
        told == OfferEb(stored, Consumers(n) \ {from}, e)
        lacking == {t \in ToSet(Txs(e)) : ~local_has_tx(s, t)}
        indexed == [t \in DOMAIN s.missing \cup lacking |-> Get(s.missing, t, {}) \cup IF t \in lacking THEN {e} ELSE {}]
    IN  IF HasEb(s, e) THEN s
        ELSE IF lacking = {} THEN schedule_cpu_task(told, [t |-> "EBBlockValidated", eb |-> e])
        ELSE send_to([told EXCEPT !.missing = indexed, !.pending = SetAt(@, e, lacking)],
                     from, [t |-> "RequestEBTxs", eb |-> e, txs |-> lacking])

finish_validating_eb(s, e) ==
    LET valid == record_eb_validated_in_leios([s EXCEPT !.ebs = SetAt(@, e, "Validated")], e)
    IN  IF e \in s.gate THEN schedule_cpu_task(valid, [t |-> "EBBlockApplied", eb |-> e]) ELSE valid
finish_applying_eb(s, e) == drain_endorsed_eb(s, e)

receive_announce_eb_txs(s, from, e) ==
    IF e \in DOMAIN s.pending /\ HasEb(s, e)
    THEN send_to(s, from, [t |-> "RequestEBTxs", eb |-> e, txs |-> s.pending[e]]) ELSE s
receive_request_eb_txs(s, from, e, wanted) ==
    IF HasEb(s, e) THEN send_to(s, from, [t |-> "EBTxs", eb |-> e, txs |-> wanted]) ELSE s
(* A transaction that is announced or known is not taken from here.        *)
receive_eb_txs(s, from, txs) ==
    FoldSet(LAMBDA t, a : Validate([a EXCEPT !.known = @ \cup {t}], from, t), s,
            {t \in txs : t \notin ToSet(s.pool) \cup s.pinned \cup s.known})

-----------------------------------------------------------------------------
(* Ranking blocks.                                                         *)
Rb(s, rb, view) == [s EXCEPT !.rbs = SetAt(@, rb, view)]
receive_announce_rb_header(s, from, rb) ==
    IF rb \notin DOMAIN s.rbs \/ (FromAll /\ s.rbs[rb] = "HeaderPending")
    THEN send_to(Rb(s, rb, "HeaderPending"), from, RbMsg("RequestRBHeader", rb)) ELSE s
receive_request_rb_header(s, from, rb) ==
    IF HasHeader(s, rb)
    THEN send_to(s, from, [t |-> "RBHeader", rb |-> rb, has_body |-> HasBody(s, rb)]) ELSE s
(* Whatever was known of the block, it is pending now.                     *)
finish_validating_rb_header(s, n, from, rb, has_body) ==
    LET noted == note_header_first_seen(s, rb)
        told == send_all(noted, Consumers(n) \ {from}, RbMsg("AnnounceRBHeader", rb))
    IN  IF has_body THEN send_to(Rb(told, rb, "Requested"), from, RbMsg("RequestRB", rb))
        ELSE Rb(told, rb, "Pending")
receive_announce_rb(s, from, rb) ==
    IF rb \in DOMAIN s.rbs /\ (s.rbs[rb] = "Pending" \/ (FromAll /\ s.rbs[rb] = "Requested"))
    THEN send_to(Rb(s, rb, "Requested"), from, RbMsg("RequestRB", rb)) ELSE s
receive_request_rb(s, from, rb) == IF HasBody(s, rb) THEN send_to(s, from, RbMsg("RB", rb)) ELSE s
finish_validating_rb(s, n, rb) ==
    on_block_received(send_all(Rb(s, rb, "Received"), Consumers(n), RbMsg("AnnounceRB", rb)), rb)

finish_applying_rb(s, rb) ==
    LET included == ToSet(minted[rb].txs)
        e == minted[rb].endorsement
        applied == [Included(on_block_applied(s, rb), included) EXCEPT !.tx_arcs = @ \ included, !.known = @ \ included]
        endorsed == IF e = None THEN applied
                    ELSE IF e \in DOMAIN s.ebs /\ s.ebs[e] = "Validated"
                    THEN schedule_cpu_task(applied, [t |-> "EBBlockApplied", eb |-> e])
                    ELSE on_chain_endorsement(applied, e)
    IN  update_chain_tip_ctx(endorsed)

finish_generating_rb(s, n, rb) ==
    LET known == note_header_first_seen(Rb(s, rb, "Received"), rb)
        told == send_all(register_self_produced(known, rb), Consumers(n), RbMsg("AnnounceRBHeader", rb))
    IN  IF ~Announces(rb) THEN told
        ELSE OfferEb([record_eb_in_leios(told, rb) EXCEPT !.ebs = SetAt(@, rb, "Validated")], Consumers(n), rb)

-----------------------------------------------------------------------------
(* A new slot.                                                             *)
pick_parent(s) == s.adopted
try_build_endorsement(s) ==
    LET e == pick_parent(s)
    IN  IF /\ e # None /\ HasBody(s, e) /\ Announces(e)
           /\ s.slot - e[1] >= CertEligible
           /\ e \in DOMAIN s.elections /\ s.elections[e].quorum
           /\ e \in DOMAIN s.votes_by_eb
        THEN e ELSE None

(* `BodyPath::decide`: how many go into the block, and then into an EB.    *)
Fit(len, max) == IF len = 0 THEN 0 ELSE Max({1, Min({len, max})})
decide(s, endorsed) ==
    LET len == Len(s.pool)
        inline == IF endorsed \/ (len > MaxBlock /\ MaxBlock = 0) THEN 0 ELSE Fit(len, MaxBlock)
    IN  IF s.gate # {} THEN <<0, 0>>
        ELSE <<inline, IF len > MaxBlock THEN Fit(len - inline, MaxEb) ELSE 0>>

(* A transaction without its body is left out.                             *)
collect_arcs(s, txs) == SelectSeq(txs, LAMBDA t : t \in s.tx_arcs)

try_produce_rb(s, n) ==
    LET e == try_build_endorsement(s)
        ready == IF e = None THEN s
                 ELSE IF e \in DOMAIN s.ebs /\ s.ebs[e] = "Validated" THEN drain_endorsed_eb(s, e)
                 ELSE on_chain_endorsement(s, e)
        count == decide(ready, e # None)
        rest == SubSeq(ready.pool, count[1] + 1, Len(ready.pool))
        manifest == SubSeq(rest, 1, count[2])
        taken == [ready EXCEPT !.pool = SubSeq(rest, count[2] + 1, Len(rest)), !.pinned = @ \cup ToSet(manifest)]
    IN  [s |-> schedule_cpu_task(taken, [t |-> "RBBlockGenerated", rb |-> <<s.slot, n>>]),
         rb |-> [parent |-> pick_parent(ready), txs |-> collect_arcs(s, SubSeq(ready.pool, 1, count[1])),
                 eb |-> collect_arcs(s, manifest), endorsement |-> e,
                 votes |-> IF e = None THEN {} ELSE s.votes_by_eb[e]]]

prune_chain_state(s) ==
    LET cutoff == Since(s.slot, ChainKeep)
        kept(f) == Drop(f, Below(DOMAIN f, cutoff))
        waits == [t \in DOMAIN s.missing |-> s.missing[t] \ Below(s.missing[t], cutoff)]
        live == {t \in DOMAIN s.tx_seen : s.tx_seen[t] >= Since(s.slot, TxMaxAge) \/ t \in ToSet(s.pool)}
    IN  IF s.slot % PruneEvery # 0 THEN s
        ELSE [s EXCEPT !.rbs = kept(@), !.ebs = kept(@), !.votes_by_eb = kept(@), !.pending = kept(@),
                       !.votes = {v \in @ : v.eb[1] >= cutoff}, !.asked = {v \in @ : v.eb[1] >= cutoff},
                       !.missing = Drop(waits, {t \in DOMAIN waits : waits[t] = {}}),
                       !.tx_seen = Drop(@, DOMAIN @ \ live), !.tx_arcs = @ \cap live, !.known = @ \cap live]

-----------------------------------------------------------------------------
handle_message(s, n, from, m) ==
    CASE m.t = "AnnounceTx" -> receive_announce_tx(s, from, m.tx)
      [] m.t = "RequestTx" -> receive_request_tx(s, from, m.tx)
      [] m.t = "Tx" -> receive_tx(s, from, m.tx)
      [] m.t = "AnnounceRBHeader" -> receive_announce_rb_header(s, from, m.rb)
      [] m.t = "RequestRBHeader" -> receive_request_rb_header(s, from, m.rb)
      [] m.t = "RBHeader" -> schedule_cpu_task(s, [t |-> "RBHeaderValidated", from |-> from,
                                                   rb |-> m.rb, has_body |-> m.has_body])
      [] m.t = "AnnounceRB" -> receive_announce_rb(s, from, m.rb)
      [] m.t = "RequestRB" -> receive_request_rb(s, from, m.rb)
      [] m.t = "RB" -> schedule_cpu_task(s, [t |-> "RBBlockValidated", rb |-> m.rb])
      [] m.t = "AnnounceEB" -> receive_announce_eb(s, from, m.eb)
      [] m.t = "RequestEB" -> receive_request_eb(s, from, m.eb)
      [] m.t = "EB" -> schedule_cpu_task(s, [t |-> "EBHeaderValidated", from |-> from, eb |-> m.eb])
      [] m.t = "AnnounceEBTxs" -> receive_announce_eb_txs(s, from, m.eb)
      [] m.t = "RequestEBTxs" -> receive_request_eb_txs(s, from, m.eb, m.txs)
      [] m.t = "EBTxs" -> receive_eb_txs(s, from, m.txs)
      [] m.t = "AnnounceVote" -> receive_announce_vote(s, from, m.id)
      [] m.t = "RequestVote" -> receive_request_vote(s, from, m.id)
      [] m.t = "Vote" -> schedule_cpu_task(s, [t |-> "VoteValidated", from |-> from, vote |-> m.id])

handle_cpu_task(s, n, c) ==
    CASE c.t = "TransactionValidated" -> transaction_validated(s, n, c.from, c.tx)
      [] c.t = "RBBlockGenerated" -> finish_generating_rb(s, n, c.rb)
      [] c.t = "RBHeaderValidated" -> finish_validating_rb_header(s, n, c.from, c.rb, c.has_body)
      [] c.t = "RBBlockValidated" -> finish_validating_rb(s, n, c.rb)
      [] c.t = "RBBlockApplied" -> finish_applying_rb(s, c.rb)
      [] c.t = "EBHeaderValidated" -> finish_validating_eb_header(s, n, c.from, c.eb)
      [] c.t = "EBBlockValidated" -> finish_validating_eb(s, c.eb)
      [] c.t = "EBBlockApplied" -> finish_applying_eb(s, c.eb)
      [] c.t = "VoteGenerated" -> finish_generating_vote(s, n, c.vote)
      [] c.t = "VoteValidated" -> finish_validating_vote(s, n, c.from, c.vote)

handle_new_slot(n) ==
    LET s == on_slot(prune_chain_state([node[n] EXCEPT !.slot = now]), n)
        wins == <<now, n>> \in Wins
        r == try_produce_rb(s, n)
    IN  /\ node[n].slot < now
        /\ Commit(n, IF wins THEN r.s ELSE s, net, tasks, timers)
        /\ minted' = IF wins THEN SetAt(minted, <<now, n>>, r.rb) ELSE minted
        /\ UNCHANGED <<now, submitted>>

handle_new_tx(n) ==
    \E t \in Generated(n) \ submitted[n] :
        /\ submitted' = [submitted EXCEPT ![n] = @ \cup {t}]
        /\ Commit(n, handle_new_tx_of(node[n], n, t), net, tasks, timers)
        /\ UNCHANGED <<now, minted>>

Deliver(n, from, p) ==
    /\ net[from][n][p] # <<>>
    /\ Commit(n, handle_message(node[n], n, from, Head(net[from][n][p])),
              [net EXCEPT ![from][n][p] = Tail(@)], tasks, timers)
    /\ UNCHANGED <<now, minted, submitted>>

FinishTask(n, c) ==
    /\ Commit(n, handle_cpu_task(node[n], n, c), net, [tasks EXCEPT ![n] = @ \ {c}], timers)
    /\ UNCHANGED <<now, minted, submitted>>

SlowSteps(n) ==
    \/ handle_new_tx(n)
    \/ \E c \in tasks[n] : FinishTask(n, c)
    \/ \E from \in Nodes, p \in Protocols : Deliver(n, from, p)

Quick == IF QuickTasks # {}
         THEN LET n == Min(QuickTasks) IN FinishTask(n, CHOOSE c \in tasks[n] : ~Slow(n, c.t))
         ELSE LET m == CHOOSE m \in QuickMessages : TRUE IN Deliver(m[1], m[2], m[3])
Next == IF Starting # {} THEN handle_new_slot(Min(Starting))
        ELSE IF QuickTasks # {} \/ QuickMessages # {} THEN Quick
        ELSE Tick \/ \E n \in Nodes : SlowSteps(n)

-----------------------------------------------------------------------------
(* Every transaction of the mempool has its body in tx_arcs, where the     *)
(* producer takes it from.                                                 *)
PoolBacked == \A n \in Nodes : ToSet(node[n].pool) \subseteq node[n].tx_arcs

(* An EB that is not valid yet is being validated, or waits for exactly    *)
(* the transactions that the reverse index will release it for.            *)
WaitsIndexed ==
    \A n \in Nodes :
        LET s == node[n]
        IN  /\ \A e \in DOMAIN s.pending : s.pending[e] # {} /\ \A t \in s.pending[e] : e \in Get(s.missing, t, {})
            /\ \A t \in DOMAIN s.missing : \A e \in s.missing[t] : e \in DOMAIN s.pending /\ t \in s.pending[e]
            /\ \A e \in DOMAIN s.ebs : s.ebs[e] = "Received" =>
                    e \in DOMAIN s.pending \/ [t |-> "EBBlockValidated", eb |-> e] \in tasks[n]

(* When all is quiet every node has validated every EB.                    *)
EbsReach == Settled => \A n \in Nodes, e \in DOMAIN minted :
                          Announces(e) => e \in DOMAIN node[n].ebs /\ node[n].ebs[e] = "Validated"

(* When all is quiet every node has applied the chain of its adopted tip,  *)
(* and all have adopted the same.                                          *)
ChainsAgree == Settled => \A n, m \in Nodes :
                            /\ node[n].adopted = node[m].adopted
                            /\ ToSet(Branch(node[n], node[n].adopted)) \subseteq node[n].done

(* A certificate lists a quorum.                                           *)
CertSound == \A rb \in DOMAIN minted : minted[rb].endorsement # None => WeightOf(minted[rb].votes) >= Quorum

(* No transaction is twice on a chain, in blocks or in the EBs endorsed.   *)
RECURSIVE Carries(_)
Carries(rb) ==
    IF rb = None THEN <<>>
    ELSE LET e == minted[rb].endorsement
         IN  Carries(minted[rb].parent) \o minted[rb].txs \o IF e # None THEN Txs(e) ELSE <<>>
NoneTwice == \A rb \in DOMAIN minted : LET c == Carries(rb) IN \A i, j \in DOMAIN c : c[i] = c[j] => i = j
=============================================================================
