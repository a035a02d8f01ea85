------------------------------- MODULE EbFetch ------------------------------
(***************************************************************************)
(* How a node gets the bodies of endorser blocks and their transactions:   *)
(* the fetch half of LeiosState (shared-rs/consensus: leios.rs) over the   *)
(* candidate tracker and the policies of fetch.rs.                         *)
(*                                                                         *)
(* The node that wraps the state machine is not part of the repository: it *)
(* is modelled from what the documentation of the pub functions asks of it *)
(* (answers go through on_eb_txs_received, match_eb_tx_response and        *)
(* retry_eb_tx_fetch; every slot it restarts the postponed fetches and     *)
(* starts those of `ebs_needing_tx_fetch`).  A point is <<slot, hash>>, a  *)
(* bitmap is the set of manifest indices it selects, and peers are         *)
(* numbered in the order of their round-trip times.                        *)
(***************************************************************************)
EXTENDS Naturals, Bags, SequencesExt

CONSTANTS Peers,          \* in the order of their RTT
          Ebs,            \* the points <<slot, hash>>; hash > 0
          Manifest(_),    \* the indices of an EB
          Serves(_, _),   \* what of them a peer can answer
          Silent,         \* the peers that never answer
          Fanout,         \* LowestRttFirst: 1, BroadcastN: n, NoFetch: 0
          MaxWaves, TTL,  \* max_leios_fetch_txs_waves, IN_FLIGHT_TTL in slots
          Retention,      \* DEFAULT_EB_RETENTION_SLOTS
          Filtered, Hide, \* the EBs the control signal filters; hide_eb_tx
          Proactive,      \* the wrapper uses ebs_needing_tx_fetch
          LastSlot        \* bound on time

VARIABLES now, f, net, asked, gone

vars == <<now, f, net, asked, gone>>

Gate(e) == <<e[1], 0>>

CandidateTracker ==
    [eb_offers |-> [e \in Ebs |-> {}], eb_txs_offers |-> [e \in Ebs |-> {}],
     pending_eb |-> [e \in Ebs |-> {}], pending_txs |-> {}, attempts |-> [e \in Ebs |-> {}]]

Init ==
    /\ now = 1
    /\ f = CandidateTracker @@
           [in_flight |-> << >>, eb_tx_hashes |-> {}, pending_eb_tx |-> [e \in Ebs |-> {}],
            next_wave |-> {}, waves |-> [e \in Ebs |-> 0],
            tip |-> 0, announced |-> {}, has |-> [e \in Ebs |-> {}]]
    /\ net = EmptyBag       \* the requests not answered yet
    /\ asked = [e \in Ebs |-> [p \in Peers |-> 0]]  \* EB-tx requests since the wave began (history)
    /\ gone = {}

(* A result: the state, and the requests that go out.                      *)
Result(s, out) == [s |-> s, out |-> out]
Nothing(s) == Result(s, {})
EbRequest(p, e) == [t |-> "eb", peer |-> p, eb |-> e, want |-> {}]
TxsRequest(p, e, want) == [t |-> "txs", peer |-> p, eb |-> e, want |-> want]

Without(g, keys) == [k \in DOMAIN g \ keys |-> g[k]]
evict_stale_in_flight(s) ==
    [s EXCEPT !.in_flight = Without(@, {k \in DOMAIN @ : now - @[k] >= TTL})]
should_process_eb(e) == e \notin Filtered
should_hide_eb_received(e) == Hide /\ ~should_process_eb(e)

(* The policies: the peers with the lowest round-trip times.               *)
pick(c) == {p \in c : Cardinality({q \in c : q < p}) < Fanout}

available_eb_candidates(s, e) == s.eb_offers[e] \ s.pending_eb[e]
eb_txs_candidates(s, e) == (s.eb_txs_offers[e] \cup s.eb_offers[e]) \ s.attempts[e]

start_eb_txs_fetch(s, e, peers) ==
    IF e \in s.pending_txs THEN s
    ELSE [s EXCEPT !.pending_txs = @ \cup {e}, !.attempts[e] = @ \cup peers]
finish_eb_txs_fetch(s, e) == [s EXCEPT !.pending_txs = @ \ {e}]

-----------------------------------------------------------------------------
(* The body of an EB.                                                      *)

do_eb_fetch(s, e) ==
    LET t == evict_stale_in_flight(s)
        peers == pick(available_eb_candidates(t, e))
    IN  IF e \in DOMAIN t.in_flight \/ peers = {} THEN Nothing(t)
        ELSE Result([t EXCEPT !.pending_eb[e] = @ \cup peers, !.in_flight = (e :> now) @@ @],
                    {EbRequest(p, e) : p \in peers})

on_eb_offered(s, p, e) ==
    IF ~should_process_eb(e) THEN Nothing(s)
    ELSE do_eb_fetch([s EXCEPT !.eb_offers[e] = @ \cup {p}], e)

(* `finish_eb_fetch`, and what its callers do when no fetch remains.       *)
finish_eb_fetch(s, p, e) ==
    LET left == s.pending_eb[e] \ {p}
    IN  [s EXCEPT !.pending_eb[e] = left, !.in_flight = IF left = {} THEN Without(@, {e}) ELSE @]

on_eb_received(s, p, e) ==
    IF should_hide_eb_received(e) THEN s
    ELSE [finish_eb_fetch(s, p, e) EXCEPT !.eb_tx_hashes = @ \cup {e}]
on_eb_fetch_failed(s, p, e) == finish_eb_fetch(s, p, e)
retry_eb_fetch(s, e) == do_eb_fetch(s, e)

-----------------------------------------------------------------------------
(* The transactions of an EB.                                              *)
missing_eb_tx_bitmap(s, e) == IF e \in s.eb_tx_hashes THEN Manifest(e) \ s.has[e] ELSE {}

(* One fetch per slot at a time.  That the candidate tracker refuses the   *)
(* fetch, and then does not note the peers, goes unnoticed.                *)
initiate_eb_txs_fetch(s, e, bitmap) ==
    LET peers == pick(eb_txs_candidates(s, e))
    IN  IF \/ ~should_process_eb(e)
           \/ bitmap = {} \/ peers = {}
           \/ Gate(e) \in DOMAIN s.in_flight
        THEN Nothing(s)
        ELSE Result(start_eb_txs_fetch([s EXCEPT !.in_flight = (Gate(e) :> now) @@ @,
                                                 !.pending_eb_tx[e] = bitmap], e, peers),
                    {TxsRequest(p, e, bitmap) : p \in peers})

initiate_first_eb_txs_fetch(s, e, bitmap) ==
    IF MaxWaves = 0 \/ bitmap = {} THEN Nothing(s)
    ELSE initiate_eb_txs_fetch([s EXCEPT !.waves[e] = IF @ = 0 THEN 1 ELSE @], e, bitmap)

initiate_next_leios_fetch_txs_wave(s, e, bitmap) ==
    IF s.waves[e] = 0 \/ s.waves[e] >= MaxWaves THEN Nothing(s)
    ELSE initiate_eb_txs_fetch([s EXCEPT !.waves[e] = @ + 1, !.attempts[e] = {}], e, bitmap)

on_eb_txs_offered(s, p, e) ==
    LET t == [evict_stale_in_flight(s) EXCEPT !.eb_txs_offers[e] = @ \cup {p}]
    IN  IF MaxWaves = 0 \/ ~should_process_eb(e) THEN Nothing(s)
        ELSE initiate_first_eb_txs_fetch(t, e, missing_eb_tx_bitmap(s, e))

on_eb_txs_received(s, e) ==
    finish_eb_txs_fetch([s EXCEPT !.in_flight = Without(@, {Gate(e)})], e)

(* Mutant: what was not in the answer is forgotten.                        *)
MutMatchEbTxResponse(s, e, bodies) ==
    LET t == finish_eb_txs_fetch(s, e)
    IN  [s |-> [t EXCEPT !.pending_eb_tx[e] = {}, !.has[e] = @ \cup bodies], remaining |-> {}]
(* The bodies that match go to the mempool; what was asked for and is not  *)
(* among them remains.                                                     *)
match_eb_tx_response(s, e, bodies) ==
    LET t == finish_eb_txs_fetch(s, e)
        remaining == s.pending_eb_tx[e] \ bodies
    IN  IF e \notin s.eb_tx_hashes THEN [s |-> t, remaining |-> {}]
        ELSE [s |-> [t EXCEPT !.pending_eb_tx[e] = remaining, !.has[e] = @ \cup bodies],
              remaining |-> remaining]

retry_eb_tx_fetch(s, e, bitmap) ==
    LET peers == pick(eb_txs_candidates(s, e))
    IN  IF bitmap = {} THEN Nothing([s EXCEPT !.next_wave = @ \ {e}])
        ELSE IF peers = {} THEN Nothing([s EXCEPT !.next_wave = @ \cup {e}])
        ELSE IF e \in s.pending_txs THEN Nothing(s)
        ELSE Result(start_eb_txs_fetch(s, e, peers), {TxsRequest(p, e, bitmap) : p \in peers})

ebs_needing_tx_fetch(s) == {e \in s.eb_tx_hashes : e \in s.announced}

(* Chain progress makes the EBs below the tip worthless.                   *)
prune_chain_progress(s) ==
    LET old == {e \in Ebs : e[1] < s.tip}
        dead == {e \in Ebs : e[1] + Retention < s.tip}
        none(g, S) == [e \in Ebs |-> IF e \in S THEN {} ELSE g[e]]
    IN  [s EXCEPT !.eb_tx_hashes = @ \ old, !.next_wave = @ \ old, !.announced = @ \ old,
                  !.waves = [e \in Ebs |-> IF e \in old THEN 0 ELSE @[e]],
                  !.pending_eb_tx = none(@, old),
                  !.eb_offers = none(@, dead), !.eb_txs_offers = none(@, dead),
                  !.pending_eb = none(@, dead), !.attempts = none(@, dead), !.pending_txs = @ \ dead]

forget_peer(s, p) ==
    LET drop(g) == [e \in Ebs |-> g[e] \ {p}]
    IN  [s EXCEPT !.eb_offers = drop(@), !.eb_txs_offers = drop(@), !.attempts = drop(@), !.pending_eb = drop(@)]

-----------------------------------------------------------------------------
(* The steps.                                                              *)
Counted(a, out) ==
    [e \in Ebs |-> [p \in Peers |-> a[e][p] + Cardinality({r \in out : r.t = "txs" /\ r.eb = e /\ r.peer = p})]]
Take(r, n) ==
    /\ f' = r.s
    /\ net' = n (+) SetToBag(r.out)
    /\ asked' = Counted(asked, r.out)
    /\ UNCHANGED <<now, gone>>

BlockOffered(p, e) == e[1] <= now /\ Take(on_eb_offered(f, p, e), net)
BlockTxsOffered(p, e) == e[1] <= now /\ Take(on_eb_txs_offered(f, p, e), net)
RetryEb(e) == e \notin f.eb_tx_hashes /\ Take(retry_eb_fetch(f, e), net)

Arrived(r) == BagIn(r, net) /\ r.peer \notin Silent
BlockReceived(r) ==
    /\ Arrived(r) /\ r.t = "eb"
    /\ Take(Nothing(on_eb_received(f, r.peer, r.eb)), net (-) SetToBag({r}))
BlockFailed(r) ==
    /\ Arrived(r) /\ r.t = "eb"
    /\ Take(Nothing(on_eb_fetch_failed(f, r.peer, r.eb)), net (-) SetToBag({r}))
TxsReceived(r) ==
    LET m == match_eb_tx_response(on_eb_txs_received(f, r.eb), r.eb, r.want \cap Serves(r.peer, r.eb))
    IN  /\ Arrived(r) /\ r.t = "txs"
        /\ Take(retry_eb_tx_fetch(m.s, r.eb, m.remaining), net (-) SetToBag({r}))

(* A transaction comes by its own way.                                     *)
TxAdmitted(e) ==
    \E i \in Manifest(e) \ f.has[e] :
        /\ e \in f.eb_tx_hashes
        /\ Take(Nothing([f EXCEPT !.has[e] = @ \cup {i}]), net)

(* The tip of the chain announces e: its election opens.                   *)
set_chain_tip_context(e) ==
    /\ f.tip <= e[1] /\ e[1] <= now /\ e \notin f.announced
    /\ Take(Nothing([f EXCEPT !.tip = e[1], !.announced = @ \cup {e}]), net)

PeerGone(p) ==
    /\ f' = forget_peer(f, p)
    /\ net' = [r \in {x \in DOMAIN net : x.peer # p} |-> net[r]]
    /\ gone' = gone \cup {p}
    /\ UNCHANGED <<now, asked>>

(* Every slot: prune, restart what is postponed, start what is needed.     *)
Also(r, next) == Result(next.s, r.out \cup next.out)
on_slot ==
    LET pruned == prune_chain_progress(f)
        taken == [pruned EXCEPT !.next_wave = {}]
        wave(r, e) == Also(r, initiate_next_leios_fetch_txs_wave(r.s, e, missing_eb_tx_bitmap(r.s, e)))
        start(r, e) == Also(r, initiate_eb_txs_fetch(r.s, e, missing_eb_tx_bitmap(r.s, e)))
    IN  \E order \in SetToSeqs(pruned.next_wave) :
            LET restarted == FoldLeft(wave, Nothing(taken), order)
                needed == IF Proactive THEN ebs_needing_tx_fetch(taken) ELSE {}
                r == FoldSet(LAMBDA e, a : start(a, e), restarted, needed)
                fresh == [e \in Ebs |-> IF r.s.waves[e] # f.waves[e] THEN [p \in Peers |-> 0] ELSE asked[e]]
            IN  /\ now < LastSlot
                /\ now' = now + 1
                /\ f' = r.s
                /\ net' = net (+) SetToBag(r.out)
                /\ asked' = Counted(fresh, r.out)
                /\ UNCHANGED gone

Next ==
    \/ \E p \in Peers \ gone, e \in Ebs : BlockOffered(p, e) \/ BlockTxsOffered(p, e)
    \/ \E e \in Ebs : RetryEb(e) \/ TxAdmitted(e) \/ set_chain_tip_context(e)
    \/ \E r \in BagToSet(net) : BlockReceived(r) \/ BlockFailed(r) \/ TxsReceived(r)
    \/ \E p \in Peers \ gone : PeerGone(p)
    \/ on_slot

-----------------------------------------------------------------------------
Live(e) == e[1] + Retention >= f.tip
Outstanding(t, e) == {p \in Peers : \E r \in BagToSet(net) : r.t = t /\ r.eb = e /\ r.peer = p}

(* A peer has one active fetch per EB, and the tracker knows exactly which *)
(* peers those are; while the EB is in flight and no peer has left, some   *)
(* answer will free it.                                                    *)
OneFetchPerPeer ==
    \A e \in Ebs : Live(e) =>
        /\ f.pending_eb[e] = Outstanding("eb", e)
        /\ \A p \in Outstanding("eb", e) : CopiesIn(EbRequest(p, e), net) = 1
        /\ e \in DOMAIN f.in_flight /\ gone = {} => f.pending_eb[e] # {}

(* Within the waves allowed, no peer is asked twice for the transactions   *)
(* of an EB in one wave.                                                   *)
AskedOncePerWave ==
    \A e \in Ebs : /\ f.waves[e] <= MaxWaves
                   /\ \A p \in Peers : asked[e][p] <= 1

(* Nothing asked for gets lost: what is missing of an EB whose fetch has   *)
(* begun, and has not failed with a peer, is still asked for, postponed to *)
(* the next wave, or has used up its waves.                                *)
NoneLost ==
    \A e \in f.eb_tx_hashes \ Filtered :
        f.attempts[e] # {} /\ gone = {} /\ missing_eb_tx_bitmap(f, e) # {} =>
            \/ Outstanding("txs", e) # {}
            \/ e \in f.next_wave
            \/ f.waves[e] >= MaxWaves
=============================================================================
