----------------------------- MODULE TxMonitor ------------------------------
(***************************************************************************)
(* What the simulator reports about transactions: the monitor that counts  *)
(* them and settles slot battles (sim-cli/events.rs), the liveness monitor *)
(* in front of it, which reports transactions as lost (events/liveness.rs) *)
(* and the aggregator of the trace (events/aggregate.rs).  The simulation  *)
(* is the environment: it emits the events below once each, in any order   *)
(* in which a block comes after what it refers to, an endorsement after    *)
(* enough votes, and no block before its slot; the `unwrap`s of the        *)
(* monitors rest on this order.  Only what concerns transactions and       *)
(* blocks is modelled here.                                                *)
(***************************************************************************)
EXTENDS Naturals, FiniteSetsExt, Functions

CONSTANTS
    Txs,           \* transactions
    Ibs,           \* input blocks: records of pipeline and txs
    Ebs,           \* endorser blocks: records of pipeline, txs, ibs and ebs
    Rbs,           \* ranking blocks: records of slot, producer, vrf, txs and eb
    IbOf(_),       \* the contents of an input block
    EbOf(_),       \* the contents of an endorser block
    RbOf(_),       \* the contents of a ranking block, eb = "none" if it endorses none
    Threshold,     \* the votes that certify an endorser block
    StageLength,   \* slots of a pipeline stage
    MaxSlot

VARIABLES
    slot,          \* the slot the simulation is in
    emitted,       \* the events it has emitted
    votes,         \* the votes it has cast, by endorser block
    live,          \* the liveness monitor: what it knows of its transactions
    libs, lebs,    \* and the blocks it still knows
    lost,          \* how often it has reported a transaction as lost
    type,          \* the monitor: how a transaction was finalized
    included,      \* the endorser blocks that are on chain
    blocks,        \* the winner of every slot
    published, rejected,  \* by producer
    status         \* the aggregator: the status of every transaction

sim == <<slot, emitted, votes>>
liveness == <<live, libs, lebs, lost>>
monitor == <<type, included, blocks, published, rejected>>
vars == <<sim, liveness, monitor, status>>

Producers == {RbOf(r).producer : r \in Rbs}

Init ==
    /\ slot = 0 /\ emitted = {} /\ votes = [e \in Ebs |-> 0]
    /\ live = << >> /\ libs = {} /\ lebs = {} /\ lost = [t \in Txs |-> 0]
    /\ type = << >> /\ included = {} /\ blocks = << >>
    /\ published = [p \in Producers |-> 0] /\ rejected = [p \in Producers |-> 0]
    /\ status = << >>

-----------------------------------------------------------------------------
\* Update the entries of f whose keys are in s; keys without entry are skipped.
Touch(f, s, Op(_)) == [k \in DOMAIN f |-> IF k \in s THEN Op(f[k]) ELSE f[k]]

Later(a, b) == IF a > b THEN a ELSE b

\* A status only moves forward.
Rank == [Created |-> 1, InIb |-> 2, InEb |-> 3, OnChain |-> 4]

Advance(s, ts, new) == Touch(s, ts, LAMBDA old : IF Rank[old] < Rank[new] THEN new ELSE old)

TXGenerated(t) ==
    /\ t \notin emitted
    /\ emitted' = emitted \union {t}
    /\ live' = [k \in DOMAIN live \union {t} |->
                   IF k = t THEN [lastIb |-> 0, lastEb |-> 0, ebs |-> {}, certified |-> {}]
                            ELSE live[k]]
    /\ type' = [k \in DOMAIN type \union {t} |-> IF k = t THEN "none" ELSE type[k]]
    /\ status' = [k \in DOMAIN status \union {t} |-> IF k = t THEN "Created" ELSE status[k]]
    /\ UNCHANGED <<slot, votes, libs, lebs, lost, included, blocks, published, rejected>>

\* Pipelines are counted from 1 here; 0 stands for none.
IBGenerated(i) ==
    LET ib == IbOf(i)
    IN  /\ i \notin emitted /\ ib.txs \subseteq emitted
        /\ (ib.pipeline - 1) * StageLength <= slot
        /\ emitted' = emitted \union {i}
        /\ live' = Touch(live, ib.txs, LAMBDA x : [x EXCEPT !.lastIb = Later(@, ib.pipeline)])
        /\ libs' = libs \union {i}
        /\ status' = Advance(status, ib.txs, "InIb")
        /\ UNCHANGED <<slot, votes, lebs, lost, monitor>>

\* The transactions an endorser block refers to, as far as the input blocks
\* are among known.
TxsOf(e, known) == EbOf(e).txs \union UNION {IbOf(i).txs : i \in EbOf(e).ibs \intersect known}

EBGenerated(e) ==
    LET eb == EbOf(e)
    IN  /\ e \notin emitted
        /\ (eb.txs \union eb.ibs \union eb.ebs) \subseteq emitted
        /\ (eb.pipeline - 1) * StageLength <= slot
        /\ emitted' = emitted \union {e}
        /\ live' = Touch(live, TxsOf(e, libs),
                         LAMBDA x : [x EXCEPT !.ebs = @ \union {e},
                                              !.lastEb = Later(@, eb.pipeline)])
        /\ lebs' = lebs \union {e}
        /\ status' = Advance(status, TxsOf(e, Ibs), "InEb")
        /\ UNCHANGED <<slot, votes, libs, lost, monitor>>

VTBundleGenerated(e) ==
    /\ e \in emitted /\ votes[e] < Threshold
    /\ votes' = [votes EXCEPT ![e] = @ + 1]
    /\ live' = IF e \in lebs /\ votes'[e] >= Threshold
               THEN Touch(live, TxsOf(e, libs),
                          LAMBDA x : [x EXCEPT !.certified = @ \union {e}])
               ELSE live
    /\ UNCHANGED <<slot, emitted, libs, lebs, lost, monitor, status>>

-----------------------------------------------------------------------------
\* The endorser blocks that an endorsed one brings on chain, except those that
\* are there already.
Chain(e, seen) ==
    LET reach[n \in 0 .. Cardinality(Ebs)] ==
            IF n = 0 THEN {e} \ seen
            ELSE reach[n - 1] \union (UNION {EbOf(x).ebs : x \in reach[n - 1]} \ seen)
    IN  reach[Cardinality(Ebs)]

\* The liveness monitor forgets the transactions of a ranking block.
Forget(r) ==
    LET rb == RbOf(r)
        gone == IF rb.eb = "none" THEN {} ELSE Chain(rb.eb, Ebs \ lebs)
    IN  /\ live' = Restrict(live, {t \in DOMAIN live :
                                       t \notin rb.txs /\ live[t].ebs \intersect gone = {}})
        /\ lebs' = lebs \ gone
        /\ libs' = libs \ UNION {EbOf(e).ibs : e \in gone}

\* The first block with a transaction says how it was finalized; an endorsement
\* comes before the block's own transactions.
Finalize(r) ==
    LET rb == RbOf(r)
        new == IF rb.eb = "none" THEN {} ELSE Chain(rb.eb, included)
        leios == UNION {TxsOf(e, Ibs) : e \in new}
    IN  /\ included' = included \union new
        /\ type' = [t \in DOMAIN type |->
                       IF type[t] # "none" THEN type[t]
                       ELSE IF t \in leios THEN "Leios"
                       ELSE IF t \in rb.txs THEN "Praos" ELSE "none"]

(* Mutant: the block that loses its slot keeps its count. *)
MutBattle(r) ==
    LET rb == RbOf(r)
        fresh == rb.slot \notin DOMAIN blocks
        wins == fresh \/ blocks[rb.slot].vrf > rb.vrf
    IN  /\ blocks' = IF wins THEN [s \in DOMAIN blocks \union {rb.slot} |->
                                      IF s = rb.slot THEN [by |-> rb.producer, vrf |-> rb.vrf]
                                                     ELSE blocks[s]]
                     ELSE blocks
        /\ published' = IF wins THEN [published EXCEPT ![rb.producer] = @ + 1] ELSE published
        /\ rejected' = IF fresh THEN rejected
                       ELSE [rejected EXCEPT ![IF wins THEN blocks[rb.slot].by
                                                       ELSE rb.producer] = @ + 1]

\* The block with the lowest VRF value takes the slot.
Battle(r) ==
    LET rb == RbOf(r)
        fresh == rb.slot \notin DOMAIN blocks
        wins == fresh \/ blocks[rb.slot].vrf > rb.vrf
        loser == IF wins THEN blocks[rb.slot].by ELSE rb.producer
    IN  /\ blocks' = IF wins THEN [s \in DOMAIN blocks \union {rb.slot} |->
                                      IF s = rb.slot THEN [by |-> rb.producer, vrf |-> rb.vrf]
                                                     ELSE blocks[s]]
                     ELSE blocks
        /\ published' = CASE fresh          -> [published EXCEPT ![rb.producer] = @ + 1]
                          [] ~fresh /\ wins -> [[published EXCEPT ![rb.producer] = @ + 1]
                                                   EXCEPT ![loser] = @ - 1]
                          [] OTHER          -> published
        /\ rejected' = IF fresh THEN rejected ELSE [rejected EXCEPT ![loser] = @ + 1]

\* The aggregator puts the block's transactions on chain, and those of the
\* input blocks of the block it endorses.
RBGenerated(r) ==
    LET rb == RbOf(r)
    IN  /\ r \notin emitted /\ rb.slot = slot
        /\ rb.txs \subseteq emitted
        /\ \A t \in rb.txs : type[t] = "none" \/ slot \in DOMAIN blocks
        /\ rb.eb # "none" => rb.eb \in emitted /\ votes[rb.eb] >= Threshold
        /\ emitted' = emitted \union {r}
        /\ Forget(r)
        /\ Finalize(r)
        /\ Battle(r)
        /\ status' = Touch(status,
                           rb.txs \union (IF rb.eb = "none" THEN {}
                                          ELSE UNION {IbOf(i).txs : i \in EbOf(rb.eb).ibs}),
                           LAMBDA old : "OnChain")
        /\ UNCHANGED <<slot, votes, lost>>

\* At the start of a pipeline, the transactions whose blocks are too old are
\* reported as lost.
handle_new_pipeline(pipeline) ==
    LET gone == {t \in DOMAIN live :
                    \/ /\ live[t].ebs = {}
                       /\ live[t].lastIb > 0 /\ live[t].lastIb - 1 + 4 < pipeline
                    \/ /\ live[t].certified = {}
                       /\ live[t].lastEb > 0 /\ live[t].lastEb - 1 + 1 < pipeline}
    IN  /\ live' = Restrict(live, DOMAIN live \ gone)
        /\ lost' = [t \in Txs |-> IF t \in gone THEN lost[t] + 1 ELSE lost[t]]

GlobalSlot ==
    /\ slot < MaxSlot
    /\ slot' = slot + 1
    /\ IF slot' % StageLength = 0 THEN handle_new_pipeline(slot' \div StageLength)
                                  ELSE UNCHANGED <<live, lost>>
    /\ UNCHANGED <<emitted, votes, libs, lebs, monitor, status>>

Next ==
    \/ \E t \in Txs : TXGenerated(t)
    \/ \E i \in Ibs : IBGenerated(i)
    \/ \E e \in Ebs : EBGenerated(e) \/ VTBundleGenerated(e)
    \/ \E r \in Rbs : RBGenerated(r)
    \/ GlobalSlot

Spec == Init /\ [][Next]_vars

-----------------------------------------------------------------------------
OnChain == {t \in DOMAIN type : type[t] # "none"}

(* The liveness monitor follows exactly the transactions that are neither  *)
(* on chain nor reported as lost, although it keeps its own maps and       *)
(* forgets blocks while others still refer to them; and it reports no      *)
(* transaction twice.                                                      *)
LiveExact ==
    /\ DOMAIN live = {t \in DOMAIN type : type[t] = "none" /\ lost[t] = 0}
    /\ \A t \in Txs : lost[t] <= 1

(* Whatever the order of a slot's blocks, the one with the lowest VRF      *)
(* value is counted as published and all others as rejected, each once.    *)
BattlesSettled ==
    \A p \in Producers :
        LET mine == {r \in Rbs \intersect emitted : RbOf(r).producer = p}
            best == {r \in mine : \A q \in Rbs \intersect emitted :
                         RbOf(q).slot = RbOf(r).slot => RbOf(r).vrf <= RbOf(q).vrf}
        IN  /\ published[p] = Cardinality(best)
            /\ rejected[p] = Cardinality(mine \ best)

(* The trace shows a transaction on chain exactly when the monitor has     *)
(* counted it as finalized, unless an endorser block brings it there       *)
(* without an input block.                                                 *)
StatusAgrees ==
    (\A e \in Ebs : EbOf(e).txs = {} /\ EbOf(e).ebs = {})
    => {t \in DOMAIN status : status[t] = "OnChain"} = OnChain
=============================================================================
