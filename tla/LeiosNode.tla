----------------------------- MODULE LeiosNode ------------------------------
(***************************************************************************)
(* The Leios side of one node: voting on endorser blocks, collecting the   *)
(* votes of others and forging, as `LeiosState` (consensus/src/leios.rs)   *)
(* does when the simulator's adapter (sim-core/src/sim/                    *)
(* shared_consensus.rs) drives it.  Elections are keyed by the announcing  *)
(* block, as leios.rs asks of every adapter; the simulator, which has no   *)
(* equivocating pools, passes the EB's hash for it.  The fetching of EBs   *)
(* is left out: a manifest, a body's verdict and the transactions simply   *)
(* arrive, and a block's header arrives together with its body.  Chain     *)
(* selection is reduced to its outcome: a received block is adopted when   *)
(* it is better than the adopted tip, and blocks are applied later, in     *)
(* chain order.                                                            *)
(*                                                                         *)
(* The elections of Linear Leios (consensus/src/elections.rs, with         *)
(* pipeline.rs and aggregation.rs): one per ranking block that announces   *)
(* an endorser block (EB), keyed by the hash of that block.  The           *)
(* operators are the methods of `Elections`, as functions on the map.      *)
(***************************************************************************)
EXTENDS Blocks, FiniteSetsExt

CONSTANTS
    EB,             \* the hashes of the endorser blocks
    Announced,      \* Announced[h]: the EB that the header of h announces
    DeltaHdr,       \* the pipeline: `delta_hdr`, `vote_window` and
    VoteWindow,     \*   `diffuse_window`, in slots
    DiffuseWindow,
    Voter,          \* the node ids of the stake registry
    Mode,           \* `committee_selection`
    Seats,          \* `persistent_committee`: the seats of the seated voters
    Stake,          \* `stake_registry`
    NpvWins,        \* the wins of a voter's non-persistent lottery
    QuorumNum,      \* `quorum_weight_fraction` is QuorumNum / QuorumDen
    QuorumDen,
    ExpectedWeight  \* `expected_total_weight`

ASSUME PipelineAssumption ==
    /\ DeltaHdr \in Nat
    /\ VoteWindow \in Nat
    /\ DiffuseWindow \in Nat

(* The value 0 is a header without an announcement.                        *)
ASSUME AnnouncedAssumption ==
    /\ None \notin EB
    /\ Announced \in [Hash -> EB \cup {None}]

ASSUME CommitteeAssumption ==
    /\ Seats \in [DOMAIN Seats -> Nat]
    /\ Stake \in [Voter -> Nat]
    /\ NpvWins \in [Voter -> Nat]
    /\ QuorumNum \in Nat /\ QuorumDen \in Nat \ {0}
    /\ ExpectedWeight \in Nat

PV == 0
NPV == 1

Ballot == Voter \X {PV, NPV}

Phases == {"EquivocationCheck", "Voting", "Diffusing", "CertEligible"}

Election == [eb : EB, slot : Nat, phase : Phases, seen : Nat, voted : BOOLEAN,
             ballots : SUBSET Ballot, quorum : BOOLEAN, body : BOOLEAN]

EquivocationEnd == 3 * DeltaHdr
VotingEnd == EquivocationEnd + VoteWindow
DiffuseEnd == VotingEnd + DiffuseWindow

(* u64's `saturating_sub`.                                                 *)
Elapsed(now, since) == IF now >= since THEN now - since ELSE 0

(* Mutant: an EB may be certified while its votes still diffuse.           *)
MutPhaseForElapsed(elapsed) ==
    IF elapsed < EquivocationEnd THEN "EquivocationCheck"
    ELSE IF elapsed < VotingEnd THEN "Voting"
    ELSE "CertEligible"

PhaseForElapsed(elapsed) ==
    IF elapsed < EquivocationEnd THEN "EquivocationCheck"
    ELSE IF elapsed < VotingEnd THEN "Voting"
    ELSE IF elapsed < DiffuseEnd THEN "Diffusing"
    ELSE "CertEligible"

-----------------------------------------------------------------------------

(* `announce_from_rb` at slot `now`.                                       *)
AnnounceFromRb(es, h, now) ==
    IF h \in DOMAIN es THEN es
    ELSE [r \in DOMAIN es \cup {h} |->
            IF r \in DOMAIN es THEN es[r]
            ELSE [eb |-> Announced[h], slot |-> Slot[h],
                  phase |-> PhaseForElapsed(Elapsed(now, Slot[h])),
                  seen |-> now, voted |-> FALSE, ballots |-> {},
                  quorum |-> FALSE, body |-> FALSE]]

(* Every announcement of the EB has its body now.                          *)
MarkBodyValidated(es, eb) ==
    [r \in DOMAIN es |-> [es[r] EXCEPT !.body = @ \/ es[r].eb = eb]]

EbBodyValidated(es, eb) == \E r \in DOMAIN es : es[r].eb = eb /\ es[r].body

(* An election that wants this node's vote at slot `now`.                  *)
EligibleToVote(e, now) ==
    /\ PhaseForElapsed(Elapsed(now, e.slot)) = "Voting"
    /\ ~e.voted

(* Mutant: the election of the tip itself is dropped.                      *)
MutPruneBelowSlot(es, min) ==
    [r \in {x \in DOMAIN es : es[x].slot > min} |-> es[r]]

PruneBelowSlot(es, min) ==
    [r \in {x \in DOMAIN es : es[x].slot >= min} |-> es[r]]

-----------------------------------------------------------------------------
(* Mutant: the non-persistent vote of a seated voter has weight.           *)
MutWeightFor(voter, tag) ==
    CASE tag = PV /\ voter \in DOMAIN Seats ->
            IF Mode = "StakeCentile" THEN Stake[voter] ELSE Seats[voter]
      [] tag = NPV /\ Mode = "WfaLs" -> NpvWins[voter]
      [] OTHER -> 0

(* `weight_for`: a vote weighs what its voter's seats, stake or lottery    *)
(* wins are worth under the committee mode.                                *)
WeightFor(voter, tag) ==
    CASE tag = PV /\ voter \in DOMAIN Seats ->
            IF Mode = "StakeCentile" THEN Stake[voter] ELSE Seats[voter]
      [] tag = NPV /\ Mode = "WfaLs" /\ voter \notin DOMAIN Seats -> NpvWins[voter]
      [] OTHER -> 0

BallotWeight(ballot) == WeightFor(ballot[1], ballot[2])

(* tau times the total weight, rounded up.                                 *)
Threshold == (QuorumNum * ExpectedWeight + QuorumDen - 1) \div QuorumDen

(* `record_vote`: a first ballot of nonzero weight counts, and the quorum  *)
(* flag stays up once it is set.                                           *)
RecordVote(es, h, voter, tag) ==
    LET ballots == es[h].ballots \cup {<<voter, tag>>}
    IN  IF WeightFor(voter, tag) = 0 \/ h \notin DOMAIN es
        THEN es
        ELSE [es EXCEPT ![h].ballots = ballots,
                        ![h].quorum = @ \/ MapThenSumSet(BallotWeight, ballots) >= Threshold]

(* `eb_certifiable_slot` is Some(_).                                       *)
Certifiable(es, h) ==
    /\ h \in DOMAIN es
    /\ es[h].quorum
    /\ es[h].phase = "CertEligible"

-----------------------------------------------------------------------------
(* The node.                                                               *)

CONSTANTS
    Certifies,  \* the blocks with a certificate for their parent's EB
    Issuer,     \* Issuer[h]: the pool that forged h
    ByReference, \* the EBs that have a manifest of transaction hashes
    LeaderSlots, \* the slots in which the node's lottery lets it forge
    Configs,    \* the `VotingConfig`s and vote policies of the node
    MaxDelay,   \* bound on the slots that a block travels
    MaxSlot,    \* bound on the slots
    MaxReorgs   \* bound on the adopted tips that a control signal imposes

ASSUME CertifiesAssumption == Certifies \subseteq Hash

Config == [evaluate : BOOLEAN,  \* `evaluate_votes`
           retry : BOOLEAN,     \* `retry_vote_in_window`
           honest : BOOLEAN,    \* `VotePolicy::Honest`, not Abstain
           pv : BOOLEAN,        \* the node has persistent seats
           npv : SUBSET EB]     \* the EBs whose lottery it wins

ASSUME ConfigsAssumption == Configs \subseteq Config

ASSUME BoundAssumption == MaxDelay \in Nat /\ MaxSlot \in Nat /\ MaxReorgs \in Nat

VARIABLES
    slot,       \* the current slot
    config,     \* the node's configuration
    seen,       \* `header_first_seen`: the slot in which a block was received
    adopted,    \* the adopted tip of the Praos state
    pending,    \* the blocks that the validator has still to apply
    applied,    \* the blocks it has applied
    tip,        \* `chain_tip_ctx`
    elections,  \* the elections
    validated,  \* `validated_eb_bodies`: EB to slot
    endorsed,   \* `endorsed_unvalidated_ebs`, the EB-safety gate: EB to slot
    manifests,  \* `eb_tx_hashes`: EB to slot
    missing,    \* the EBs of which a transaction is not known here
    bodies,     \* the EBs whose body the node has validated
    cast,       \* cast[h]: how often the node voted on h's EB
    forged,     \* the block forged in this slot
    reorgs      \* number of imposed tips so far

chainVars == <<seen, adopted, pending, applied>>
ebVars == <<validated, endorsed, manifests, bodies>>
vars == <<slot, config, chainVars, tip, elections, ebVars, missing, cast, forged, reorgs>>

NoTip == [rb |-> None, arrival |-> None, equivocating |-> {}]
NothingForged == [parent |-> None, cert |-> FALSE, inline |-> FALSE, announces |-> FALSE]
Empty == [x \in {} |-> None]

Init ==
    /\ slot = 0
    /\ config \in Configs
    /\ seen = Empty
    /\ adopted = None
    /\ pending = {}
    /\ applied = {}
    /\ tip = NoTip
    /\ elections = Empty
    /\ validated = Empty
    /\ endorsed = Empty
    /\ manifests = Empty
    /\ missing = {}
    /\ bodies = {}
    /\ cast = [h \in Hash |-> 0]
    /\ forged = NothingForged
    /\ reorgs = 0

(* The runs end with the tick into the last slot.                          *)
Running == slot < MaxSlot

Put(f, x, v) == [y \in DOMAIN f \cup {x} |-> IF y = x THEN v ELSE f[y]]
Keep(f, min) == [x \in {y \in DOMAIN f : f[y] >= min} |-> f[x]]

-----------------------------------------------------------------------------
(* The chain tip context.                                                  *)

Announces(h) == h # None /\ Announced[h] # None

(* `note_header_for_equivocation`: slots in which one issuer was seen to   *)
(* forge two blocks.                                                       *)
EquivocatingRbSlots(s) ==
    {Slot[a] : a \in {x \in DOMAIN s : \E y \in DOMAIN s :
        y # x /\ Slot[y] = Slot[x] /\ Issuer[y] = Issuer[x]}}

(* What `update_chain_tip_ctx` reads from the Praos state.                 *)
TipContext(h, s) ==
    IF h = None THEN [NoTip EXCEPT !.equivocating = EquivocatingRbSlots(s)]
    ELSE [rb |-> h, arrival |-> s[h], equivocating |-> EquivocatingRbSlots(s)]

(* Mutant: an EB validated before it was announced is not remembered.      *)
MutElectionsAtTip(es, h) ==
    IF Announces(h) THEN AnnounceFromRb(es, h, slot) ELSE es

(* `set_chain_tip_context`: the elections once h is the tip.               *)
ElectionsAtTip(es, h) ==
    IF ~Announces(h) THEN es
    ELSE IF Announced[h] \in DOMAIN validated
    THEN MarkBodyValidated(AnnounceFromRb(es, h, slot), Announced[h])
    ELSE AnnounceFromRb(es, h, slot)

Better(h) == adopted = None \/ IsBetterTip(BlockNo[h], h, BlockNo[adopted], adopted)

(* A block arrives; its parent is here.                                    *)
Receive(h) ==
    /\ Running
    /\ slot \in Slot[h]..(Slot[h] + MaxDelay)
    /\ h \notin DOMAIN seen
    /\ Prev[h] = None \/ Prev[h] \in DOMAIN seen
    /\ seen' = Put(seen, h, slot)
    /\ adopted' = IF Better(h) THEN h ELSE adopted
    /\ pending' = IF Better(h) THEN pending \cup (Anc[h] \ applied) ELSE pending
    /\ UNCHANGED <<slot, config, applied, tip, elections, ebVars, missing, cast, forged, reorgs>>

(* `on_chain_endorsement`: a certificate for an EB without a valid body.   *)
OnChainEndorsement(en, es, h) ==
    IF EbBodyValidated(es, Announced[h]) \/ Announced[h] \in DOMAIN en
    THEN en
    ELSE Put(en, Announced[h], Slot[h])

(* `finish_applying_rb`.                                                   *)
Apply(h) ==
    /\ Running
    /\ h \in pending
    /\ Prev[h] \notin pending
    /\ pending' = pending \ {h}
    /\ applied' = applied \cup {h}
    /\ endorsed' = IF h \in Certifies /\ Announces(Prev[h]) /\ Announced[Prev[h]] \notin bodies
                   THEN OnChainEndorsement(endorsed, elections, Prev[h])
                   ELSE endorsed
    /\ tip' = TipContext(adopted, seen)
    /\ elections' = ElectionsAtTip(elections, adopted)
    /\ UNCHANGED <<slot, config, seen, adopted, validated, manifests, bodies, missing, cast, forged, reorgs>>

-----------------------------------------------------------------------------
(* Endorser blocks, their transactions and votes arrive.                   *)

(* `on_eb_received`, with the manifest of the EB that h announces: all of  *)
(* its transactions are known, or some are not.                            *)
ReceiveManifest(h, complete) ==
    /\ Running
    /\ Announces(h) /\ Announced[h] \in ByReference \ DOMAIN manifests
    /\ Slot[h] <= slot
    /\ manifests' = Put(manifests, Announced[h], Slot[h])
    /\ missing' = IF complete THEN missing \ {Announced[h]} ELSE missing \cup {Announced[h]}
    /\ UNCHANGED <<slot, config, chainVars, tip, elections, validated, endorsed, bodies,
                   cast, forged, reorgs>>

(* The last missing transaction of an EB arrives.                          *)
TransactionsArrive(eb) ==
    /\ Running
    /\ eb \in missing
    /\ missing' = missing \ {eb}
    /\ UNCHANGED <<slot, config, chainVars, tip, elections, ebVars, cast, forged, reorgs>>

(* `finish_validating_eb` and `on_validated_eb`.                           *)
ValidatedEb(h) ==
    LET eb == Announced[h]
    IN  /\ Running
        /\ Announces(h)
        /\ Slot[h] <= slot
        /\ eb \notin bodies
        /\ bodies' = bodies \cup {eb}
        /\ validated' = Put(validated, eb, Slot[h])
        /\ elections' = MarkBodyValidated(elections, eb)
        /\ endorsed' = [x \in DOMAIN endorsed \ {eb} |-> endorsed[x]]
        /\ UNCHANGED <<slot, config, chainVars, tip, manifests, missing, cast, forged, reorgs>>

(* `on_validated_votes`, of one vote.  Votes are cast when their window    *)
(* opens, and may come late or twice.                                      *)
ReceiveVote(h, voter, tag) ==
    /\ Running
    /\ h \in DOMAIN elections
    /\ slot >= Slot[h] + EquivocationEnd
    /\ elections' = RecordVote(elections, h, voter, tag)
    /\ UNCHANGED <<slot, config, chainVars, tip, ebVars, missing, cast, forged, reorgs>>

-----------------------------------------------------------------------------
(* The slot tick.                                                          *)

Late(e) == Elapsed(e.seen, e.slot) >= VotingEnd

(* Mutant: an equivocation of the tip's issuer does not matter.            *)
MutMayVote(h, e, ctx) ==
    /\ ~Late(e)
    /\ ctx.rb = h
    /\ ctx.arrival < e.slot + DeltaHdr
    /\ e.eb \in DOMAIN manifests => e.eb \notin missing
    /\ e.body

(* The predicates of `decide_vote`.                                        *)
MayVote(h, e, ctx) ==
    /\ ~Late(e)
    /\ ctx.rb = h
    /\ ctx.arrival < e.slot + DeltaHdr
    /\ e.slot \notin ctx.equivocating
    /\ e.eb \in DOMAIN manifests => e.eb \notin missing
    /\ e.body

(* `LeiosEffect::EmitVote`.                                                *)
EmitsVote(h, e, ctx, now) ==
    /\ EligibleToVote(e, now)
    /\ config.evaluate
    /\ config.honest
    /\ MayVote(h, e, ctx)
    /\ config.pv \/ e.eb \in config.npv

(* The election needs no further look: the node voted, or it never will.   *)
Settles(h, e, ctx, now) ==
    /\ EligibleToVote(e, now)
    /\ \/ ~config.evaluate
       \/ ~config.retry
       \/ config.honest /\ Late(e)
       \/ EmitsVote(h, e, ctx, now)

(* `Elections::on_slot` and the votes of `LeiosState::on_slot`.            *)
AfterVoting(es, ctx, now) ==
    [h \in DOMAIN es |->
        [es[h] EXCEPT !.phase = PhaseForElapsed(Elapsed(now, es[h].slot)),
                      !.voted = @ \/ Settles(h, es[h], ctx, now)]]

CountVotes(es, ctx, now) ==
    [h \in Hash |-> IF h \in DOMAIN es /\ EmitsVote(h, es[h], ctx, now)
                    THEN cast[h] + 1 ELSE cast[h]]

(* `prune_chain_progress`: nothing below the slot of the tip is kept.      *)
MinKeep(ctx) == IF ctx.rb = None THEN 0 ELSE Slot[ctx.rb]

(* `try_build_endorsement`: a certificate for the parent's EB.             *)
BuildsEndorsement(es, parent) == Announces(parent) /\ Certifiable(es, parent)

(* Mutant: the certificate's own EB does not close the gate.               *)
MutGateAtForge(en, es, parent, leads) == en

(* The gate when a block is forged on `parent`: its own certificate may    *)
(* close it.                                                               *)
GateAtForge(en, es, parent, leads) ==
    IF leads /\ BuildsEndorsement(es, parent) /\ Announced[parent] \notin bodies
    THEN OnChainEndorsement(en, es, parent)
    ELSE en

(* `try_produce_rb` with `BodyPath::decide`.  The mempool is empty, fits   *)
(* into a ranking block or overflows it.                                   *)
Forge(es, gate, parent, load) ==
    [parent |-> parent,
     cert |-> BuildsEndorsement(es, parent),
     inline |-> gate = Empty /\ load # "empty" /\ ~BuildsEndorsement(es, parent),
     announces |-> gate = Empty /\ load = "overflow"]

(* The rest of the handler, once the elections have been through the slot. *)
EndOfSlot(es, ctx, parent, leads, load) ==
    /\ elections' = es
    /\ validated' = Keep(validated, MinKeep(ctx))
    /\ manifests' = Keep(manifests, MinKeep(ctx))
    /\ endorsed' = GateAtForge(Keep(endorsed, MinKeep(ctx)), es, parent, leads)
    /\ forged' = IF leads THEN Forge(es, endorsed', parent, load) ELSE NothingForged

(* `LeiosState::on_slot` under the context ctx, and the rest.              *)
OnSlot(es, ctx, now, parent, load) ==
    /\ cast' = CountVotes(es, ctx, now)
    /\ EndOfSlot(PruneBelowSlot(AfterVoting(es, ctx, now), MinKeep(ctx)), ctx, parent, now \in LeaderSlots, load)

(* `handle_new_slot`, when the control signal leaves the tip alone.        *)
Tick(load) ==
    /\ Running
    /\ slot' = slot + 1
    /\ OnSlot(elections, tip, slot + 1, adopted, load)
    /\ UNCHANGED <<config, chainVars, tip, bodies, missing, reorgs>>

(* `handle_new_slot`, when it makes h the adopted tip.                     *)
TickReorg(h, load) ==
    /\ Running
    /\ reorgs < MaxReorgs
    /\ h # adopted
    /\ slot' = slot + 1
    /\ adopted' = h
    /\ tip' = TipContext(h, seen)
    /\ OnSlot(ElectionsAtTip(elections, h), TipContext(h, seen), slot + 1, h, load)
    /\ reorgs' = reorgs + 1
    /\ UNCHANGED <<config, seen, pending, applied, bodies, missing>>

(* How full the mempool is; it matters only when a block is forged.        *)
Loads == IF slot + 1 \in LeaderSlots THEN {"empty", "fits", "overflow"} ELSE {"empty"}

Next ==
    \/ \E h \in Hash : Receive(h) \/ Apply(h) \/ ValidatedEb(h)
    \/ \E h \in Hash, complete \in BOOLEAN : ReceiveManifest(h, complete)
    \/ \E eb \in EB : TransactionsArrive(eb)
    \/ \E h \in Hash, voter \in Voter, tag \in {PV, NPV} : ReceiveVote(h, voter, tag)
    \/ \E load \in Loads : Tick(load) \/ \E h \in applied : TickReorg(h, load)

Spec == Init /\ [][Next]_vars

-----------------------------------------------------------------------------
Partial(S, T) == UNION {[D -> T] : D \in SUBSET S}

(* The fields of LeiosState keep their types, and elections exist only for *)
(* received blocks, whatever is announced, voted on or pruned.             *)
TypeOK ==
    /\ slot \in 0..MaxSlot
    /\ config \in Configs
    /\ DOMAIN seen \subseteq Hash /\ \A h \in DOMAIN seen : seen[h] \in Slot[h]..slot
    /\ adopted \in DOMAIN seen \cup {None}
    /\ pending \cup applied \subseteq DOMAIN seen /\ pending \cap applied = {}
    /\ tip.rb \in DOMAIN seen \cup {None}
    /\ DOMAIN elections \subseteq DOMAIN seen
    /\ \A h \in DOMAIN elections : elections[h] \in Election
    /\ validated \in Partial(EB, 0..slot)
    /\ endorsed \in Partial(EB, 0..slot)
    /\ manifests \in Partial(EB, 0..slot)
    /\ missing \subseteq EB
    /\ DOMAIN validated \subseteq bodies /\ bodies \subseteq EB
    /\ cast \in [Hash -> 0..MaxSlot]
    /\ forged \in [parent : Hash \cup {None}, cert : BOOLEAN, inline : BOOLEAN, announces : BOOLEAN]
    /\ reorgs \in 0..MaxReorgs

(* The tip that the voting predicates look at has its election: the prune  *)
(* of `on_slot` never drops it, and votes for it are never discarded.      *)
TipElectionLive ==
    Announces(tip.rb) =>
        /\ tip.rb \in DOMAIN elections
        /\ elections[tip.rb].eb = Announced[tip.rb]
        /\ elections[tip.rb].slot = Slot[tip.rb]

(* The node votes only for an EB whose body it has validated itself,       *)
(* however announcements, verdicts and tip changes interleave.             *)
VotesForValidated == \A h \in Hash : cast[h] > 0 => Announced[h] \in bodies

(* The node never votes for two blocks that one pool forged in one slot:   *)
(* the second can be voted on only as the tip, and when it became the tip  *)
(* both were known.                                                        *)
NoVoteForBoth ==
    \A g, h \in Hash :
        /\ cast[g] > 0 /\ cast[h] > 0
        /\ Slot[g] = Slot[h] /\ Issuer[g] = Issuer[h]
        => g = h

(* One vote for an announcing block: duplicates would only be paid for.    *)
(* The election that remembers the vote is gone once the tip has moved on, *)
(* so an imposed return to an old tip is excepted.                         *)
VotesOnce == reorgs = 0 => \A h \in Hash : cast[h] <= 1

(* What makes this node's votes safe: the three above together.            *)
VotesSound == VotesForValidated /\ NoVoteForBoth /\ VotesOnce

(* The weight that a voter can bring to an election: a pool has seats or   *)
(* takes part in the lottery, never both.                                  *)
VoterWeight(v) ==
    IF v \notin DOMAIN Seats THEN IF Mode = "WfaLs" THEN NpvWins[v] ELSE 0
    ELSE IF Mode = "StakeCentile" THEN Stake[v] ELSE Seats[v]

(* A quorum is what it says: distinct voters whose weights reach the       *)
(* threshold, and no voter is counted for both kinds of votes.             *)
QuorumSound ==
    \A h \in DOMAIN elections :
        LET voters == {b[1] : b \in elections[h].ballots}
        IN  elections[h].quorum <=>
                voters # {} /\ MapThenSumSet(VoterWeight, voters) * QuorumDen
                                >= QuorumNum * ExpectedWeight

(* A forged block certifies its parent's EB only after the windows for     *)
(* equivocation proofs, votes and their diffusion, and carries no          *)
(* transactions of its own then.                                           *)
CertifiedSafely ==
    forged.cert =>
        /\ slot >= Slot[forged.parent] + DiffuseEnd
        /\ ~forged.inline

(* A block that certifies an EB whose body the node has not validated      *)
(* announces no EB of its own: `try_produce_rb` closes the gate before it  *)
(* decides on the body.                                                    *)
OwnCertificateGates ==
    [][slot' > slot /\ forged'.cert /\ forged'.announces => Announced[forged'.parent] \in bodies]_vars

(* What the predicates should see, from the facts instead of the caches.   *)
Deserves(h) ==
    /\ Announces(h)
    /\ seen[h] < Slot[h] + DeltaHdr
    /\ Slot[h] \notin EquivocatingRbSlots(seen)
    /\ Announced[h] \in bodies
    /\ Announced[h] \in DOMAIN manifests => Announced[h] \notin missing

(* The pipelines for which no vote is lost: there is a voting window, a    *)
(* header is in time only in its own slot, and an EB is announced in one   *)
(* slot only.  With a larger DeltaHdr a block of an earlier slot may still *)
(* become the tip after the verdict on its EB was pruned.                  *)
Prompt ==
    /\ VoteWindow > 0
    /\ DeltaHdr <= 1
    /\ \A g, h \in Hash : Announced[g] = Announced[h] /\ Announced[g] # None => Slot[g] = Slot[h]

(* No vote is lost: when the voting window of the tip closes and all its   *)
(* conditions hold, the node has voted.  It needs the body's verdict to    *)
(* survive from `on_validated_eb` to the election, created before or after *)
(* it.                                                                     *)
VoteNotMissed ==
    [][/\ Deserves(tip.rb)
       /\ slot' > slot
       /\ slot' = Slot[tip.rb] + VotingEnd - 1
       /\ tip' = tip
       /\ config.evaluate /\ config.honest /\ config.retry
       /\ config.pv \/ Announced[tip.rb] \in config.npv
       /\ reorgs = 0
       => cast'[tip.rb] > 0]_vars

(* production.rs, lines 10 to 20: no transactions while the node holds a   *)
(* certificate on its chain for an EB whose body it has not validated.     *)
NoUnsafeBody ==
    [][slot' > slot /\ forged'.parent # None /\ (forged'.inline \/ forged'.announces) =>
        \A h \in applied \cap Anc[forged'.parent] \cap Certifies :
            Announces(Prev[h]) => Announced[Prev[h]] \in bodies]_vars
=============================================================================
