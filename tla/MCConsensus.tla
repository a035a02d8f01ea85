---------------------------- MODULE MCConsensus -----------------------------
(***************************************************************************)
(* The Leios side of the consensus crate, one component at a time: they    *)
(* share no state here, and `active` says which of them moves.             *)
(*    leios      LeiosNode.  Pool 1 forges block 2 and then block 1, in    *)
(*               the same slot and on the same parent: both announce EB    *)
(*               11.  Block 3 is the child of block 1 with a certificate.  *)
(*    fetch ...  EbFetch: a silent peer whose fetch outlives its TTL, an   *)
(*               EB spread over two peers, a filtered EB, and an EB that   *)
(*               is pruned while it is fetched                             *)
(*    relay ...  EbAnnounce: a tip that advances until blocks are pruned,  *)
(*               and contradicting certificates with a full table          *)
(*    tick, load BehaviourTree: four trees that are ticked, and all small  *)
(*               reference graphs                                          *)
(*    committee  Committee                                                 *)
(***************************************************************************)
EXTENDS LeiosNode

CONSTANT Components

VARIABLES
    active,
    now, f, net, asked, gone,
    clock, peers, highest, hashes, equivocating, cert_seen, cert_equivocations, authentic, cache,
    head, requested, observed, certs, drained, announced, got, floor,
    conf, accepted, tree, env, over, ticks, out, reached,
    stakes, sigma, tau, seats, left, assigned, item, last

fetchVars == <<now, f, net, asked, gone>>
relayVars == <<clock, peers, highest, hashes, equivocating, cert_seen, cert_equivocations, authentic,
               cache, head, requested, observed, certs, drained, announced, got, floor>>
treeVars == <<conf, accepted, tree, env, over, ticks, out, reached>>
committeeVars == <<stakes, sigma, tau, seats, left, assigned, item, last>>

-----------------------------------------------------------------------------
MCHash == 1..3
MCPrev == <<0, 0, 1>>
MCBlockNo == <<0, 0, 1>>
MCSlot == <<0, 0, 6>>
MCAnc == <<{1}, {2}, {1, 3}>>
MCEB == {11}
MCAnnounced == <<11, 11, 0>>
MCIssuer == <<1, 1, 2>>
MCVoter == {"a", "b"}
MCSeats == [v \in {"a"} |-> 2]
MCStake == [v \in MCVoter |-> 3]
MCNpvWins == [v \in MCVoter |-> 1]
Seated == [evaluate |-> TRUE, retry |-> TRUE, honest |-> TRUE, pv |-> TRUE, npv |-> {}]
MCConfigs == {Seated, [Seated EXCEPT !.pv = FALSE, !.npv = {11}, !.retry = FALSE]}

ASSUME PromptRun == Prompt

-----------------------------------------------------------------------------
OneTx(e) == {1}
TwoTxs(e) == {1, 2}
AllServe(p, e) == {1}
SecondServes(p, e) == IF p = 1 THEN {} ELSE {1}
FirstInPart(p, e) == IF p = 1 THEN {1} ELSE {1, 2}
NoneServes(p, e) == {}

SilentFetch == INSTANCE EbFetch WITH
    Peers <- {1, 2}, Ebs <- {<<1, 1>>}, Manifest <- OneTx, Serves <- AllServe, Silent <- {1},
    Fanout <- 1, MaxWaves <- 1, TTL <- 2, Retention <- 1, Filtered <- {}, Hide <- FALSE,
    Proactive <- TRUE, LastSlot <- 3
SpreadFetch == INSTANCE EbFetch WITH
    Peers <- {1, 2}, Ebs <- {<<1, 1>>}, Manifest <- TwoTxs, Serves <- FirstInPart, Silent <- {},
    Fanout <- 1, MaxWaves <- 2, TTL <- 9, Retention <- 1, Filtered <- {}, Hide <- FALSE,
    Proactive <- FALSE, LastSlot <- 2
FilteredFetch == INSTANCE EbFetch WITH
    Peers <- {1, 2}, Ebs <- {<<1, 1>>, <<2, 2>>}, Manifest <- OneTx, Serves <- SecondServes,
    Silent <- {}, Fanout <- 1, MaxWaves <- 2, TTL <- 9, Retention <- 1, Filtered <- {<<2, 2>>},
    Hide <- TRUE, Proactive <- FALSE, LastSlot <- 2
PrunedFetch == INSTANCE EbFetch WITH
    Peers <- {1}, Ebs <- {<<1, 1>>, <<3, 2>>}, Manifest <- OneTx, Serves <- NoneServes,
    Silent <- {}, Fanout <- 1, MaxWaves <- 2, TTL <- 9, Retention <- 0, Filtered <- {},
    Hide <- FALSE, Proactive <- FALSE, LastSlot <- 3

-----------------------------------------------------------------------------
Rb(id, bn, sl, prev, issuer, eb, cert) ==
    [id |-> id, bn |-> bn, slot |-> sl, prev |-> prev, issuer |-> issuer, eb |-> eb, bit |-> FALSE,
     cert |-> cert, pending |-> FALSE]

PrunedRelay == INSTANCE EbAnnounce WITH
    now <- clock, adopted <- head,
    Rbs <- {Rb(1, 1, 1, 0, "a", 11, <<>>), Rb(2, 2, 2, 1, "a", 0, <<1, 11>>),
            Rb(3, 2, 2, 1, "b", 0, <<>>)},
    Own <- {3}, K <- 1, BodyWindow <- 1, Cap <- 1, MaxTip <- 3, MaxSlot <- 2
FullRelay == INSTANCE EbAnnounce WITH
    now <- clock, adopted <- head,
    Rbs <- {Rb(2, 1, 1, 0, "a", 0, <<1, 11>>), Rb(3, 1, 1, 0, "a", 0, <<2, 99>>),
            [Rb(4, 2, 1, 3, "", 0, <<2, 13>>) EXCEPT !.pending = TRUE]},
    Own <- {}, K <- 0, BodyWindow <- 9, Cap <- 1, MaxTip <- 2, MaxSlot <- 1

-----------------------------------------------------------------------------
Num(n) == [class |-> "num", v |-> n]
Compare(l, op, r) == [kind |-> "Compare", lhs |-> l, op |-> op, rhs |-> r]
EnvX == [ref |-> "env", name |-> "x"]
SlotReached == Compare([ref |-> "chain", name |-> "current_slot"], ">=", EnvX)
EnvIsOne == Compare(EnvX, "==", [ref |-> "lit", val |-> Num(1)])
Act(field) == [type |-> "Action", field |-> field, param |-> 1]
Over(type, children) == [type |-> type, children |-> children]
ForTicks(n, child) == [type |-> "ForTicks", count |-> n, child |-> child]
Wait(n) == [type |-> "Wait", count |-> n]
Leaves ==
    [a |-> Act("f"), b |-> Act("g"), c |-> [type |-> "Condition", expr |-> SlotReached],
     n |-> [type |-> "Condition", expr |-> [kind |-> "Not", args |-> <<EnvIsOne>>]],
     h |-> [type |-> "Honest"], w |-> Wait(2), fa |-> ForTicks(2, "a"), fj |-> ForTicks(2, "j")]
Shapes ==
    {[r |-> Over("Selector", <<"s", "h">>), s |-> Over("Sequence", <<"c", "j">>),
      j |-> Over("Join", <<"n", "w", "fa", "b">>)],
     [r |-> Over("Selector", <<"j", "b">>), s |-> Over("Sequence", <<"n", "w", "a">>),
      j |-> Over("Join", <<"fa", "c">>)],
     [r |-> Over("Sequence", <<"w", "s", "fj", "b">>), s |-> Over("Selector", <<"c", "n">>),
      j |-> Over("Join", <<"a", "w", "w">>)],
     [r |-> Over("Join", <<"s", "fa", "s">>), s |-> Over("Sequence", <<"w", "j">>),
      j |-> Over("Selector", <<"n", "fa">>)]}
Trees ==
    {[root |-> "r", env |-> [x |-> Num(2)],
      behaviours |-> [i \in DOMAIN Leaves \cup DOMAIN s |-> IF i \in DOMAIN s THEN s[i] ELSE Leaves[i]]]
     : s \in Shapes}
References == UNION {[1..n -> {"p", "q", "a", "z"}] : n \in 0..2}
Behaviours ==
    {Over("Selector", refs) : refs \in References} \cup {ForTicks(n, i) : n \in {0, 1}, i \in {"p", "q"}}
    \cup {Wait(0), Act("f")}
Graphs ==
    {[root |-> r, behaviours |-> [p |-> x, q |-> y, a |-> Act("f")], env |-> <<>>]
     : r \in {"p", "z"}, x \in Behaviours, y \in Behaviours}
Contains(c, i) == i <= c
EnvChanges == {<<"x", Num(1)>>, <<"x", Num(3)>>, <<"x", [class |-> "bool", v |-> 1]>>}

Ticked == INSTANCE BehaviourTree WITH
    slot <- ticks, seen <- reached, Configs <- Trees, Within <- Contains, EnvUpdates <- EnvChanges,
    ParamUpdates <- {<<"a", 2>>}, Fields <- {"f", "g"}, MaxSlot <- 6
Loaded == INSTANCE BehaviourTree WITH
    slot <- ticks, seen <- reached, Configs <- Graphs, Within <- Contains, EnvUpdates <- {},
    ParamUpdates <- {}, Fields <- {"f", "g"}, MaxSlot <- 1

Com == INSTANCE Committee WITH
    Registries <- {0, 1, 3} \X {0, 2, 4} \X {2, 4}, Den <- 4, Voters <- 2, Others <- 3,
    SeatCounts <- {1},
    Selections <- {[kind |-> "All"], [kind |-> "Nodes", indices |-> {1, 7}],
                   [kind |-> "StakeOrdered", count |-> 1], [kind |-> "StakeRandom", count |-> 2]}
                  \cup {[kind |-> "StakeFraction", count |-> n] : n \in 0..5},
    MaxItems <- 1

-----------------------------------------------------------------------------
allVars == <<active, vars, fetchVars, relayVars, treeVars, committeeVars>>

FetchInit ==
    /\ active = "fetch silent" => SilentFetch!Init
    /\ active = "fetch filtered" => FilteredFetch!Init
    /\ active = "fetch pruned" => PrunedFetch!Init
    /\ active \notin {"fetch silent", "fetch filtered", "fetch pruned"} => SpreadFetch!Init

TreeInit ==
    IF active = "tick" THEN Ticked!Init
    ELSE IF active = "load" THEN Loaded!Init
    ELSE /\ conf = 0 /\ accepted = FALSE /\ tree = <<>> /\ env = <<>> /\ over = <<>>
         /\ ticks = 0 /\ out = <<>> /\ reached = {}

CommitteeInit ==
    IF active = "committee" THEN Com!Init
    ELSE /\ stakes = <<>> /\ sigma = 1 /\ tau = 1 /\ seats = <<>> /\ left = 0 /\ assigned = <<>>
         /\ item = 0 /\ last = 0

AllInit ==
    /\ active \in Components
    /\ Init /\ (active # "leios" => config = Seated)
    /\ FetchInit /\ PrunedRelay!Init /\ TreeInit /\ CommitteeInit

FetchNext ==
    \/ active = "fetch silent" /\ SilentFetch!Next
    \/ active = "fetch spread" /\ SpreadFetch!Next
    \/ active = "fetch filtered" /\ FilteredFetch!Next
    \/ active = "fetch pruned" /\ PrunedFetch!Next

RelayNext ==
    \/ active = "relay pruned" /\ PrunedRelay!Next
    \/ active = "relay full" /\ FullRelay!Next

TreeNext ==
    \/ active = "tick" /\ Ticked!Next
    \/ active = "load" /\ Loaded!Next

AllNext ==
    /\ UNCHANGED active
    /\ \/ active = "leios" /\ Next /\ UNCHANGED <<fetchVars, relayVars, treeVars, committeeVars>>
       \/ FetchNext /\ UNCHANGED <<vars, relayVars, treeVars, committeeVars>>
       \/ RelayNext /\ UNCHANGED <<vars, fetchVars, treeVars, committeeVars>>
       \/ TreeNext /\ UNCHANGED <<vars, fetchVars, relayVars, committeeVars>>
       \/ active = "committee" /\ Com!Next /\ UNCHANGED <<vars, fetchVars, relayVars, treeVars>>

AllSpec == AllInit /\ [][AllNext]_allVars

-----------------------------------------------------------------------------
(* OneFetchPerPeer, AskedOncePerWave and NoneLost of EbFetch: the tracker  *)
(* knows which peers have an EB fetch running, no peer is asked twice in a *)
(* wave, and nothing asked for gets lost.  A request that outlives its TTL *)
(* is asked for again, so only the first is meant for a silent peer.       *)
EbFetchSound ==
    /\ active = "fetch silent" => SilentFetch!OneFetchPerPeer
    /\ active = "fetch spread" =>
           SpreadFetch!OneFetchPerPeer /\ SpreadFetch!AskedOncePerWave /\ SpreadFetch!NoneLost
    /\ active = "fetch filtered" =>
           FilteredFetch!OneFetchPerPeer /\ FilteredFetch!AskedOncePerWave /\ FilteredFetch!NoneLost
    /\ active = "fetch pruned" =>
           PrunedFetch!OneFetchPerPeer /\ PrunedFetch!AskedOncePerWave /\ PrunedFetch!NoneLost

(* EquivocationExact of EbAnnounce: a slot is flagged exactly when two     *)
(* headers of one issuer for it were seen, from the last pruned slot on.   *)
EquivocationExact ==
    /\ active = "relay pruned" => PrunedRelay!EquivocationExact
    /\ active = "relay full" => FullRelay!EquivocationExact

(* CertsReported, HeadersAuthentic and CertifiedRequested of EbAnnounce:   *)
(* contradicting certificates are reported, blocks are relayed with the    *)
(* header bytes of the wire, and a certified EB is requested.              *)
RelayComplete ==
    /\ active = "relay pruned" =>
           PrunedRelay!CertsReported /\ PrunedRelay!HeadersAuthentic /\ PrunedRelay!CertifiedRequested
    /\ active = "relay full" =>
           FullRelay!CertsReported /\ FullRelay!HeadersAuthentic /\ FullRelay!CertifiedRequested

(* ProgressActive, JoinStartsAfresh and AcceptedIfFinite of BehaviourTree: *)
(* whatever a tick leaves is reset, and a configuration is accepted        *)
(* exactly when it expands to a finite tree.                               *)
TreesSound ==
    /\ active = "tick" => Ticked!ProgressActive /\ Ticked!JoinStartsAfresh
    /\ active = "load" => Loaded!AcceptedIfFinite

(* CommitteesAgree, QuorumReachable, SeatsBacked and FractionMinimal of    *)
(* Committee: simulator and consensus crate seat the same committee, it    *)
(* can reach its quorum, and selections by stake are minimal.              *)
CommitteeSound ==
    active = "committee" =>
        Com!CommitteesAgree /\ Com!QuorumReachable /\ Com!SeatsBacked /\ Com!FractionMinimal
=============================================================================
