----------------------------- MODULE Committee ------------------------------
(***************************************************************************)
(* Who votes, with what quorum, and who runs which behaviour: the          *)
(* committees of shared-consensus (committee.rs, config.rs and the         *)
(* validation of elections.rs), the committees that the simulator seats    *)
(* when it builds its configuration, and the selection of the nodes that   *)
(* run a configured behaviour tree (behaviour/selection.rs).               *)
(*                                                                         *)
(* Nodes are numbered in the order of their names.  A fraction is a number *)
(* of parts of Den; the code's floats are exact at these sizes.  A draw of *)
(* the random generator is any value of its range.                         *)
(***************************************************************************)
EXTENDS Naturals, Sequences, FiniteSetsExt

CONSTANTS
    Registries,  \* the stake registries: sequences of stakes
    Den,         \* the denominator of the fractions
    Voters,      \* `persistent_voters`
    Others,      \* `non_persistent_voters`
    SeatCounts,  \* values of `committee_seat_count`
    Selections,  \* the selections that behaviours are configured with
    MaxItems     \* the number of configured behaviours

VARIABLES
    stakes,      \* the stake registry
    sigma, tau,  \* the stake the committee covers, and the quorum
    seats,       \* the seats drawn so far, by node
    left,        \* the seats still to draw
    assigned,    \* the behaviour each node runs: the number of its item, or 0
    item,        \* the items resolved so far
    last         \* the last selection and the nodes it picked

vars == <<stakes, sigma, tau, seats, left, assigned, item, last>>

-----------------------------------------------------------------------------
Nodes == DOMAIN stakes

TotalOf(set) == MapThenSumSet(LAMBDA i : stakes[i], set)

TotalStake == TotalOf(Nodes)

Bearers == {i \in Nodes : stakes[i] > 0}

\* Higher stake first, ties by name.
Before(i, j) == stakes[i] > stakes[j] \/ (stakes[i] = stakes[j] /\ i < j)

\* The nodes with stake that are ranked ahead of node i.
stake_ranked(i) == {j \in Bearers : Before(j, i)}

\* tau of the total, rounded up.
CeilOf(n, total) == ((n * total) + Den - 1) \div Den

\* Pools are seated from the largest on, until they hold the cutoff.
top_centile_committee ==
    {i \in Bearers : TotalOf(stake_ranked(i)) < (sigma * TotalStake) \div Den}

\* The simulator's version, which also walks over the nodes without stake.
TopStakeFraction ==
    {i \in Nodes : TotalOf({j \in Nodes : Before(j, i)}) < (sigma * TotalStake) \div Den}

\* The simulator's committee of a fixed number of seats.
TopStakeSeats(n) == {i \in Bearers : Cardinality(stake_ranked(i)) < n}

\* A committee of a fraction of the stake must cover more than the quorum.
StakeCentileValid == sigma > tau

\* The denominator of the quorum, in the unit of the votes.
expected_total_weight(mode) ==
    CASE mode = "WfaLs"         -> MapThenSumSet(LAMBDA i : seats[i], Nodes) + Others
      [] mode = "EveryoneVotes" -> Cardinality(Nodes)
      [] mode = "StakeCentile"  -> TotalStake

(* Mutant: the quorum is counted in seats although the votes weigh stake. *)
MutVoteThreshold == CeilOf(tau, expected_total_weight("WfaLs"))

vote_threshold == CeilOf(tau, expected_total_weight("StakeCentile"))

-----------------------------------------------------------------------------
\* The cumulative stake up to and including node i.
CumSum(i) == TotalOf(1 .. i)

\* The node that wins the seat of a draw r: the first whose cumulative
\* stake exceeds r.
SeatOf(r) == Min({i \in Nodes : CumSum(i) > r})

\* One persistent seat is drawn.
allocate_persistent_seats ==
    /\ left > 0 /\ TotalStake > 0
    /\ \E r \in 0 .. (TotalStake - 1) : seats' = [seats EXCEPT ![SeatOf(r)] = @ + 1]
    /\ left' = left - 1
    /\ UNCHANGED <<stakes, sigma, tau, assigned, item, last>>

-----------------------------------------------------------------------------

StakeFraction(n) ==
    {i \in Bearers : TotalOf(stake_ranked(i)) < CeilOf(IF n > Den THEN Den ELSE n, TotalStake)}

\* The sets of nodes a selection may pick; only StakeRandom leaves a choice.
resolve_selection(s) ==
    CASE s.kind = "All"           -> {Nodes}
      [] s.kind = "Nodes"         -> {s.indices \intersect Nodes}
      [] s.kind = "StakeOrdered"  ->
             {{i \in Bearers : Cardinality(stake_ranked(i)) < s.count}}
      [] s.kind = "StakeRandom"   ->
             kSubset(Min({s.count, Cardinality(Bearers)}), Bearers)
      [] s.kind = "StakeFraction" -> {StakeFraction(s.count)}

\* The next configured behaviour goes to the nodes its selection picks, also
\* to those that had been given an earlier one.
assign_behaviour_trees ==
    /\ left = 0 /\ item < MaxItems
    /\ \E s \in Selections : \E picked \in resolve_selection(s) :
           /\ assigned' = [i \in Nodes |-> IF i \in picked THEN item + 1 ELSE assigned[i]]
           /\ last' = [sel |-> s, picked |-> picked]
    /\ item' = item + 1
    /\ UNCHANGED <<stakes, sigma, tau, seats, left>>

Init ==
    /\ stakes \in Registries
    /\ sigma \in 1 .. Den /\ tau \in 1 .. Den
    /\ seats = [i \in DOMAIN stakes |-> 0]
    /\ left = IF TotalStake = 0 THEN 0 ELSE Voters
    /\ assigned = [i \in DOMAIN stakes |-> 0]
    /\ item = 0
    /\ last = [sel |-> [kind |-> "All"], picked |-> {}]

Next == allocate_persistent_seats \/ assign_behaviour_trees

Spec == Init /\ [][Next]_vars

-----------------------------------------------------------------------------
(* The simulator and shared-consensus seat the same committee for the same *)
(* stakes, although one skips nodes without stake and the other does not,  *)
(* and a committee of n seats is the n nodes a behaviour that is given to  *)
(* the n largest pools would run on.                                       *)
CommitteesAgree ==
    /\ top_centile_committee = TopStakeFraction
    /\ \A n \in SeatCounts :
           resolve_selection([kind |-> "StakeOrdered", count |-> n]) = {TopStakeSeats(n)}

(* A committee that the validation accepts can certify: when it is to      *)
(* cover at least one whole unit of stake more than the quorum, the seated *)
(* pools together reach the quorum, whatever the two roundings do.         *)
QuorumReachable ==
    (StakeCentileValid /\ (sigma - tau) * TotalStake >= Den)
    => TotalOf(top_centile_committee) >= vote_threshold

(* A seat never goes to a node without stake, and the weights of the       *)
(* seats drawn and still to draw add up to the quorum's denominator.       *)
SeatsBacked ==
    /\ \A i \in Nodes : seats[i] > 0 => stakes[i] > 0
    /\ TotalStake > 0 => expected_total_weight("WfaLs") + left = Voters + Others

(* A selection by stake fraction picks nodes that hold the fraction, and   *)
(* no fewer nodes hold it.                                                 *)
FractionMinimal ==
    (last.sel.kind = "StakeFraction" /\ item > 0)
    => LET target == CeilOf(IF last.sel.count > Den THEN Den ELSE last.sel.count, TotalStake)
       IN  /\ TotalOf(last.picked) >= target
           /\ \A few \in SUBSET Nodes :
                  Cardinality(few) < Cardinality(last.picked) => TotalOf(few) < target
=============================================================================
