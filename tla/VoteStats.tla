----------------------------- MODULE VoteStats ------------------------------
(***************************************************************************)
(* The vote statistics of a simulation (sim-cli/events.rs: VoteTiming,     *)
(* BundleDiffusion, ObsoleteVoteStats): when a vote bundle has reached a   *)
(* given part of the nodes, when nodes with a given part of the stake had  *)
(* a quorum, and how much of the work on obsolete votes was repeated.  The *)
(* shards report the events of different nodes in any order; the delay     *)
(* that an event of a node bears is any value not below its last one.      *)
(***************************************************************************)
EXTENDS Naturals, Sequences, FiniteSetsExt, Bags, BagsExt, TLC

CONSTANTS
    Nodes,
    Producer,     \* the node that makes the bundle
    Target,       \* the nodes a bundle must reach: `coverage_target`
    Weight(_),    \* the stake of a node
    Den,          \* the denominator of the quantiles
    MaxDelay,
    MaxEvents     \* arrivals, crossings and verifications in all

VARIABLES
    clock,        \* the time of every node
    events,       \* how many happened
    generated,    \* the bundle is known
    delays,       \* the delays recorded so far, as a bag
    seen,         \* the nodes they belong to
    collapsed,    \* all nodes had it and the samples are gone
    coverage,     \* `coverage_us`, or Unreached
    quorums,      \* the samples [delay, weight] of the crossings, as they were reported
    processed,    \* the nodes that have processed the bundle
    obsolete,     \* the counters of the work on obsolete votes
    first,        \* the delay of the first arrival at every node, or Unreached
    crossed       \* the delay of its quorum, or Unreached

vars == <<clock, events, generated, delays, seen, collapsed, coverage, quorums, processed,
          obsolete, first, crossed>>

Unreached == MaxDelay + 1

Init ==
    /\ clock = [n \in Nodes |-> 0]
    /\ events = 0
    /\ generated = FALSE
    /\ delays = EmptyBag /\ seen = {} /\ collapsed = FALSE /\ coverage = Unreached
    /\ quorums = << >>
    /\ processed = {}
    /\ obsolete = [verifications |-> 0, firsts |-> 0, repeats |-> 0, reinsertions |-> 0]
    /\ first = [n \in Nodes |-> Unreached]
    /\ crossed = [n \in Nodes |-> Unreached]

-----------------------------------------------------------------------------
\* The k-th smallest of a bag of delays, or Unreached.
nth_smallest(bag, k) ==
    LET upto(d) == BagCardinality([x \in {y \in DOMAIN bag : y <= d} |-> bag[x]])
        enough == {d \in DOMAIN bag : upto(d) >= k}
    IN  IF enough = {} THEN Unreached ELSE Min(enough)

\* The first arrival at a node is recorded; when all nodes have the bundle, the
\* samples are reduced to the one figure.
BundleRecord(n, d) ==
    IF collapsed \/ n \in seen
    THEN UNCHANGED <<delays, seen, collapsed, coverage>>
    ELSE LET now == BagAdd(delays, d)
         IN  IF Cardinality(seen) + 1 >= Cardinality(Nodes)
             THEN /\ coverage' = nth_smallest(now, Target)
                  /\ delays' = EmptyBag /\ seen' = {} /\ collapsed' = TRUE
             ELSE delays' = now /\ seen' = seen \union {n} /\ UNCHANGED <<collapsed, coverage>>

coverage_delay == IF collapsed THEN coverage ELSE nth_smallest(delays, Target)

\* One more event, of a node whose clock has reached d.
Report(n, d) ==
    /\ generated /\ events < MaxEvents
    /\ d >= clock[n]
    /\ events' = events + 1
    /\ clock' = [clock EXCEPT ![n] = d]
    /\ UNCHANGED generated

\* The producer has the bundle from the start.
bundle_generated ==
    /\ ~generated
    /\ generated' = TRUE
    /\ BundleRecord(Producer, 0)
    /\ processed' = processed \union {Producer}
    /\ first' = [first EXCEPT ![Producer] = 0]
    /\ UNCHANGED <<clock, events, quorums, obsolete, crossed>>

bundle_received(n, d) ==
    /\ Report(n, d)
    /\ BundleRecord(n, d)
    /\ first' = [first EXCEPT ![n] = Min({@, d})]
    /\ UNCHANGED <<quorums, processed, obsolete, crossed>>

\* A node's own tally reaches the quorum; each node reports it once.
record_quorum(n, d) ==
    /\ crossed[n] = Unreached
    /\ Report(n, d)
    /\ crossed' = [crossed EXCEPT ![n] = d]
    /\ quorums' = Append(quorums, [delay |-> d, weight |-> Weight(n)])
    /\ UNCHANGED <<delays, seen, collapsed, coverage, processed, obsolete, first>>

TotalWeight == MapThenSumSet(Weight, Nodes)

\* The delay at which the running weight of the sorted samples reaches q parts of
\* the stake.
quorum_outcome(q) ==
    LET samples == SortSeq(quorums, LAMBDA a, b : a.delay < b.delay)
        total[i \in 0 .. Len(samples)] == IF i = 0 THEN 0 ELSE total[i - 1] + samples[i].weight
        enough == {i \in 1 .. Len(samples) : total[i] * Den >= q * TotalWeight}
    IN  IF enough = {} THEN Unreached ELSE samples[Min(enough)].delay

record_verification(n, held) ==
    /\ processed' = processed \union {n}
    /\ obsolete' = [obsolete EXCEPT
                       !.verifications = @ + 1,
                       !.firsts = IF n \in processed THEN @ ELSE @ + 1,
                       !.repeats = IF n \in processed THEN @ + 1 ELSE @,
                       !.reinsertions = IF n \in processed /\ ~held THEN @ + 1 ELSE @]

\* An obsolete bundle is verified, by a node that holds it or not.
ObsoleteValidated(n) ==
    /\ Report(n, clock[n])
    /\ \E held \in BOOLEAN : (held => n \in processed) /\ record_verification(n, held)
    /\ UNCHANGED <<delays, seen, collapsed, coverage, quorums, first, crossed>>

\* A node accepts the bundle before it is obsolete.
Accepted(n) ==
    /\ n \notin processed /\ first[n] # Unreached
    /\ processed' = processed \union {n}
    /\ UNCHANGED <<clock, events, generated, delays, seen, collapsed, coverage, quorums,
                   obsolete, first, crossed>>

Next ==
    \/ bundle_generated
    \/ \E n \in Nodes, d \in 0 .. MaxDelay : bundle_received(n, d) \/ record_quorum(n, d)
    \/ \E n \in Nodes : ObsoleteValidated(n) \/ Accepted(n)

Spec == Init /\ [][Next]_vars

-----------------------------------------------------------------------------
(* The reported coverage is the time by which the target number of nodes   *)
(* first had the bundle, before and after the samples are dropped, in      *)
(* whatever order the shards report the arrivals.                          *)
CoverageExact ==
    LET had == {n \in Nodes : first[n] # Unreached}
    IN  /\ Cardinality(had) >= Target <=> coverage_delay # Unreached
        /\ coverage_delay # Unreached =>
               /\ Cardinality({n \in had : first[n] <= coverage_delay}) >= Target
               /\ Cardinality({n \in had : first[n] < coverage_delay}) < Target

(* The reported quantile is the least delay by which nodes with that part  *)
(* of all stake had a quorum, and none is reported while they have not: it *)
(* depends neither on the order of the reports nor on ties among them.     *)
QuantileExact ==
    \A q \in 1 .. Den :
        LET share(d) == MapThenSumSet(Weight, {n \in Nodes : crossed[n] <= d})
        IN  quorum_outcome(q) =
                Min({d \in 0 .. MaxDelay : share(d) * Den >= q * TotalWeight} \union {Unreached})

(* Every verification of an obsolete bundle is either a node's first work  *)
(* on it or a repeat, and no node has two firsts.                          *)
RepeatsCounted ==
    /\ obsolete.verifications = obsolete.firsts + obsolete.repeats
    /\ obsolete.firsts <= Cardinality(processed \ {Producer})
    /\ obsolete.reinsertions <= obsolete.repeats
=============================================================================
