------------------------------ MODULE Sharding ------------------------------
(***************************************************************************)
(* How the nodes of a simulation are shared out among its shards (sim-     *)
(* core: sharding.rs, sharding/).  A shard may run ahead of another by the *)
(* least latency of the links between them, so nodes joined by links       *)
(* without latency belong together, and long links are the ones to cut.    *)
(*                                                                         *)
(* The k-means of geographic.rs is an arbitrary grouping of the            *)
(* components: what it does with coordinates is not modelled.              *)
(***************************************************************************)
EXTENDS Integers, Sequences, SequencesExt, FiniteSets, FiniteSetsExt

CONSTANTS Nodes,        \* 0..n-1
          Topologies,   \* sets of links [a, b, latency]
          ShardCount,
          MaxSizePct    \* shard_max_size_pct

VARIABLES links, strategy, lookup, bisections

vars == <<links, strategy, lookup, bisections>>
Shards == 0..(ShardCount - 1)
Strategies == {"round-robin", "zero-latency-clusters", "geographic", "min-latency-clusters", "min-cut"}

-----------------------------------------------------------------------------
(* union_find.rs: find halves the path it goes.                            *)
RECURSIVE find(_, _)
find(parent, x) == IF parent[x] = x THEN [root |-> x, parent |-> parent]
                   ELSE LET up == parent[parent[x]] IN find([parent EXCEPT ![x] = up], up)
union(parent, a, b) ==
    LET Join(ra, rb) == IF ra.root = rb.root THEN rb.parent ELSE [rb.parent EXCEPT ![ra.root] = rb.root]
    IN  Join(find(parent, a), find(find(parent, a).parent, b))

(* Links in an order, and components in the order of their roots.          *)
InOrder(l, k) == \/ l.latency < k.latency
                 \/ l.latency = k.latency /\ (l.a < k.a \/ (l.a = k.a /\ l.b < k.b))
RECURSIVE Sorted(_)
Sorted(L) == IF L = {} THEN <<>>
             ELSE LET first == CHOOSE l \in L : \A k \in L \ {l} : InOrder(l, k) IN <<first>> \o Sorted(L \ {first})
RECURSIVE Ascending(_)
Ascending(S) == IF S = {} THEN <<>> ELSE <<Min(S)>> \o Ascending(S \ {Min(S)})
Components(parent) ==
    LET root(n) == find(parent, n).root
        Under(roots) == [i \in DOMAIN roots |-> {n \in Nodes : root(n) = roots[i]}]
    IN  Under(Ascending({root(n) : n \in Nodes}))

RECURSIVE UnionAll(_, _)
UnionAll(parent, edges) == IF edges = <<>> THEN parent ELSE UnionAll(union(parent, Head(edges).a, Head(edges).b), Tail(edges))
build_zero_latency_components ==
    Components(UnionAll([n \in Nodes |-> n], Sorted({l \in links : l.latency = 0})))

(* The largest first, each to the shard with the fewest nodes.             *)
RECURSIVE Place(_, _)
Place(comps, at) ==
    IF comps = {} THEN at
    ELSE LET CountIn(s) == Cardinality({n \in DOMAIN at : at[n] = s})
             To(next, shard) ==
                Place(comps \ {next}, [n \in DOMAIN at \cup next |-> IF n \in next THEN shard ELSE at[n]])
         IN  To(CHOOSE c \in comps : \A d \in comps \ {c} :
                   Cardinality(c) > Cardinality(d) \/ (Cardinality(c) = Cardinality(d) /\ Min(c) < Min(d)),
                Min({s \in Shards : \A t \in Shards : CountIn(s) <= CountIn(t)}))
assign_components_balanced(comps) == Place(ToSet(comps), <<>>)

-----------------------------------------------------------------------------
(* min_latency_clusters.rs: the shortest links join components first,      *)
(* until there is one for each shard; none gets too large.                 *)
max_shard_size == ((Cardinality(Nodes) \div ShardCount) * MaxSizePct) \div 100
RECURSIVE Merge(_, _, _)
Merge(parent, edges, remaining) ==
    IF edges = <<>> \/ remaining <= ShardCount THEN parent
    ELSE LET root(n) == find(parent, n).root
             CountIn(roots) == Cardinality({n \in Nodes : root(n) \in roots})
             Try(e) == IF root(e.a) = root(e.b) \/ CountIn({root(e.a), root(e.b)}) > max_shard_size
                       THEN Merge(parent, Tail(edges), remaining)
                       ELSE Merge(union(parent, e.a, e.b), Tail(edges), remaining - 1)
         IN  Try(Head(edges))
min_latency_clusters(comps) ==
    LET parent == [n \in Nodes |-> Min(CHOOSE c \in ToSet(comps) : n \in c)]
    IN  IF Len(comps) <= ShardCount THEN assign_components_balanced(comps)
        ELSE assign_components_balanced(Components(Merge(parent, Sorted({l \in links : l.latency > 0}), Len(comps))))

-----------------------------------------------------------------------------
(* min_cut.rs: the components are halved, the larger part again, until     *)
(* there is one part for each shard.  Parts are sequences of components.   *)
Nodes_(part) == UNION ToSet(part)
Weight(c, d) == Cardinality({l \in links : (l.a \in c /\ l.b \in d) \/ (l.a \in d /\ l.b \in c)})
Cut(part, side) == LET n == DOMAIN part
                   IN  MapThenSumSet(LAMBDA p : Weight(part[p[1]], part[p[2]]), {p \in n \X n : p[1] \notin side /\ p[2] \in side})

(* side: the indices in B.  A is the longest prefix within half the size.  *)
Prefix(part) ==
    LET half == Cardinality(Nodes_(part)) \div 2
        fits == {i \in DOMAIN part : Cardinality(Nodes_(SubSeq(part, 1, i))) <= half}
    IN  {i \in DOMAIN part : i \notin fits}

(* gain: what the cut loses by moving i to the other side.                 *)
Gain(part, side, i) == MapThenSumSet(LAMBDA j : IF (j \in side) = (i \in side) THEN -Weight(part[i], part[j])
                                                ELSE Weight(part[i], part[j]), DOMAIN part \ {i})
(* The pair of the greatest gain: the first when each side is ordered by   *)
(* falling gain.                                                           *)
BestPair(part, side, locked) ==
    LET gain(i) == Gain(part, side, i)
        both(p) == gain(p[1]) + gain(p[2]) - 2 * Weight(part[p[1]], part[p[2]])
        Ahead(i, j) == gain(i) > gain(j) \/ (gain(i) = gain(j) /\ i < j)
        pairs == {p \in ((DOMAIN part \ side) \ locked) \X (side \ locked) : TRUE}
        best == {p \in pairs : \A q \in pairs : both(p) >= both(q)}
    IN  CHOOSE p \in best : \A q \in best \ {p} : Ahead(p[1], q[1]) \/ (p[1] = q[1] /\ Ahead(p[2], q[2]))

(* A round swaps pair after pair, each component once, and keeps the       *)
(* prefix of the swaps with the greatest sum, if that is an improvement.   *)
RECURSIVE Swaps(_, _, _, _, _)
Swaps(part, side, locked, sum, best) ==
    IF Cardinality(locked) \div 2 = Len(part) \div 2 \/ DOMAIN part \ side \subseteq locked \/ side \subseteq locked THEN best
    ELSE LET PairGain(p) == Gain(part, side, p[1]) + Gain(part, side, p[2]) - 2 * Weight(part[p[1]], part[p[2]])
             Go(p, total, swapped) ==
                Swaps(part, swapped, locked \cup {p[1], p[2]}, total,
                      IF total > best.sum THEN [sum |-> total, side |-> swapped] ELSE best)
             Swap(p) == Go(p, sum + PairGain(p), (side \cup {p[1]}) \ {p[2]})
         IN  Swap(BestPair(part, side, locked))
RECURSIVE Refine(_, _, _)
Round(part, side) == Swaps(part, side, {}, 0, [sum |-> 0, side |-> side])
Refine(part, side, rounds) ==
    LET Again(r) == IF rounds = 0 \/ r.sum <= 0 THEN r.side ELSE Refine(part, r.side, rounds - 1)
    IN  Again(Round(part, side))
bisect_kl(part) == IF Len(part) <= 1 THEN {} ELSE Refine(part, Prefix(part), 10)

Pick(part, I) == [k \in 1..Cardinality(I) |-> part[Ascending(I)[k]]]
(* The last of the largest is taken out (the last part takes its place)    *)
(* and its halves are added; done has the bisections made.                 *)
Largest(parts) == LET CountIn(i) == Cardinality(Nodes_(parts[i]))
                  IN  Max({i \in DOMAIN parts : \A j \in DOMAIN parts : CountIn(j) <= CountIn(i)})
Halved(parts, at, side) ==
    SubSeq([parts EXCEPT ![at] = parts[Len(parts)]], 1, Len(parts) - 1)
    \o <<Pick(parts[at], DOMAIN parts[at] \ side), Pick(parts[at], side)>>
RECURSIVE Split(_, _)
Split(parts, done) ==
    LET Go(at, side) == Split(Halved(parts, at, side), done \cup {[part |-> parts[at], side |-> side]})
        Bisect(at) == Go(at, bisect_kl(parts[at]))
    IN  IF Len(parts) >= ShardCount THEN [parts |-> parts, done |-> done] ELSE Bisect(Largest(parts))
min_cut(comps) ==
    LET Shard(n, parts) == (CHOOSE i \in DOMAIN parts : n \in Nodes_(parts[i])) - 1
        Of(split) == [at |-> [n \in Nodes |-> Shard(n, split.parts)], done |-> split.done]
    IN  IF Len(comps) <= ShardCount THEN [at |-> assign_components_balanced(comps), done |-> {}]
        ELSE Of(Split(<<comps>>, {}))

-----------------------------------------------------------------------------
Init == /\ links \in Topologies
        /\ strategy = "none" /\ lookup = <<>> /\ bisections = {}

round_robin == [n \in Nodes |-> n % ShardCount]
(* geographic.rs clusters the components by where their nodes are (seeds   *)
(* and rounds of k-means): any assignment of whole components.             *)
geographic(comps) ==
    IF Len(comps) <= ShardCount THEN {assign_components_balanced(comps)}
    ELSE {[n \in Nodes |-> f[CHOOSE i \in DOMAIN comps : n \in comps[i]]] : f \in [DOMAIN comps -> Shards]}

compute_shard_lookup(s) ==
    LET Chosen(at, done) == lookup' = at /\ bisections' = done
        By(comps) ==
          CASE s = "round-robin" -> Chosen(round_robin, {})
            [] s = "zero-latency-clusters" -> Chosen(assign_components_balanced(comps), {})
            [] s = "min-latency-clusters" -> Chosen(min_latency_clusters(comps), {})
            [] s = "min-cut" -> LET Both(r) == Chosen(r.at, r.done) IN Both(min_cut(comps))
            [] s = "geographic" -> \E at \in geographic(comps) : Chosen(at, {})
    IN  By(build_zero_latency_components)

Next == \E s \in Strategies : /\ strategy = "none" /\ strategy' = s
                              /\ compute_shard_lookup(s)
                              /\ UNCHANGED links

-----------------------------------------------------------------------------
Across(at) == {l \in links : at[l.a] # at[l.b]}
Lookahead(at) == Min({l.latency : l \in Across(at)} \cup {1000})

(* Every node has a shard, and only round-robin separates nodes that are   *)
(* linked without latency, which leaves their shards no lookahead at all.  *)
ZeroTogether == strategy # "none" =>
    /\ DOMAIN lookup = Nodes /\ \A n \in Nodes : lookup[n] \in Shards
    /\ strategy # "round-robin" => Lookahead(lookup) > 0

(* "This maximizes the minimum cross-shard latency": no other way to fill  *)
(* as many shards gives a greater one, provided no size is too large.      *)
LookaheadBest == strategy = "min-latency-clusters" =>
    \A at \in [Nodes -> Shards] :
        Cardinality({at[n] : n \in Nodes}) >= Cardinality({lookup[n] : n \in Nodes}) => Lookahead(at) <= Lookahead(lookup)

(* Swapping components never makes the cut of a bisection greater than     *)
(* that of the two halves it begins with, and keeps the number in each.    *)
NeverWorse == \A b \in bisections :
    /\ Cut(b.part, b.side) <= Cut(b.part, Prefix(b.part))
    /\ Len(b.part) > 1 => Cardinality(b.side) = Cardinality(Prefix(b.part))
=============================================================================
