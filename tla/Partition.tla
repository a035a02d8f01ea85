----------------------------- MODULE Partition ------------------------------
(***************************************************************************)
(* Network partitions of a simulation (sim-core: network/partition.rs and  *)
(* the schedule config.rs compiles from the scenarios of a parameter       *)
(* file).  Time is counted in whole units; the scenarios are chosen in     *)
(* Init.  Each shard applies the schedule at the times it happens to look  *)
(* at it, and the one with the telemetry emits an event for every edge of  *)
(* a window.                                                               *)
(***************************************************************************)
EXTENDS Integers, Sequences, SequencesExt, FiniteSets

CONSTANTS Nodes, Edges,   \* Edges: undirected links, as sets of two nodes
          Scenarios,      \* sequences of [name, kind, from, to, direction, start, stop]; stop 0 = none
          MaxTime

VARIABLES scenarios, runtime, time, emitted

vars == <<scenarios, runtime, time, emitted>>

-----------------------------------------------------------------------------
(* config.rs: a selector names directed links of the topology.             *)
directed == {l \in Nodes \X Nodes : {l[1], l[2]} \in Edges}
resolve_partition_links(s) ==
    LET to == IF s.kind = "isolate" THEN Nodes \ s.from ELSE s.to
    IN  directed \cap UNION {IF s.direction = "to-from" THEN {} ELSE s.from \X to,
                             IF s.direction = "from-to" THEN {} ELSE to \X s.from}
Rejected(s) == s.start < 0 \/ (s.stop # 0 /\ s.stop <= s.start)
build_schedule(list) ==
    LET Entry(s, op, at) == [at |-> at, op |-> op, links |-> resolve_partition_links(s), name |-> s.name]
        Entries(s) == <<Entry(s, "activate", s.start)>> \o (IF s.stop = 0 THEN <<>> ELSE <<Entry(s, "heal", s.stop)>>)
    IN  IF \E i \in DOMAIN list : Rejected(list[i]) THEN <<>> ELSE FlattenSeq([i \in DOMAIN list |-> Entries(list[i])])

(* A stable sort by time.                                                  *)
RECURSIVE ByTime(_)
ByTime(entries) ==
    IF entries = <<>> THEN <<>>
    ELSE LET first == CHOOSE i \in DOMAIN entries : \A j \in DOMAIN entries :
                          entries[i].at < entries[j].at \/ (entries[i].at = entries[j].at /\ i <= j)
         IN  <<entries[first]>> \o ByTime(RemoveAt(entries, first))

-----------------------------------------------------------------------------
(* cut: how many active scenarios cut a link.                              *)
new(list) == [schedule |-> ByTime(build_schedule(list)), cursor |-> 1, cut |-> [l \in directed |-> 0], unreachable |-> FALSE]
is_link_active(from, to) == runtime.cut[<<from, to>>] = 0
next_event_time == IF runtime.cursor > Len(runtime.schedule) THEN MaxTime + 1 ELSE runtime.schedule[runtime.cursor].at

Applied(r, e) ==
    [r EXCEPT !.cursor = @ + 1,
              !.unreachable = @ \/ (e.op = "heal" /\ \E l \in e.links : r.cut[l] = 0),
              !.cut = [l \in directed |-> IF l \notin e.links THEN @[l]
                                          ELSE IF e.op = "activate" THEN @[l] + 1 ELSE @[l] - 1]]
Due(r, now) == r.cursor <= Len(r.schedule) /\ r.schedule[r.cursor].at <= now
RECURSIVE AllApplied(_, _)
AllApplied(r, now) == IF Due(r, now) THEN AllApplied(Applied(r, r.schedule[r.cursor]), now) ELSE r

(* The engine looks at its schedule when something happens at time now.    *)
advance_to(now) ==
    LET r == AllApplied(runtime, now)
    IN  /\ now \in time..MaxTime /\ time' = now
        /\ runtime' = r
        /\ emitted' = emitted \o SubSeq(r.schedule, runtime.cursor, r.cursor - 1)
        /\ UNCHANGED scenarios

Init == /\ scenarios \in Scenarios
        /\ runtime = new(scenarios) /\ time = 0 /\ emitted = <<>>
Next == \E now \in 0..MaxTime : advance_to(now)

-----------------------------------------------------------------------------
Looked == next_event_time > time
Valid == \A i \in DOMAIN scenarios : ~Rejected(scenarios[i])

(* A link is open exactly when no window of a scenario covers the time: a  *)
(* heal never reopens a link that an overlapping window still cuts, nor    *)
(* meets a link that was not cut ("healed a link that was never cut").     *)
CutExact ==
    /\ ~runtime.unreachable
    /\ Valid /\ Looked => \A l \in directed : is_link_active(l[1], l[2]) <=>
          ~ \E i \in DOMAIN scenarios : LET s == scenarios[i]
                IN  l \in resolve_partition_links(s) /\ s.start <= time /\ (s.stop = 0 \/ time < s.stop)

(* "each entry fires exactly once": however rarely or often the engine     *)
(* looks, each edge of a window that is past has been reported once, and   *)
(* in the order of time.                                                   *)
EdgesOnce ==
    /\ \A i \in 1..(Len(emitted) - 1) : emitted[i].at <= emitted[i + 1].at
    /\ Valid /\ Looked => \A i \in DOMAIN scenarios : \A op \in {"activate", "heal"} :
          LET s == scenarios[i]
              at == IF op = "activate" THEN s.start ELSE s.stop
              due == at <= time /\ (op = "activate" \/ at # 0)
          IN  Cardinality({k \in DOMAIN emitted : emitted[k].name = s.name /\ emitted[k].op = op}) = IF due THEN 1 ELSE 0
=============================================================================
