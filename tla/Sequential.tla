----------------------------- MODULE Sequential -----------------------------
(***************************************************************************)
(* The sequential engine of the simulator split over shards, each run by a *)
(* thread of its own (sim-core: sim/sequential.rs, network/partition.rs).  *)
(* A shard handles the events of its nodes in the order of their times.    *)
(* It may go ahead of another shard by less than the latency of the links  *)
(* between the two: it publishes its time before it handles what is due    *)
(* then, and reads the times the others have published.                    *)
(*                                                                         *)
(* A node sends, in each slot, to its peers of SlotSends, and passes what  *)
(* it receives on to those of Relays once its CPU has worked for CpuTime;  *)
(* links have a latency and no bandwidth limit (SimLink models those that  *)
(* have one).  The events of the transaction generator are like the slots. *)
(***************************************************************************)
EXTENDS Naturals, Sequences, SequencesExt, FiniteSets, FiniteSetsExt, Functions

CONSTANTS Nodes, Shards,      \* numbers
          ShardOf(_),         \* shard_lookup
          Latency(_, _),      \* of the link between two nodes, 0 if there is none
          SlotSends(_, _),    \* SlotSends(n, slot): the peers n sends to
          Relays(_), MaxHops, \* the peers n passes a message on to, and how far
          CpuTime,
          Resolution,         \* timestamp_resolution
          SlotTime, MaxSlot,  \* one second, config.slots
          Cut(_, _, _)        \* Cut(from, to, t): whether a partition cuts the link then

VARIABLES shard,    \* what a shard keeps to itself
          time,     \* shared_time of each shard
          inbox,    \* the messages on the mpsc channel to each shard
          cancelled, \* the CancellationToken
          reference \* what the nodes handle in the same simulation on one shard

vars == <<shard, time, inbox, cancelled, reference>>

End == MaxSlot * SlotTime
quantize(t) == ((t + Resolution - 1) \div Resolution) * Resolution
Links == {<<a, b>> \in Nodes \X Nodes : Latency(a, b) > 0}
(* The other shards with a link to this one, and the least latency.        *)
Between(p, s) == {Latency(l[1], l[2]) : l \in {k \in Links : ShardOf(k[1]) = p /\ ShardOf(k[2]) = s}}
peer_shards(s) == {p \in Shards \ {s} : Between(p, s) # {}}
min_latency(p, s) == Max({Resolution, Min(Between(p, s))})

-----------------------------------------------------------------------------
(* The events of a shard, and what handling them does.                     *)
SlotEvent(at, n, slot) == [at |-> at, key |-> <<3, n, 0, slot>>, msg |-> <<>>]
LinkEvent(at, link) == [at |-> at, key |-> <<2, link[1], link[2], 0>>, msg |-> <<>>]
TaskEvent(at, n, id, msg) == [at |-> at, key |-> <<3, n, 1, id>>, msg |-> msg]
(* By the key, the sort_key of an event or that of a pending message.      *)
Before(a, b) == \E i \in DOMAIN a.key : a.key[i] < b.key[i] /\ \A j \in 1..(i - 1) : a.key[j] = b.key[j]
RECURSIVE Sorted(_)
Sorted(S) == IF S = {} THEN <<>>
             ELSE LET first == CHOOSE x \in S : \A y \in S \ {x} : Before(x, y) IN <<first>> \o Sorted(S \ {first})

Engine(nodes) == [queue |-> {SlotEvent(0, n, 0) : n \in nodes},
                  conns |-> [l \in {k \in Links : k[2] \in nodes} |-> <<>>],
                  pending_deliveries |-> {}, next_task |-> [n \in nodes |-> 0], send_seq |-> 0,
                  log |-> [n \in nodes |-> <<>>], sent |-> {}]
NextTime(e) == Min({x.at : x \in e.queue})

(* connection.send, and the event of the delivery unless there is one.     *)
ScheduleLink(e, link) ==
    IF link \in e.pending_deliveries \/ e.conns[link] = <<>> THEN e
    ELSE [e EXCEPT !.pending_deliveries = @ \cup {link},
                   !.queue = @ \cup {LinkEvent(quantize(Head(e.conns[link]).at), link)}]
deliver_cross_shard_msg(e, m) ==
    ScheduleLink([e EXCEPT !.conns[m.link] = Append(@, [body |-> m.body, at |-> m.send_time + Latency(m.link[1], m.link[2])])],
                 m.link)

RECURSIVE DeliverAll(_, _)
DeliverAll(e, msgs) == IF msgs = <<>> THEN e ELSE DeliverAll(deliver_cross_shard_msg(e, Head(msgs)), Tail(msgs))

(* The node's messages of a batch: those of a cut link are dropped, those  *)
(* for another shard are kept in sent.                                     *)
Send(e, from, to, body, t) ==
    LET msg == [link |-> <<from, to>>, body |-> body, send_time |-> t, key |-> <<t, ShardOf(from), e.send_seq>>]
    IN  IF Cut(from, to, t) THEN e
        ELSE IF to \notin DOMAIN e.log THEN [e EXCEPT !.send_seq = @ + 1, !.sent = @ \cup {msg}]
        ELSE deliver_cross_shard_msg(e, msg)
RECURSIVE apply_batch_output(_, _, _, _, _)
apply_batch_output(e, from, peers, body, t) ==
    IF peers = {} THEN e
    ELSE apply_batch_output(Send(e, from, Min(peers), body, t), from, peers \ {Min(peers)}, body, t)

(* The work of the node of one event, in the order of the batch: a message *)
(* starts a CPU task, the end of which passes it on.                       *)
Arrived(e, link, t) == SelectSeq(e.conns[link], LAMBDA m : m.at <= t)
Handle(e, x, t) ==
    LET n == IF x.key[1] = 2 THEN x.key[3] ELSE x.key[2]
        link == <<x.key[2], x.key[3]>>
        msgs == Arrived(e, link, t)
        got == [e EXCEPT !.conns[link] = SubSeq(@, Len(msgs) + 1, Len(@)), !.pending_deliveries = @ \ {link},
                         !.next_task[n] = @ + Len(msgs),
                         !.queue = @ \cup {TaskEvent(quantize(t + CpuTime), n, e.next_task[n] + i, msgs[i].body) : i \in DOMAIN msgs},
                         !.log[n] = @ \o [i \in DOMAIN msgs |-> <<t, link[1], msgs[i].body>>]]
    IN  CASE x.key[1] = 2 -> ScheduleLink(got, link)
          [] x.key[1] = 3 /\ x.key[3] = 0 ->
               apply_batch_output([e EXCEPT !.queue = @ \cup {SlotEvent(quantize(t + SlotTime), n, x.key[4] + 1)},
                                            !.log[n] = Append(@, <<t, x.key[4]>>)],
                                  n, SlotSends(n, x.key[4]), <<n, x.key[4], 0>>, t)
          [] x.key[1] = 3 /\ x.key[3] = 1 ->
               IF x.msg[3] = MaxHops THEN e
               ELSE apply_batch_output(e, n, Relays(n), [x.msg EXCEPT ![3] = @ + 1], t)
RECURSIVE HandleAll(_, _, _)
HandleAll(e, events, t) == IF events = <<>> THEN e ELSE HandleAll(Handle(e, Head(events), t), Tail(events), t)
(* All the events of a time, sorted by their content.  A time that is no   *)
(* longer the first leaves the queue as it is.                             *)
Batch(e, t) ==
    LET batch == IF NextTime(e) = t THEN {x \in e.queue : x.at = t} ELSE {}
    IN  HandleAll([e EXCEPT !.queue = @ \ batch], Sorted(batch), t)
(* The same simulation on one shard, up to the end.                        *)
RECURSIVE Run(_)
Run(e) == IF NextTime(e) >= End THEN e.log ELSE Run(Batch(e, NextTime(e)))

-----------------------------------------------------------------------------
(* The threads.                                                            *)
Init == /\ shard = [s \in Shards |-> [pc |-> "drain", at |-> 0, pending |-> {},
                                      engine |-> Engine({n \in Nodes : ShardOf(n) = s})]]
        /\ time = [s \in Shards |-> 0]
        /\ inbox = [s \in Shards |-> {}]
        /\ cancelled = FALSE
        /\ reference = Run(Engine(Nodes))

Go(s, pc) == shard' = [shard EXCEPT ![s].pc = pc]

(* drain_cross_shard_safe first takes what is on the channel ...           *)
TakeAll(s, pc) ==
    /\ shard' = [shard EXCEPT ![s].pc = pc, ![s].pending = @ \cup inbox[s]]
    /\ inbox' = [inbox EXCEPT ![s] = {}]
    /\ UNCHANGED <<time, cancelled>>
Drain(s) ==
    /\ shard[s].pc = "drain"
    /\ IF cancelled THEN Go(s, "stopped") /\ UNCHANGED <<time, inbox, cancelled>>
       ELSE TakeAll(s, "deliver")

(* ... and then hands on what was sent before all the times of the peers.  *)
Safe(s) == Min({time[p] : p \in peer_shards(s)})
HandOn(s, pc) ==
    LET ready == {m \in shard[s].pending : m.send_time < Safe(s)}
    IN  /\ shard' = [shard EXCEPT ![s].pc = pc, ![s].pending = @ \ ready,
                      ![s].engine = DeliverAll(@, Sorted(ready))]
        /\ UNCHANGED <<time, inbox, cancelled>>
Deliver(s) == shard[s].pc = "deliver" /\ HandOn(s, "check")

(* A shard with nothing left before the end, and with no peer that could   *)
(* still send it something, stops them all.  One that is ahead of its      *)
(* peers publishes how far it could go, and waits.                         *)
Ceiling(s) == Min({time[p] + min_latency(p, s) : p \in peer_shards(s)})
MutCheck(s) ==  (* Mutant: a shard that waits does not publish how far it could go. *)
    /\ shard[s].pc = "check"
    /\ LET t == NextTime(shard[s].engine)
       IN  IF t >= End /\ Ceiling(s) >= End THEN Go(s, "stopped") /\ cancelled' = TRUE /\ UNCHANGED time
           ELSE /\ shard' = [shard EXCEPT ![s].pc = IF t >= Ceiling(s) THEN "drain" ELSE "redrain", ![s].at = t]
                /\ UNCHANGED <<time, cancelled>>
    /\ UNCHANGED inbox
Check(s) ==
    /\ shard[s].pc = "check"
    /\ LET t == NextTime(shard[s].engine)
       IN  IF t >= End /\ Ceiling(s) >= End THEN Go(s, "stopped") /\ cancelled' = TRUE /\ UNCHANGED time
           ELSE IF t >= Ceiling(s)
           THEN Go(s, "drain") /\ time' = [time EXCEPT ![s] = Max({@, Ceiling(s)})] /\ UNCHANGED cancelled
           ELSE /\ shard' = [shard EXCEPT ![s].pc = "redrain", ![s].at = t]
                /\ UNCHANGED <<time, cancelled>>
    /\ UNCHANGED inbox

(* Once more, now that the peers can send nothing that is due by then.     *)
Redrain(s) == shard[s].pc = "redrain" /\ TakeAll(s, "redeliver")
Redeliver(s) == shard[s].pc = "redeliver" /\ HandOn(s, "publish")

(* The time is published before anything is sent at it.                    *)
Publish(s) ==
    /\ shard[s].pc = "publish"
    /\ time' = [time EXCEPT ![s] = shard[s].at]
    /\ Go(s, "process") /\ UNCHANGED <<inbox, cancelled>>
Process(s) ==
    /\ shard[s].pc = "process"
    /\ LET e == Batch(shard[s].engine, shard[s].at)
       IN  /\ shard' = [shard EXCEPT ![s].pc = "drain", ![s].engine = [e EXCEPT !.sent = {}]]
           /\ inbox' = [p \in Shards |-> inbox[p] \cup {m \in e.sent : ShardOf(m.link[2]) = p}]
    /\ UNCHANGED <<time, cancelled>>

Step(s) == /\ Drain(s) \/ Deliver(s) \/ Check(s) \/ Redrain(s) \/ Redeliver(s) \/ Publish(s) \/ Process(s)
           /\ UNCHANGED reference
Next == \E s \in Shards : Step(s)
(* Each thread that has not stopped goes on: all its steps change pc.      *)
Ended(s) == shard[s].pc = "stopped"
GoesOn(s) == shard'[s].pc # shard[s].pc
Scheduled == \A s \in Shards : ([]<>Ended(s)) \/ []<><<GoesOn(s)>>_vars

-----------------------------------------------------------------------------
(* What a node has handled so far, and when, is what it handles on one     *)
(* shard: neither the split into shards nor the scheduling of the threads  *)
(* shows in a simulation.                                                  *)
Deterministic == \A n \in Nodes : IsPrefix(shard[ShardOf(n)].engine.log[n], reference[n])

(* A message to another shard is on the channel, pending, on its link or   *)
(* handled, once: none is lost between two threads and none handled twice. *)
From(s, msgs) == {m \in msgs : m.key[2] = s}
EachOnce == \A s \in Shards :
    LET others == {l \in Links : ShardOf(l[1]) = s /\ ShardOf(l[2]) # s}
        Of(l) == shard[ShardOf(l[2])].engine
        handled(l) == Len(SelectSeq(Of(l).log[l[2]], LAMBDA x : Len(x) = 3 /\ x[2] = l[1]))
        waiting == UNION {From(s, inbox[p] \cup shard[p].pending) : p \in Shards}
    IN  shard[s].engine.send_seq = Cardinality(waiting) + MapThenSumSet(LAMBDA l : handled(l) + Len(Of(l).conns[l]), others)

(* Every shard comes to a stop: no circle of shards waits, each for the    *)
(* next one's time.                                                        *)
Stopped == \A s \in Shards : Ended(s)
AllStop == <>Stopped
=============================================================================
