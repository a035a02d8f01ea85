------------------------------- MODULE SimLink -------------------------------
(***************************************************************************)
(* A link of the simulated network (sim-core: network/connection.rs), and  *)
(* the events by which an engine takes the messages off it: network/       *)
(* coordinator.rs of the actor engine, sim/sequential.rs of the other.     *)
(* The messages of one mini-protocol go one after the other, those of      *)
(* different ones share the bandwidth; the latency comes on top.           *)
(*                                                                         *)
(* Time is in microseconds, Second of them to the second: a small Second   *)
(* gives the code's divisions the same remainders on small numbers.  The   *)
(* TCP envelope, which only stretches the times, is left out.              *)
(***************************************************************************)
EXTENDS Integers, Sequences, FiniteSets, FiniteSetsExt, TLC

CONSTANTS Second,
          Latency, Bandwidth, \* Bandwidth 0: the link has no limit
          Protocols,          \* numbers: the order of the mini-protocols
          Sizes, MaxSends, LastSend, \* at most MaxSends messages, up to the time LastSend
          Moves               \* whether a send moves the event of the link, as in the
                              \* actor engine, or leaves it where it is

VARIABLES link,     \* the Connection
          now,
          event,    \* the time of the engine's event for the link, or Never
          sent,     \* history: the messages sent
          received  \* history: the messages taken off the link, in order

vars == <<link, now, event, sent, received>>
Never == -1

-----------------------------------------------------------------------------
(* The Connection.                                                         *)
new_inner == [queues |-> <<>>, latency_queue |-> <<>>, last_event |-> 0, next_id |-> 0]
compute_bandwidth_delay(split, bytes) == (bytes * Second * split) \div Bandwidth

Bytes(q) == IF q = <<>> THEN 0 ELSE MapThenSumSet(LAMBDA i : q[i].left, DOMAIN q)

(* The messages that bytes bytes carry to the end, and what is left.       *)
Whole(q, bytes) == Cardinality({i \in DOMAIN q : Bytes(SubSeq(q, 1, i)) <= bytes})
consume(q, bytes) ==
    LET Rest(done) == SubSeq(q, done + 1, Len(q))
        Used(done) == bytes - Bytes(SubSeq(q, 1, done))
        Left(done) == IF Rest(done) = <<>> THEN <<>> ELSE [Rest(done) EXCEPT ![1].left = @ - Used(done)]
    IN  Left(Whole(q, bytes))

(* An equal share for each mini-protocol, no more than the one with the    *)
(* fewest bytes can use; the remainder goes to the first of the others.    *)
split_bytes_amongst_queues(queues, bytes) ==
    LET n == Cardinality(DOMAIN queues)
        Less(p, q) == Bytes(queues[p]) < Bytes(queues[q]) \/ (Bytes(queues[p]) = Bytes(queues[q]) /\ p < q)
        More(each) == {p \in DOMAIN queues : each = bytes \div n /\ Bytes(queues[p]) > each}
        First(more) == {p \in more : Cardinality({q \in more : Less(q, p)}) < bytes % n}
        Shares(each) == [p \in DOMAIN queues |-> each + (IF p \in First(More(each)) THEN 1 ELSE 0)]
    IN  Shares(Min({bytes \div n} \cup {Bytes(queues[p]) : p \in DOMAIN queues}))

(* The rounds of update_bandwidth_queues: each gives every mini-protocol   *)
(* its share, no more than the shortest can use.  got has the messages     *)
(* that have all their bytes across, and when they arrive.                 *)
Across(queues, share, t0) ==
    UNION {{[id |-> queues[p][i].id, at |-> t0 + Latency
               + compute_bandwidth_delay(1, Bytes(SubSeq(queues[p], 1, i)) * Cardinality(DOMAIN queues))] :
            i \in 1..Whole(queues[p], share[p])} : p \in DOMAIN queues}
NotEmpty(queues) == [p \in {q \in DOMAIN queues : queues[q] # <<>>} |-> queues[p]]
RECURSIVE Rounds(_, _, _, _)
Rounds(queues, bytes, t0, got) ==
    LET Go(share, total) ==
            Rounds(NotEmpty([p \in DOMAIN queues |-> consume(queues[p], share[p])]), bytes - total,
                   t0 + compute_bandwidth_delay(1, total), got \cup Across(queues, share, t0))
        Round(share) == Go(share, MapThenSumSet(LAMBDA p : share[p], DOMAIN queues))
    IN  IF bytes = 0 \/ DOMAIN queues = {} THEN [queues |-> queues, got |-> got]
        ELSE Round(split_bytes_amongst_queues(queues, bytes))

Arrives(a, b) == a.at < b.at \/ (a.at = b.at /\ a.id < b.id)
RECURSIVE Sorted(_)
Sorted(S) == IF S = {} THEN <<>>
             ELSE LET first == CHOOSE x \in S : \A y \in S \ {x} : Arrives(x, y) IN <<first>> \o Sorted(S \ {first})
update_bandwidth_queues(l, t) ==
    IF Bandwidth = 0 \/ l.last_event = t THEN l
    ELSE LET Moved(r) == [l EXCEPT !.queues = r.queues, !.latency_queue = @ \o Sorted(r.got), !.last_event = t]
         IN  Moved(Rounds(l.queues, ((t - l.last_event) * Bandwidth) \div Second, l.last_event, {}))

(* A message goes to the end of the queue of its mini-protocol.            *)
Enqueue(l, bytes, p) ==
    [l EXCEPT !.next_id = @ + 1,
              !.queues = [x \in DOMAIN @ \cup {p} |->
                            IF x # p THEN @[x]
                            ELSE Append(IF p \in DOMAIN @ THEN @[p] ELSE <<>>, [id |-> l.next_id, left |-> bytes])]]
send(l, bytes, p, t) ==
    IF Bandwidth = 0
    THEN [l EXCEPT !.latency_queue = Append(@, [id |-> l.next_id, at |-> t + Latency]), !.next_id = @ + 1]
    ELSE Enqueue(update_bandwidth_queues(l, t), bytes, p)

MutNextArrival(l) ==  (* Mutant: without the latency. *)
    IF l.latency_queue # <<>> THEN Head(l.latency_queue).at
    ELSE IF DOMAIN l.queues = {} THEN Never
    ELSE l.last_event + compute_bandwidth_delay(Cardinality(DOMAIN l.queues), Min({l.queues[p][1].left : p \in DOMAIN l.queues}))
next_arrival_time(l) ==
    IF l.latency_queue # <<>> THEN Head(l.latency_queue).at
    ELSE IF DOMAIN l.queues = {} THEN Never
    ELSE l.last_event + Latency
         + compute_bandwidth_delay(Cardinality(DOMAIN l.queues), Min({l.queues[p][1].left : p \in DOMAIN l.queues}))

(* What is taken off the link, from the front.                             *)
Due(l, t) == LET late == {i \in DOMAIN l.latency_queue : l.latency_queue[i].at > t}
             IN  IF late = {} THEN Len(l.latency_queue) ELSE Min(late) - 1

-----------------------------------------------------------------------------
Init == /\ link = new_inner
        /\ now = 0 /\ event = Never
        /\ sent = <<>> /\ received = <<>>

(* A node sends: schedule_message, or apply_batch_output.                  *)
SendTo(p, bytes) ==
    /\ Len(sent) < MaxSends /\ now <= LastSend
    /\ link' = send(link, bytes, p, now)
    /\ event' = IF Moves \/ event = Never THEN next_arrival_time(link') ELSE event
    /\ sent' = Append(sent, [protocol |-> p, bytes |-> bytes, at |-> now])
    /\ UNCHANGED <<now, received>>

(* The event of the link, recv_many, and the event of what comes next.     *)
Taken(l, n) == [l EXCEPT !.latency_queue = SubSeq(@, n + 1, Len(@))]
Deliver ==
    /\ event # Never /\ event <= now
    /\ LET TakeFrom(l, n) ==
               /\ link' = Taken(l, n)
               /\ received' = received \o [i \in 1..n |-> l.latency_queue[i] @@ [seen |-> now]]
           All(l) == TakeFrom(l, Due(l, event))
       IN  All(update_bandwidth_queues(link, event))
    /\ event' = next_arrival_time(link')
    /\ UNCHANGED <<now, sent>>

(* Time goes on to the next instant at which there is something to do.     *)
Tick == /\ IF event = Never THEN now < LastSend ELSE event > now
        /\ now' = now + 1
        /\ UNCHANGED <<link, event, sent, received>>

Next == \/ \E p \in Protocols, bytes \in Sizes : SendTo(p, bytes)
        \/ Deliver
        \/ Tick

-----------------------------------------------------------------------------
Message(x) == sent[x.id + 1]
(* Messages of one mini-protocol come out in the order they went in, each  *)
(* once, whichever rounds their bytes went across in.                      *)
InOrder == \A i, j \in DOMAIN received :
    i < j => /\ received[i].id # received[j].id
             /\ Message(received[i]).protocol = Message(received[j]).protocol => received[i].id < received[j].id

(* No message is faster than the latency and the whole bandwidth allow.    *)
NotEarly == \A i \in DOMAIN received :
    LET m == Message(received[i])
    IN  received[i].at >= m.at + Latency + (IF Bandwidth = 0 THEN 0 ELSE compute_bandwidth_delay(1, m.bytes))

(* A node handles a message at the time it arrives, but for what the       *)
(* division into whole bytes gives or takes: a byte of each mini-protocol. *)
Slack == IF Bandwidth = 0 THEN 0 ELSE compute_bandwidth_delay(1, Cardinality(Protocols))
OnTime == \A i \in DOMAIN received : received[i].seen <= received[i].at + Slack

(* While something is on the link there is an event to take it off.        *)
NoneStuck == event = Never => Len(received) = Len(sent)

(* The event of a link is not put back at the time it has just had, as     *)
(* the simulation would then never come to the next instant.               *)
NeverSpins == event # Never =>
    LET l == update_bandwidth_queues(link, event)
        next == next_arrival_time(Taken(l, Due(l, event)))
    IN  next = Never \/ next > event
=============================================================================
