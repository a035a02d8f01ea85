----------------------------- MODULE ActorEngine -----------------------------
(***************************************************************************)
(* The actor engine of the simulator (sim-core: clock.rs, clock/           *)
(* coordinator.rs, network.rs, network/coordinator.rs, sim/driver.rs,      *)
(* sim/slot.rs, sim/tx.rs, sim/actor.rs).  Nodes, the network, the source  *)
(* of transactions and the witness of the slots are tasks of the runtime;  *)
(* a clock coordinator per shard moves the time on once all the actors of  *)
(* the shard wait.  A message that is under way between two actors is a    *)
(* task: the time stands still while the count of tasks is not zero.       *)
(*                                                                         *)
(* Every step is what a task does between two operations that another      *)
(* thread can see.  Links have a latency and no bandwidth limit (SimLink   *)
(* models those that have one), and no partition cuts them.                *)
(***************************************************************************)
EXTENDS Integers, Sequences, SequencesExt, FiniteSets, FiniteSetsExt

CONSTANTS Nodes, Shards,    \* numbers
          ShardOf(_),
          Latency(_, _),    \* of the link between two nodes, 0 if there is none
          SlotSends(_, _),  \* SlotSends(n, slot): the peers n sends to
          Relays(_),        \* the peers n passes on to what it receives
          MaxHops,
          CpuTime,          \* the time n works on what it receives
          TxTimes,          \* the times of the transactions, all for the node TxNode
          TxNode,
          SlotTime, MaxSlot

VARIABLES clock,    \* of each shard: what its coordinator and its Clock share
          coord,    \* of each shard: what its coordinator keeps to itself
          actor,    \* of each actor: where it is, and its own events
          net,      \* of each shard: the channels and links of its network
          inbox,    \* of each node: the messages on its channel
          txs,      \* of each node: the transactions on its channel
          handled,  \* history: what nodes have handled, when it was due, and when it was
          stopped, panicked

vars == <<clock, coord, actor, net, inbox, txs, handled, stopped, panicked>>

(* The ids that barrier hands out: the nodes, and from 10 on the others.   *)
Network(s) == 10 + s
Producer == 20
Witness == 21
HomeOf(a) == IF a \in Nodes THEN ShardOf(a) ELSE IF a >= Producer THEN 0 ELSE a - 10
(* A producer that has nothing to produce only waits for ever.             *)
Actors == Nodes \cup {Network(s) : s \in Shards} \cup {Witness} \cup (IF TxTimes = {} THEN {} ELSE {Producer})
ActorsOf(s) == {a \in Actors : HomeOf(a) = s}
Never == -1
Idle == [kind |-> "idle"]
now(a) == clock[HomeOf(a)].time

Links(s) == {l \in Nodes \X Nodes : Latency(l[1], l[2]) > 0 /\ ShardOf(l[2]) = s}
Between(p, s) == {Latency(l[1], l[2]) : l \in {k \in Links(s) : ShardOf(k[1]) = p}}
peer_shards(s) == {p \in Shards \ {s} : Between(p, s) # {}}
Ceiling(s) == Min({clock[p].time + Min(Between(p, s)) : p \in peer_shards(s)})

Init ==
    /\ clock = [s \in Shards |-> [time |-> 0, tasks |-> 0, permit |-> FALSE, chan |-> <<>>]]
    /\ coord = [s \in Shards |-> [pc |-> "events", waiters |-> [a \in ActorsOf(s) |-> [waits |-> FALSE]],
                                  queue |-> {}, running |-> Cardinality(ActorsOf(s)), woken |-> FALSE]]
    /\ actor = [a \in Actors |-> [pc |-> "loop", waiter |-> "none", doing |-> Idle,
                                  events |-> IF a \in Nodes THEN {[at |-> 0, what |-> <<"slot", 0>>]}
                                             ELSE IF a = Producer THEN {[at |-> t, what |-> <<"tx", t>>] : t \in TxTimes}
                                             ELSE IF a = Witness THEN {[at |-> SlotTime, what |-> <<"slot", 1>>]}
                                             ELSE {}]]
    /\ net = [s \in Shards |-> [source |-> <<>>, cross |-> <<>>, links |-> [l \in Links(s) |-> <<>>]]]
    /\ inbox = [n \in Nodes |-> <<>>] /\ txs = [n \in Nodes |-> <<>>]
    /\ handled = {} /\ stopped = FALSE /\ panicked = FALSE

-----------------------------------------------------------------------------
(* The coordinator of a shard.                                             *)

(* An event of an actor on the channel.  A wait that has come too late is  *)
(* one until now.                                                          *)
handle_event(s) ==
    LET e == Head(clock[s].chan)
        until == IF e.kind = "Wait" /\ e.until # Never THEN Max({e.until, clock[s].time}) ELSE Never
        waits == coord[s].waiters[e.actor].waits
    IN  /\ clock' = [clock EXCEPT ![s].chan = Tail(@)]
        /\ panicked' = (panicked \/ (e.kind = "Wait" /\ (waits \/ coord[s].running = 0)))
        /\ coord' = [coord EXCEPT ![s] =
             IF e.kind = "Wait"
             THEN [@ EXCEPT !.waiters[e.actor] = [waits |-> TRUE, until |-> until], !.running = @ - 1,
                            !.queue = IF until = Never THEN @ ELSE @ \cup {<<until, e.actor>>},
                            !.pc = IF coord[s].running = 1 THEN "check" ELSE "events"]
             ELSE IF waits
             THEN [@ EXCEPT !.waiters[e.actor] = [waits |-> FALSE], !.running = @ + 1, !.pc = "events"]
             ELSE [@ EXCEPT !.pc = IF coord[s].running = 0 THEN "check" ELSE "events"]]

(* Some actor runs, or none does and the time cannot move: the next event. *)
Event(s) ==
    /\ coord[s].pc \in {"events", "blocked"} /\ clock[s].chan # <<>>
    /\ handle_event(s)
    /\ UNCHANGED <<actor, net, inbox, txs, handled, stopped>>

(* The peers that wait for this shard's time hear of a new one.            *)
Wake(s, c) == [p \in Shards |-> IF s \in peer_shards(p) /\ c[p].pc = "blocked" THEN [c[p] EXCEPT !.woken = TRUE] ELSE c[p]]

(* All wait: the time goes to the first event unless a task is under way   *)
(* or a peer could still send something that is due before.  The waiters   *)
(* of that time run again, but for those that have since been cancelled;   *)
(* one whose actor has already dropped it only counts as running.          *)
Fire(up) == [a \in Actors |-> IF a \in up /\ ~\E i \in DOMAIN clock[HomeOf(a)].chan : clock[HomeOf(a)].chan[i].actor = a
                              THEN [actor[a] EXCEPT !.waiter = "fired"] ELSE actor[a]]
First(s) == Min({e[1] : e \in coord[s].queue})
Block(s) == coord' = [coord EXCEPT ![s].pc = "blocked", ![s].woken = FALSE]
Blocked(s) == clock[s].tasks # 0 \/ coord[s].queue = {}
Late(s) == peer_shards(s) # {} /\ First(s) > Ceiling(s)
MutCheck(s) ==  (* Mutant: the time moves on though a task is under way. *)
    /\ coord[s].pc = "check"
    /\ LET t == First(s)
           up == {e[2] : e \in {x \in coord[s].queue : x[1] = t /\ coord[s].waiters[x[2]] = [waits |-> TRUE, until |-> t]}}
           moved == [coord EXCEPT ![s].queue = {e \in @ : e[1] # t}, ![s].running = Cardinality(up),
                                  ![s].pc = IF up = {} THEN "check" ELSE "events",
                                  ![s].waiters = [a \in DOMAIN @ |-> IF a \in up THEN [waits |-> FALSE] ELSE @[a]]]
       IN  IF coord[s].queue = {} THEN Block(s) /\ UNCHANGED <<clock, actor>>
           ELSE IF Late(s)
           THEN /\ clock' = [clock EXCEPT ![s].time = Max({@, Ceiling(s)})]
                /\ coord' = LET c == [coord EXCEPT ![s].pc = "blocked", ![s].woken = FALSE]
                            IN  IF Ceiling(s) > clock[s].time THEN Wake(s, c) ELSE c
                /\ UNCHANGED actor
           ELSE /\ clock' = [clock EXCEPT ![s].time = t]
                /\ coord' = Wake(s, moved)
                /\ actor' = Fire(up)
    /\ UNCHANGED <<net, inbox, txs, handled, stopped, panicked>>
Check(s) ==
    /\ coord[s].pc = "check"
    /\ LET t == First(s)
           up == {e[2] : e \in {x \in coord[s].queue : x[1] = t /\ coord[s].waiters[x[2]] = [waits |-> TRUE, until |-> t]}}
           moved == [coord EXCEPT ![s].queue = {e \in @ : e[1] # t}, ![s].running = Cardinality(up),
                                  ![s].pc = IF up = {} THEN "check" ELSE "events",
                                  ![s].waiters = [a \in DOMAIN @ |-> IF a \in up THEN [waits |-> FALSE] ELSE @[a]]]
       IN  IF Blocked(s) THEN Block(s) /\ UNCHANGED <<clock, actor>>
           ELSE IF Late(s)
           THEN /\ clock' = [clock EXCEPT ![s].time = Max({@, Ceiling(s)})]
                /\ coord' = LET c == [coord EXCEPT ![s].pc = "blocked", ![s].woken = FALSE]
                            IN  IF Ceiling(s) > clock[s].time THEN Wake(s, c) ELSE c
                /\ UNCHANGED actor
           ELSE /\ clock' = [clock EXCEPT ![s].time = t]
                /\ coord' = Wake(s, moved)
                /\ actor' = Fire(up)
    /\ UNCHANGED <<net, inbox, txs, handled, stopped, panicked>>

(* A task was finished, or a peer has moved on: check again.               *)
Notified(s) ==
    /\ coord[s].pc = "blocked" /\ (clock[s].permit \/ coord[s].woken)
    /\ coord' = [coord EXCEPT ![s].pc = "check"]
    /\ clock' = IF clock[s].permit THEN [clock EXCEPT ![s].permit = FALSE] ELSE clock
    /\ UNCHANGED <<actor, net, inbox, txs, handled, stopped, panicked>>

-----------------------------------------------------------------------------
(* What all the actors do with the clock.                                  *)
To(s, c, e) == [c EXCEPT ![s].chan = Append(@, e)]
NextAt(a) == IF a >= 10 /\ a < Producer
             THEN LET due == UNION {{m.at : m \in ToSet(net[a - 10].links[l])} : l \in Links(a - 10)}
                  IN  IF due = {} THEN Never ELSE Min(due)
             ELSE IF actor[a].events = {} THEN Never ELSE Min({e.at : e \in actor[a].events})

(* wait_until its next event, or wait_forever: nothing is sent to the      *)
(* coordinator when the time has come.                                     *)
Wait(a) ==
    /\ actor[a].pc = "loop"
    /\ LET at == NextAt(a)
       IN  IF at = now(a)
           THEN actor' = [actor EXCEPT ![a].pc = "select", ![a].waiter = "done"] /\ UNCHANGED clock
           ELSE /\ actor' = [actor EXCEPT ![a].pc = "select", ![a].waiter = "sent"]
                /\ clock' = To(HomeOf(a), clock, [kind |-> "Wait", actor |-> a, until |-> at])
    /\ UNCHANGED <<coord, net, inbox, txs, handled, stopped, panicked>>

Ready(a) == actor[a].pc = "select" /\ actor[a].waiter \in {"done", "fired"}
(* The select takes another arm: a waiter that is dropped is cancelled.    *)
Drop(a) == IF actor[a].waiter = "done" THEN clock
           ELSE To(HomeOf(a), clock, [kind |-> "CancelWait", actor |-> a, until |-> Never])
Finish(a) ==
    /\ actor[a].pc = "finish"
    /\ actor' = [actor EXCEPT ![a].pc = "loop"]
    /\ clock' = [clock EXCEPT ![HomeOf(a)].tasks = @ - 1, ![HomeOf(a)].permit = TRUE]
    /\ panicked' = (panicked \/ clock[HomeOf(a)].tasks = 0)
    /\ UNCHANGED <<coord, net, inbox, txs, handled, stopped>>

-----------------------------------------------------------------------------
(* The driver of a node.  The handlers: a slot and a transaction are sent  *)
(* to peers, what is received is worked on and then passed on.             *)
Take(n, what) == actor' = [actor EXCEPT ![n].pc = "handle", ![n].doing = what]
TakeMessage(n) ==
    /\ actor[n].pc = "select" /\ inbox[n] # <<>>
    /\ Take(n, Head(inbox[n]))
    /\ inbox' = [inbox EXCEPT ![n] = Tail(@)]
    /\ clock' = Drop(n)
    /\ UNCHANGED <<coord, net, txs, handled, stopped, panicked>>
TakeTx(n) ==
    /\ actor[n].pc = "select" /\ txs[n] # <<>>
    /\ Take(n, Head(txs[n]))
    /\ txs' = [txs EXCEPT ![n] = Tail(@)]
    /\ clock' = Drop(n)
    /\ UNCHANGED <<coord, net, inbox, handled, stopped, panicked>>
TakeEvent(n) ==
    /\ Ready(n)
    /\ \E e \in actor[n].events :
         /\ e.at = NextAt(n)
         /\ actor' = [actor EXCEPT ![n].pc = "handle", ![n].doing = [kind |-> e.what[1], body |-> e.what, due |-> e.at], ![n].events = @ \ {e}]
    /\ UNCHANGED <<clock, coord, net, inbox, txs, handled, stopped, panicked>>

Sends(n, d) == CASE d.kind = "slot" -> SlotSends(n, d.body[2])
                 [] d.kind = "tx" -> Relays(n)
                 [] d.kind = "task" -> IF d.body[3] < MaxHops THEN Relays(n) ELSE {}
                 [] d.kind = "message" -> {}
Body(n, d) == CASE d.kind = "slot" -> <<n, d.body[2], 0>>
                [] d.kind = "task" -> <<d.body[2][1], d.body[2][2], d.body[3] + 1>>
                [] OTHER -> <<n, 100 + d.due, 0>>
(* Every message counts as a task before it goes to the network.           *)
Handle(n) ==
    LET d == actor[n].doing
        s == ShardOf(n)
        to == SetToSeq(Sends(n, d))
        new == CASE d.kind = "slot" -> {[at |-> now(n) + SlotTime, what |-> <<"slot", d.body[2] + 1>>]}
                 [] d.kind = "message" -> {[at |-> now(n) + CpuTime, what |-> <<"task", d.body, d.body[3]>>]}
                 [] OTHER -> {}
    IN  /\ actor[n].pc = "handle"
        /\ actor' = [actor EXCEPT ![n].pc = IF d.kind = "message" THEN "finish" ELSE "loop", ![n].doing = Idle,
                                  ![n].events = @ \cup new]
        /\ clock' = [clock EXCEPT ![s].tasks = @ + Len(to)]
        /\ net' = [net EXCEPT ![s].source = @ \o [i \in DOMAIN to |-> [from |-> n, to |-> to[i], body |-> Body(n, d)]]]
        /\ handled' = handled \cup {[node |-> n, kind |-> d.kind, body |-> d.body, due |-> d.due, at |-> now(n)]}
        /\ UNCHANGED <<coord, inbox, txs, stopped, panicked>>

-----------------------------------------------------------------------------
(* The network of a shard.  A message goes on its link, or to the network  *)
(* of the shard of its receiver.                                           *)
OnLink(s, x, m, at) == [x EXCEPT ![s].links[<<m.from, m.to>>] = Append(@, [body |-> m.body, at |-> at + Latency(m.from, m.to)])]
TakeSource(s) ==
    LET a == Network(s)
        m == Head(net[s].source)
        rest == [net EXCEPT ![s].source = Tail(@)]
    IN  /\ actor[a].pc = "select" /\ net[s].source # <<>>
        /\ actor' = [actor EXCEPT ![a].pc = "finish"]
        /\ clock' = Drop(a)
        /\ net' = IF ShardOf(m.to) = s THEN OnLink(s, rest, m, now(a))
                  ELSE [rest EXCEPT ![ShardOf(m.to)].cross = Append(@, [m |-> m, at |-> now(a)])]
        /\ UNCHANGED <<coord, inbox, txs, handled, stopped, panicked>>
TakeCross(s) ==
    LET a == Network(s)
        c == Head(net[s].cross)
    IN  /\ actor[a].pc = "select" /\ net[s].cross # <<>>
        /\ actor' = [actor EXCEPT ![a].pc = "loop"]
        /\ clock' = Drop(a)
        /\ net' = OnLink(s, [net EXCEPT ![s].cross = Tail(@)], c.m, c.at)
        /\ UNCHANGED <<coord, inbox, txs, handled, stopped, panicked>>

(* The messages of one link that have arrived, each a task for its node.   *)
Arrive(s) ==
    LET a == Network(s)
        at == NextAt(a)
    IN  /\ Ready(a)
        /\ \E l \in Links(s) :
             /\ at # Never /\ \E m \in ToSet(net[s].links[l]) : m.at = at
             /\ LET up == SelectSeq(net[s].links[l], LAMBDA m : m.at <= at)
                IN  /\ inbox' = [inbox EXCEPT ![l[2]] = @ \o [i \in DOMAIN up |-> [kind |-> "message", body |-> up[i].body, due |-> up[i].at]]]
                    /\ clock' = [clock EXCEPT ![s].tasks = @ + Len(up)]
                    /\ net' = [net EXCEPT ![s].links[l] = SubSeq(@, Len(up) + 1, Len(@))]
        /\ actor' = [actor EXCEPT ![a].pc = "loop"]
        /\ UNCHANGED <<coord, txs, handled, stopped, panicked>>

-----------------------------------------------------------------------------
(* The source of the transactions, whose transactions are no tasks, and    *)
(* the witness of the slots, which ends the simulation.                    *)
Produce ==
    LET e == CHOOSE x \in actor[Producer].events : x.at = NextAt(Producer)
    IN  /\ Producer \in Actors /\ Ready(Producer)
        /\ actor' = [actor EXCEPT ![Producer].pc = "loop", ![Producer].events = @ \ {e}]
        /\ txs' = [txs EXCEPT ![TxNode] = Append(@, [kind |-> "tx", body |-> e.what, due |-> e.at])]
        /\ UNCHANGED <<clock, coord, net, inbox, handled, stopped, panicked>>
WitnessSlot ==
    LET e == CHOOSE x \in actor[Witness].events : TRUE
    IN  /\ Ready(Witness)
        /\ stopped' = (e.what[2] = MaxSlot)
        /\ actor' = [actor EXCEPT ![Witness].pc = "loop",
                                  ![Witness].events = {[at |-> e.at + SlotTime, what |-> <<"slot", e.what[2] + 1>>]}]
        /\ UNCHANGED <<clock, coord, net, inbox, txs, handled, panicked>>

Next == /\ ~stopped
        /\ \/ \E s \in Shards : Event(s) \/ Check(s) \/ Notified(s) \/ TakeSource(s) \/ TakeCross(s) \/ Arrive(s)
           \/ \E a \in Actors : Wait(a) \/ Finish(a)
           \/ \E n \in Nodes : TakeMessage(n) \/ TakeTx(n) \/ TakeEvent(n) \/ Handle(n)
           \/ Produce
           \/ WitnessSlot

-----------------------------------------------------------------------------
(* The coordinator's own assertions: no actor waits twice, and no more of  *)
(* them wait, and no more tasks are finished, than there are.              *)
NeverPanics == ~panicked

(* No actor waits for the others for ever: until the last slot there is    *)
(* something that can be done.                                             *)
NeverHangs == stopped \/ ENABLED Next

(* Every slot begins at its time at every node, whatever the node is doing *)
(* when the time comes.                                                    *)
SlotsOnTime == \A h \in handled : h.kind = "slot" => h.at = h.body[2] * SlotTime

(* The time does not move on while a message is on its way to a node or is *)
(* being handled: what a message does is done at the time it arrived.      *)
UnderWay(s) == \/ net[s].source # <<>> \/ actor[Network(s)].pc = "finish"
               \/ \E n \in Nodes : /\ ShardOf(n) = s
                                   /\ inbox[n] # <<>> \/ actor[n].doing.kind = "message" \/ actor[n].pc = "finish"
Holds == \A s \in Shards : UnderWay(s) => clock'[s].time = clock[s].time
HeldForMessages == [][Holds]_vars
=============================================================================
