------------------------------ MODULE SimNode ------------------------------
(***************************************************************************)
(* What the node implementations of the simulator have in common (sim-core: *)
(* sim.rs and sim/driver.rs).  A node is a record; every handler is a      *)
(* function from the record to the record after it, with the messages, the *)
(* CPU tasks and the timers it queued (an EventResult), which Commit hands *)
(* to the network, to the CPU and to the scheduler.  A connection delivers *)
(* in order within a mini-protocol; CPU tasks finish in any order.  Time   *)
(* passes in slots.  Latencies and CPU times are parameters of a           *)
(* simulation: the kinds of messages and tasks that take time are those of *)
(* the constant Slow, and may be delayed past any others; the rest take    *)
(* none, and are handled before anything else happens.  A block is known   *)
(* by its identity, its contents are in minted.                            *)
(***************************************************************************)
EXTENDS Naturals, Sequences, SequencesExt, FiniteSets, FiniteSetsExt, Functions

CONSTANTS Nodes,          \* numbers: a BlockId orders by slot, then producer
          Consumers(_),   \* the peers a node announces to
          MaxSlot,
          Generated(_),   \* the transactions a node's users submit
          FromAll,        \* relay_strategy = RequestFromAll
          Slow(_, _)      \* Slow(n, kind): the messages and tasks that take time at n

VARIABLES node, net, tasks, timers, now, minted, submitted

vars == <<node, net, tasks, timers, now, minted, submitted>>

None == <<0, 0>>
SetAt(f, k, v) == [x \in DOMAIN f \cup {k} |-> IF x = k THEN v ELSE f[x]]
Drop(f, S) == [x \in DOMAIN f \ S |-> f[x]]
Get(f, k, default) == IF k \in DOMAIN f THEN f[k] ELSE default
(* The lexicographic order of tuples, and the greatest of a set by a key.  *)
Above(a, b) == \E i \in DOMAIN a : a[i] > b[i] /\ \A j \in 1..(i - 1) : a[j] = b[j]
Best(S, Key(_)) == CHOOSE x \in S : \A y \in S : y = x \/ Above(Key(x), Key(y))
Latest(S) == IF S = {} THEN None ELSE Best(S, LAMBDA id : id)

-----------------------------------------------------------------------------
(* Messages, and what a handler queues.                                    *)
Protocols == {"Tx", "Block", "IB", "EB", "Vote"}
protocol(m) == CASE m.t \in {"AnnounceTx", "RequestTx", "Tx"} -> "Tx"
                 [] m.t \in {"AnnounceRBHeader", "RequestRBHeader", "RBHeader",
                             "AnnounceRB", "RequestRB", "RB"} -> "Block"
                 [] m.t \in {"AnnounceIBHeader", "RequestIBHeader", "IBHeader",
                             "AnnounceIB", "RequestIB", "IB"} -> "IB"
                 [] m.t \in {"AnnounceEB", "RequestEB", "EB", "AnnounceEBTxs", "RequestEBTxs", "EBTxs"} -> "EB"
                 [] m.t \in {"AnnounceVotes", "RequestVotes", "Votes", "AnnounceVote", "RequestVote", "Vote"} -> "Vote"
TxMsg(t, tx) == [t |-> t, tx |-> tx]
RbMsg(t, rb) == [t |-> t, rb |-> rb]
EbMsg(t, eb) == [t |-> t, eb |-> eb]
VoteMsg(t, id) == [t |-> t, id |-> id]

Quiet == [to \in Nodes |-> <<>>]
send_to(s, to, m) == [s EXCEPT !.out[to] = Append(@, m)]
send_all(s, peers, m) == [s EXCEPT !.out = [p \in Nodes |-> IF p \in peers THEN Append(@[p], m) ELSE @[p]]]
schedule_cpu_task(s, task) == [s EXCEPT !.todo = @ \cup {task}]
schedule_event(s, event) == [s EXCEPT !.later = @ \cup {event}]

-----------------------------------------------------------------------------
Start(new) == /\ node = [n \in Nodes |-> new]
              /\ net = [n \in Nodes |-> [to \in Nodes |-> [p \in Protocols |-> <<>>]]]
              /\ tasks = [n \in Nodes |-> {}]
              /\ timers = [n \in Nodes |-> {}]
              /\ now = 0 /\ submitted = [n \in Nodes |-> {}]

Commit(n, s, inbox, running, armed) ==
    /\ node' = [node EXCEPT ![n] = [s EXCEPT !.out = Quiet, !.todo = {}, !.later = {}]]
    /\ net' = IF s.out = Quiet THEN inbox
              ELSE [inbox EXCEPT ![n] = [to \in Nodes |-> [p \in Protocols |->
                      @[to][p] \o SelectSeq(s.out[to], LAMBDA m : protocol(m) = p)]]]
    /\ tasks' = [running EXCEPT ![n] = @ \cup s.todo]
    /\ timers' = [armed EXCEPT ![n] = @ \cup s.later]

Due(n) == {e \in timers[n] : e.at <= now}
Tick == /\ now < MaxSlot
        /\ \A n \in Nodes : node[n].slot = now /\ Due(n) = {}
        /\ now' = now + 1
        /\ UNCHANGED <<node, net, tasks, timers, minted, submitted>>

(* A slot starts at all nodes at once, before anything sent in it arrives. *)
Starting == {n \in Nodes : node[n].slot < now}
QuickTasks == {n \in Nodes : \E c \in tasks[n] : ~Slow(n, c.t)}
QuickMessages == {<<n, from, p>> \in Nodes \X Nodes \X Protocols :
                     net[from][n][p] # <<>> /\ ~Slow(n, Head(net[from][n][p]).t)}
Settled == /\ now = MaxSlot /\ \A n \in Nodes : tasks[n] = {} /\ node[n].slot = now /\ Due(n) = {}
           /\ \A n, to \in Nodes, p \in Protocols : net[n][to][p] = <<>>
=============================================================================
