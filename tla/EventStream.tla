---------------------------- MODULE EventStream -----------------------------
(***************************************************************************)
(* How the events of a simulation reach its reports: the channel that all  *)
(* shards send into, the monitor that puts the events in order of time     *)
(* before it writes them, the accounting of the vote traffic, and the end  *)
(* of the run in `main`, which publishes the traffic report only when      *)
(* simulation and monitor have both succeeded (sim-cli: main.rs,           *)
(* events.rs, events/vote_traffic.rs, events/traffic_output.rs).           *)
(*                                                                         *)
(* The simulation is the environment: the time of a shard never goes back, *)
(* and runs at most Skew ahead of the slowest shard.                       *)
(***************************************************************************)
EXTENDS Integers, SequencesExt

CONSTANTS
    Shards,        \* the shards; each has one node, which bears its number
    Skew,          \* how far a shard may run ahead
    Window,        \* `flush_window`
    Bucket,        \* the length of a bucket of the traffic report
    MaxEvents,     \* events a shard sends, besides the slots
    MaxLag,        \* events in the channel, which is unbounded in the code
    Slots          \* the slots that were asked for, each as long as a bucket

VARIABLES
    now,           \* the time of every shard
    sent,          \* the events every shard has sent
    chan,          \* the channel
    buffered,      \* the events that are not yet written
    high,          \* `high_watermark`
    out,           \* the events written, in order
    totals,        \* the traffic report: messages by node and direction
    seconds,       \* and by node, bucket and direction
    slots,         \* `total_slots`
    cancelled,     \* the cancellation token
    simulation,    \* "running", "ok" or "failed"
    monitor,       \* "running", "ok" or "failed"
    report         \* "reserved", "published" or "discarded"

stream == <<buffered, high, out, totals, seconds, slots>>
vars == <<now, sent, chan, stream, cancelled, simulation, monitor, report>>

MaxTime == Slots * Bucket    \* the end of the simulation
Times == 0 .. MaxTime

SlotBegins(t) == [t |-> t, node |-> 0, kind |-> "slot", n |-> t \div Bucket]

Init ==
    /\ now = [s \in Shards |-> 0]
    /\ sent = [s \in Shards |-> 0]
    /\ chan = <<SlotBegins(0)>>
    /\ buffered = [t \in Times |-> << >>]
    /\ high = 0
    /\ out = << >>
    /\ totals = [s \in Shards |-> [k \in {"send", "receive"} |-> 0]]
    /\ seconds = [s \in Shards |-> [b \in 0 .. (MaxTime \div Bucket) |->
                                       [k \in {"send", "receive"} |-> 0]]]
    /\ slots = 0
    /\ cancelled = FALSE
    /\ simulation = "running" /\ monitor = "running" /\ report = "reserved"

-----------------------------------------------------------------------------
(* The simulation.                                                         *)

Slowest == CHOOSE t \in Times : /\ \E s \in Shards : now[s] = t
                                /\ \A s \in Shards : now[s] >= t

\* The first shard announces the slots.
Advance(s) ==
    /\ simulation = "running" /\ Len(chan) < MaxLag
    /\ now[s] < MaxTime /\ now[s] < Slowest + Skew
    /\ now' = [now EXCEPT ![s] = @ + 1]
    /\ chan' = IF s = 1 /\ now'[s] < MaxTime /\ now'[s] % Bucket = 0
               THEN Append(chan, SlotBegins(now'[s]))
               ELSE chan
    /\ UNCHANGED <<sent, stream, cancelled, simulation, monitor, report>>

Emit(s, kind) ==
    /\ simulation = "running" /\ Len(chan) < MaxLag /\ sent[s] < MaxEvents
    /\ sent' = [sent EXCEPT ![s] = @ + 1]
    /\ chan' = Append(chan, [t |-> now[s], node |-> s, kind |-> kind, n |-> sent[s]])
    /\ UNCHANGED <<now, stream, cancelled, simulation, monitor, report>>

\* It ends at its last slot, when it is cancelled, or with an error.
SimEnds ==
    /\ simulation = "running"
    /\ \/ (cancelled \/ \A s \in Shards : now[s] = MaxTime) /\ simulation' = "ok"
       \/ simulation' = "failed"
    /\ UNCHANGED <<now, sent, chan, stream, cancelled, monitor, report>>

-----------------------------------------------------------------------------
(* The monitor.                                                            *)

\* The events of one timestamp are written in the order of their nodes; those
\* of the network as a whole come first.
OfNode(events, n) == SelectSeq(events, LAMBDA e : e.node = n)

ByNode(events) ==
    LET upto[n \in 0 .. Cardinality(Shards)] ==
            IF n = 0 THEN OfNode(events, 0) ELSE upto[n - 1] \o OfNode(events, n)
    IN  upto[Cardinality(Shards)]

\* What is written when everything before t is flushed.
Flushed(buf, t) ==
    LET upto[i \in 0 .. (MaxTime + 1)] ==
            IF i = 0 THEN << >> ELSE upto[i - 1] \o ByNode(buf[i - 1])
    IN  upto[t]

Cutoff(t) == IF t >= Window THEN t - Window ELSE 0

flush_buffered(buf, t) ==
    /\ out' = out \o Flushed(buf, t)
    /\ buffered' = [i \in Times |-> IF i < t THEN << >> ELSE buf[i]]

\* The traffic report counts a message at the time of its event.
record(e) ==
    /\ totals' = [totals EXCEPT ![e.node][e.kind] = @ + 1]
    /\ seconds' = [seconds EXCEPT ![e.node][e.t \div Bucket][e.kind] = @ + 1]

\* The monitor takes the next event.
Receive ==
    /\ monitor = "running" /\ chan # << >>
    /\ LET e == Head(chan)
           buf == [buffered EXCEPT ![e.t] = Append(@, e)]
       IN  /\ IF e.kind = "slot" THEN UNCHANGED <<totals, seconds>> ELSE record(e)
           /\ slots' = IF e.kind = "slot" THEN e.n + 1 ELSE slots
           /\ IF e.t > high
              THEN high' = e.t /\ flush_buffered(buf, Cutoff(e.t))
              ELSE buffered' = buf /\ UNCHANGED <<high, out>>
    /\ chan' = Tail(chan)
    /\ UNCHANGED <<now, sent, cancelled, simulation, monitor, report>>

\* The channel closes with the simulation; what is buffered is written.
Drained ==
    /\ monitor = "running" /\ chan = << >> /\ simulation # "running"
    /\ flush_buffered(buffered, MaxTime + 1)
    /\ monitor' = "ok"
    /\ UNCHANGED <<now, sent, chan, high, totals, seconds, slots, cancelled, simulation, report>>

\* A write fails.
WriteFails ==
    /\ monitor = "running" /\ chan # << >>
    /\ monitor' = "failed"
    /\ UNCHANGED <<now, sent, chan, stream, cancelled, simulation, report>>

-----------------------------------------------------------------------------
(* The end of the run in `main`.                                           *)

CtrlC ==
    /\ ~cancelled /\ report = "reserved"
    /\ cancelled' = TRUE
    /\ UNCHANGED <<now, sent, chan, stream, simulation, monitor, report>>

\* A failure of either side cancels the other.
Cancel ==
    /\ ~cancelled /\ report = "reserved"
    /\ simulation = "failed" \/ monitor = "failed"
    /\ cancelled' = TRUE
    /\ UNCHANGED <<now, sent, chan, stream, simulation, monitor, report>>

Whole == monitor = "ok" /\ simulation = "ok" /\ ~cancelled /\ slots = Slots

main ==
    /\ report = "reserved" /\ simulation # "running" /\ monitor # "running"
    /\ report' = IF Whole THEN "published" ELSE "discarded"
    /\ UNCHANGED <<now, sent, chan, stream, cancelled, simulation, monitor>>

Next ==
    \/ \E s \in Shards : Advance(s) \/ Emit(s, "send") \/ Emit(s, "receive")
    \/ SimEnds
    \/ Receive \/ Drained \/ WriteFails
    \/ CtrlC \/ Cancel \/ main

Spec == Init /\ [][Next]_vars

-----------------------------------------------------------------------------
(* The events are written in the order of time, and within a time in the   *)
(* order of nodes, although the shards send them in any order: the output  *)
(* does not depend on how the shards are scheduled.                        *)
OutputInOrder ==
    \A i, j \in DOMAIN out :
        i < j => \/ out[i].t < out[j].t
                 \/ out[i].t = out[j].t /\ out[i].node <= out[j].node

(* A report is published only when it covers every slot asked for and      *)
(* every message of the simulation, each counted in its own bucket.        *)
PublishedWhole ==
    report = "published" =>
        /\ \A s \in Shards : now[s] = MaxTime
        /\ \A s \in Shards : totals[s]["send"] + totals[s]["receive"] = sent[s]
        /\ \A s \in Shards, k \in {"send", "receive"}, b \in 0 .. (MaxTime \div Bucket) :
               seconds[s][b][k] =
                   Len(SelectSeq(out, LAMBDA e : e.node = s /\ e.kind = k /\ e.t \div Bucket = b))

(* When the monitor ends without an error, every event that was sent has   *)
(* been written, each once.                                                *)
OutputWhole ==
    monitor = "ok" =>
        /\ chan = << >>
        /\ \A s \in Shards : \A n \in 0 .. (MaxEvents - 1) :
               n < sent[s] <=> \E i \in DOMAIN out : out[i].node = s /\ out[i].n = n
        /\ \A i, j \in DOMAIN out : out[i] = out[j] => i = j
=============================================================================
