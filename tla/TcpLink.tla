------------------------------ MODULE TcpLink -------------------------------
(***************************************************************************)
(* One direction of a simulated TCP link (sim-core/network/tcp_connection  *)
(* and sim-core/tcp): the forecast that cuts a message into fragments as   *)
(* the congestion window allows, the growth of the window with every       *)
(* acknowledgement, the reset after an idle period, and the queue of       *)
(* messages under way.  Times are whole ticks; a byte takes PerByte ticks. *)
(***************************************************************************)
EXTENDS Naturals, Sequences, FiniteSetsExt

CONSTANTS
    Latency,       \* of one way
    PerByte,       \* ticks to put a byte on the wire
    InitialWindow, \* `INITIAL_CONGESTION_WINDOW`
    IdleTime,      \* the second that counts as idle
    Sizes,         \* message sizes, in bytes and not 0
    MaxSends,
    LastSend       \* the time of the last send

VARIABLES
    now,
    state,         \* the sender: cwnd, available and the pending acks, oldest first
    send_cursor,   \* when the sender is free; 0 before the first message
    latency_queue, \* the messages under way: [msg, at]
    sends,         \* every message sent: [at, size]
    arrivals,      \* the time at which each is due
    fragments,     \* every fragment sent: [at, size]
    received       \* the messages received, in order

vars == <<now, state, send_cursor, latency_queue, sends, arrivals, fragments, received>>

\* Twice the bytes under way in a full pipe, and no less than the initial window.
ReceiverWindow == Max({(2 * Latency) \div PerByte, InitialWindow})

Fresh == [cwnd |-> InitialWindow, available |-> InitialWindow, acks |-> << >>]

Init ==
    /\ now = 0
    /\ state = Fresh
    /\ send_cursor = 0
    /\ latency_queue = << >>
    /\ sends = << >> /\ arrivals = << >> /\ fragments = {}
    /\ received = << >>

-----------------------------------------------------------------------------

\* An acknowledgement frees its bytes and, up to the receiver's window, as many more.
accum_ack(s, bytes) ==
    LET grown == Min({s.cwnd + bytes, ReceiverWindow})
    IN  IF s.cwnd < ReceiverWindow
        THEN [s EXCEPT !.cwnd = grown, !.available = @ + bytes + (grown - s.cwnd)]
        ELSE [s EXCEPT !.available = @ + bytes]

PopAck(s) == accum_ack([s EXCEPT !.acks = Tail(@)], Head(s.acks).bytes)

RECURSIVE drain_arrived_acks(_, _)
drain_arrived_acks(t, s) ==
    IF s.acks # << >> /\ Head(s.acks).at <= t THEN drain_arrived_acks(t, PopAck(s)) ELSE s

\* The sender waits for the oldest acknowledgement; if it has arrived already, the
\* others that have are taken with it.
wait_for_ack(t, s) ==
    IF Head(s.acks).at <= t
    THEN [t |-> t, s |-> drain_arrived_acks(t, PopAck(s))]
    ELSE [t |-> Head(s.acks).at, s |-> PopAck(s)]

\* A fragment is acknowledged one round trip after its first byte leaves; the
\* acknowledgements therefore stand in the order of the fragments.
do_send(t, s, size) ==
    [s EXCEPT !.available = @ - size,
              !.acks = Append(@, [at |-> t + 2 * Latency, bytes |-> size])]

\* The fragments of a message, the end of the last one and the sender after it.
RECURSIVE forecast_tcp_msg_send(_, _, _, _)
forecast_tcp_msg_send(t, s, remaining, frags) ==
    IF s.available = 0
    THEN LET w == wait_for_ack(t, s)
         IN  forecast_tcp_msg_send(w.t, w.s, remaining, frags)
    ELSE LET size == Min({remaining, s.available})
             sent == do_send(t, s, size)
             done == t + size * PerByte
             all == frags \union {[at |-> t, size |-> size]}
         IN  IF size = remaining
             THEN [s |-> sent, end |-> done, frags |-> all]
             ELSE forecast_tcp_msg_send(done, sent, remaining - size, all)

\* The link was idle for so long that the window starts again.
Idle(t) ==
    /\ Len(sends) > 0
    /\ t >= send_cursor + Max({IdleTime, 2 * Latency})
    /\ \A i \in DOMAIN state.acks : state.acks[i].at <= t

\* A message waits for the one before it.
Start(t) == Max({t, send_cursor})

send(size) ==
    /\ Len(sends) < MaxSends /\ now <= LastSend
    /\ LET s == IF Idle(now) THEN Fresh ELSE state
           f == forecast_tcp_msg_send(Start(now), s, size, {})
       IN  /\ state' = f.s
           /\ send_cursor' = f.end
           /\ latency_queue' = Append(latency_queue, [msg |-> Len(sends) + 1,
                                                      at |-> f.end + Latency])
           /\ sends' = Append(sends, [at |-> now, size |-> size])
           /\ arrivals' = Append(arrivals, f.end + Latency)
           /\ fragments' = fragments \union f.frags
    /\ UNCHANGED <<now, received>>

\* The receiver takes the messages at the front that are due.
recv_many ==
    LET due == Max({i \in 0 .. Len(latency_queue) :
                        \A j \in 1 .. i : latency_queue[j].at <= now})
    IN  /\ due > 0
        /\ received' = received \o [i \in 1 .. due |-> latency_queue[i].msg]
        /\ latency_queue' = SubSeq(latency_queue, due + 1, Len(latency_queue))
        /\ UNCHANGED <<now, state, send_cursor, sends, arrivals, fragments>>

\* Time passes up to the next arrival.
Tick ==
    /\ now <= LastSend \/ latency_queue # << >>
    /\ latency_queue # << >> => Head(latency_queue).at > now
    /\ now' = now + 1
    /\ UNCHANGED <<state, send_cursor, latency_queue, sends, arrivals, fragments, received>>

Next == (\E size \in Sizes : send(size)) \/ recv_many \/ Tick

Spec == Init /\ [][Next]_vars

-----------------------------------------------------------------------------
(* The room in the window and the bytes under way make up the congestion   *)
(* window, which never exceeds the receiver's: the sender never waits for  *)
(* an acknowledgement that will not come.                                  *)
WindowConserved ==
    /\ state.cwnd <= ReceiverWindow
    /\ state.available + MapThenSumSet(LAMBDA i : state.acks[i].bytes, DOMAIN state.acks)
           = state.cwnd

(* In the round trip before any fragment, and with it, no more has left    *)
(* than the congestion window: a window that starts again after an idle    *)
(* period starts with an empty link.                                       *)
RateBounded ==
    fragments # {} =>
        LET last == Max({f.at : f \in fragments})
        IN  MapThenSumSet(LAMBDA f : f.size, {f \in fragments : f.at + 2 * Latency > last})
                <= state.cwnd

(* Messages arrive in the order in which they were sent, each no earlier   *)
(* than the latency and the bandwidth allow, and at the time forecast.     *)
ArriveInOrder ==
    /\ received = [i \in 1 .. Len(received) |-> i]
    /\ \A i \in DOMAIN received : arrivals[i] <= now
    /\ \A i \in DOMAIN sends :
           /\ arrivals[i] >= sends[i].at + Latency + sends[i].size * PerByte
           /\ i > 1 => arrivals[i] >= arrivals[i - 1] + sends[i].size * PerByte
           /\ arrivals[i] < now => i <= Len(received)
=============================================================================
