-------------------------------- MODULE Mux --------------------------------
(***************************************************************************)
(* One direction of a multiplexed connection (net-core/src/mux): the       *)
(* muxer task of one end takes whole messages from the bounded egress      *)
(* queues in the order the scheduler picks, cuts them into segments of at  *)
(* most sdu_size bytes and writes them to the bearer; the demuxer task of  *)
(* the other end routes each segment by its (protocol, mode) key to a      *)
(* bounded ingress channel, accounting its bytes; the codec of each        *)
(* protocol reassembles messages from the chunks.  A message is a model    *)
(* value of some size; its i-th byte is the pair <<message, i>>.           *)
(***************************************************************************)
EXTENDS Integers, Sequences, FiniteSets

CONSTANTS KeyOrder,     \* the (protocol, mode) keys in the iteration order of the egress map
          Pid(_),       \* the protocol id of a key
          Weight(_),    \* the traffic class of a protocol: 0 for Priority, or a Default weight
          Script(_),    \* the messages the local protocol of a key sends, in order
          Size(_),      \* the encoded size of a message
          SduSize, QueueSize,
          BearerSize,   \* how many segments the transport buffers
          Limit(_),     \* the ingress limit of a key
          MaxSize(_),   \* the size limit of the reading protocol's state
          Known,        \* the keys the remote end registered
          Lossy         \* whether the transport may fail

VARIABLES egress,   \* per key: the egress queue and the staged message
          open,     \* the keys whose sending half is alive
          writing,  \* the key of the chosen message and its bytes not written yet
          sched,    \* the scheduler: deficits and the round-robin index
          muxer, bearer,
          routes,   \* the keys the demuxer still routes
          ingress,  \* per key: the ingress channel, its byte counter, the codec's buffer
          reader,   \* per key: the state of the reading protocol
          demuxer, sent, got

vars == <<egress, open, writing, sched, muxer, bearer, routes, ingress,
          reader, demuxer, sent, got>>
sides == <<routes, ingress, reader, demuxer, got>>

Keys == {KeyOrder[i] : i \in DOMAIN KeyOrder}
Pids == {Pid(k) : k \in Keys}
Messages == UNION {{Script(k)[i] : i \in DOMAIN Script(k)} : k \in Keys}
None == <<>>

Bytes(m) == [i \in 1..Size(m) |-> <<m, i>>]
SumSeq(s) == LET f[i \in 0..Len(s)] == IF i = 0 THEN 0 ELSE f[i - 1] + Len(s[i])
             IN  f[Len(s)]

(* The protocols send encoded messages, which are never empty.             *)
Wellformed == /\ \A k \in Keys : Script(k) \in Seq(Messages)
              /\ \A m \in Messages : Size(m) \in Nat \ {0}
              /\ SduSize \in Nat \ {0}

Init == /\ egress = [k \in Keys |-> [queue |-> <<>>, pending |-> None]]
        /\ open = Keys
        /\ writing = [key |-> None, rest |-> <<>>]
        /\ sched = [deficit |-> [p \in {q \in Pids : Weight(q) > 0} |-> Weight(p)], last |-> 0]
        /\ muxer = "running"
        /\ bearer = <<>>
        /\ routes = Known
        /\ ingress = [k \in Keys |-> [chunks |-> <<>>, counter |-> 0, buffer |-> <<>>]]
        /\ reader = [k \in Keys |-> "reading"]
        /\ demuxer = "running"
        /\ sent = [k \in Keys |-> <<>>]
        /\ got = [k \in Keys |-> <<>>]

-----------------------------------------------------------------------------
(* The sending protocols *)

(* ChannelSend::send: waits for room in the egress queue.                  *)
Send(k) == /\ k \in open /\ muxer = "running"
           /\ Len(sent[k]) < Len(Script(k))
           /\ Len(egress[k].queue) < QueueSize
           /\ LET m == Script(k)[Len(sent[k]) + 1]
              IN  /\ egress' = [egress EXCEPT ![k].queue = Append(@, m)]
                  /\ sent' = [sent EXCEPT ![k] = Append(@, m)]
           /\ UNCHANGED <<open, writing, sched, muxer, bearer, sides>>

(* The protocol ends and drops its sending half; queued messages remain.   *)
DropSender(k) == /\ k \in open
                 /\ Len(sent[k]) = Len(Script(k)) \/ muxer # "running"
                 /\ open' = open \ {k}
                 /\ UNCHANGED <<egress, writing, sched, muxer, bearer, sent, sides>>

-----------------------------------------------------------------------------
(* The muxer *)

MutFilled ==  (* Mutant: a staged message is overwritten by the next one. *)
    [k \in Keys |-> IF egress[k].queue # <<>>
                    THEN [queue |-> Tail(egress[k].queue), pending |-> <<Head(egress[k].queue)>>]
                    ELSE egress[k]]
(* fill_pending on every protocol.                                         *)
Filled == [k \in Keys |->
             IF egress[k].pending = None /\ egress[k].queue # <<>>
             THEN [queue |-> Tail(egress[k].queue), pending |-> <<Head(egress[k].queue)>>]
             ELSE egress[k]]

(* The closed protocols are forgotten once their output is drained.        *)
Drained(k) == k \notin open /\ egress[k].queue = <<>> /\ egress[k].pending = None

(* The staged keys, as positions in the map order, and their classes.      *)
Staged == {i \in DOMAIN KeyOrder : Filled[KeyOrder[i]].pending # None}
PidAt(i) == Pid(KeyOrder[i])
Priority == {i \in Staged : Weight(PidAt(i)) = 0}

(* A credit to every Default protocol when no staged one has any left.     *)
Credited == LET exhausted == \A i \in Staged : sched.deficit[PidAt(i)] <= 0
            IN  [p \in DOMAIN sched.deficit |->
                   sched.deficit[p] + IF exhausted THEN Weight(p) ELSE 0]

(* PriorityWfq::next picks the protocol of position i: round-robin over    *)
(* the staged Priority protocols, or else the staged Default protocol with *)
(* the highest deficit, the last of equals.                                *)
NextPid(i) ==
    \/ LET turn == (sched.last + 1) % Cardinality(Priority)
       IN  /\ i \in Priority /\ Cardinality({j \in Priority : j < i}) = turn
           /\ sched' = [sched EXCEPT !.last = turn]
    \/ /\ Priority = {}
       /\ \A j \in Staged : /\ Credited[PidAt(j)] <= Credited[PidAt(i)]
                            /\ j > i => Credited[PidAt(j)] < Credited[PidAt(i)]
       /\ sched' = [sched EXCEPT !.deficit = [Credited EXCEPT ![PidAt(i)] = @ - 1]]

(* One turn of run_muxer: stage, ask the scheduler, take the message of    *)
(* the first key of the chosen protocol.                                   *)
Schedule ==
    /\ muxer = "running" /\ writing.rest = <<>>
    /\ \E i, j \in Staged :
         /\ NextPid(i)
         /\ PidAt(j) = PidAt(i) /\ \A h \in Staged : PidAt(h) = PidAt(i) => j <= h
         /\ LET key == KeyOrder[j]
            IN  /\ writing' = [key |-> key, rest |-> Bytes(Filled[key].pending[1])]
                /\ egress' = [Filled EXCEPT ![key].pending = None]
    /\ UNCHANGED <<open, muxer, bearer, sent, sides>>

(* segment_payload and write_segment: the next segment has at most         *)
(* sdu_size of the bytes that are left.                                    *)
WriteSegment ==
    /\ muxer = "running" /\ writing.rest # <<>>
    /\ Len(bearer) < BearerSize
    /\ LET size == Len(writing.rest)
           cut == IF size < SduSize THEN size ELSE SduSize
       IN  /\ bearer' = Append(bearer, [key |-> writing.key,
                                        payload |-> SubSeq(writing.rest, 1, cut)])
           /\ writing' = [writing EXCEPT !.rest = SubSeq(@, cut + 1, size)]
    /\ UNCHANGED <<egress, open, sched, muxer, sent, sides>>

(* Every sender dropped and drained: the muxer ends and closes the bearer. *)
MuxerEnds == /\ muxer = "running" /\ writing.rest = <<>>
             /\ \A k \in Keys : Drained(k)
             /\ muxer' = "closed"
             /\ UNCHANGED <<egress, open, writing, sched, bearer, sent, sides>>

(* The supervisor or RunningMux::abort cancels the muxer, or a write       *)
(* fails: some suffix of what the transport holds is lost.                 *)
Abort == /\ Lossy /\ muxer = "running"
         /\ muxer' = "aborted"
         /\ \E n \in 0..Len(bearer) : bearer' = SubSeq(bearer, 1, n)
         /\ UNCHANGED <<egress, open, writing, sched, sent, sides>>

-----------------------------------------------------------------------------
(* The demuxer *)

(* run_demuxer on one segment: an unknown key is skipped, bytes over the   *)
(* limit or a full channel end the connection, a channel whose reader is   *)
(* gone is deregistered.                                                   *)
Demux ==
    /\ demuxer = "running" /\ bearer # <<>>
    /\ bearer' = Tail(bearer)
    /\ LET seg == Head(bearer)
           k == seg.key
           size == ingress[k].counter + Len(seg.payload)
       IN  \/ /\ k \notin routes
              /\ UNCHANGED <<routes, ingress, demuxer>>
           \/ /\ k \in routes /\ size > Limit(k)
              /\ demuxer' = "overflow"
              /\ UNCHANGED <<routes, ingress>>
           \/ /\ k \in routes /\ size <= Limit(k) /\ reader[k] = "reading"
              /\ IF Len(ingress[k].chunks) < QueueSize
                 THEN /\ ingress' = [ingress EXCEPT ![k].chunks = Append(@, seg.payload),
                                                    ![k].counter = size]
                      /\ demuxer' = demuxer
                 ELSE demuxer' = "full" /\ ingress' = ingress
              /\ UNCHANGED routes
           \/ /\ k \in routes /\ size <= Limit(k) /\ reader[k] # "reading"
              /\ routes' = routes \ {k}
              /\ UNCHANGED <<ingress, demuxer>>
    /\ UNCHANGED <<egress, open, writing, sched, muxer, reader, sent, got>>

(* End of input on a closed bearer.                                        *)
DemuxEof == /\ demuxer = "running" /\ bearer = <<>> /\ muxer # "running"
            /\ demuxer' = "eof"
            /\ UNCHANGED <<egress, open, writing, sched, muxer, bearer, routes, ingress,
                           reader, sent, got>>

(* No segment within sdu_timeout.                                          *)
SduTimeout == /\ Lossy /\ demuxer = "running" /\ bearer = <<>>
              /\ demuxer' = "timeout"
              /\ UNCHANGED <<egress, open, writing, sched, muxer, bearer, routes, ingress,
                             reader, sent, got>>

-----------------------------------------------------------------------------
(* The reading protocols *)

(* try_decode: the first message of the buffer when all of it is there.    *)
Decodable(b) == b # <<>> /\ Len(b) >= Size(b[1][1])

(* CodecRecv::recv, the decoding half: a complete message within the size  *)
(* limit is consumed; bytes that are no message, or an oversized one, end  *)
(* the protocol.                                                           *)
Decode(k) ==
    /\ reader[k] = "reading" /\ Decodable(ingress[k].buffer)
    /\ LET b == ingress[k].buffer
           m == b[1][1]
       IN  IF SubSeq(b, 1, Size(m)) = Bytes(m) /\ Size(m) <= MaxSize(k)
           THEN /\ got' = [got EXCEPT ![k] = Append(@, m)]
                /\ ingress' = [ingress EXCEPT ![k].buffer = SubSeq(b, Size(m) + 1, Len(b))]
                /\ reader' = reader
           ELSE /\ reader' = [reader EXCEPT ![k] = "failed"]
                /\ UNCHANGED <<got, ingress>>
    /\ UNCHANGED <<egress, open, writing, sched, muxer, bearer, routes, demuxer, sent>>

MutReceive(k) ==  (* Mutant: the bytes taken stay in the counter. *)
    /\ reader[k] = "reading" /\ ~Decodable(ingress[k].buffer)
    /\ LET c == ingress[k].chunks
       IN  \/ /\ c # <<>>
              /\ ingress' = [ingress EXCEPT ![k] = [chunks |-> Tail(c),
                                                    counter |-> @.counter,
                                                    buffer |-> @.buffer \o Head(c)]]
              /\ reader' = reader
           \/ /\ c = <<>> /\ demuxer # "running"
              /\ reader' = [reader EXCEPT ![k] = "shutdown"]
              /\ ingress' = ingress
    /\ UNCHANGED <<egress, open, writing, sched, muxer, bearer, routes, demuxer, sent, got>>

(* ... the receiving half: the next chunk extends the buffer and its bytes *)
(* leave the counter; a closed channel ends the protocol.                  *)
Receive(k) ==
    /\ reader[k] = "reading" /\ ~Decodable(ingress[k].buffer)
    /\ LET c == ingress[k].chunks
       IN  \/ /\ c # <<>>
              /\ ingress' = [ingress EXCEPT ![k] = [chunks |-> Tail(c),
                                                    counter |-> @.counter - Len(Head(c)),
                                                    buffer |-> @.buffer \o Head(c)]]
              /\ reader' = reader
           \/ /\ c = <<>> /\ demuxer # "running"
              /\ reader' = [reader EXCEPT ![k] = "shutdown"]
              /\ ingress' = ingress
    /\ UNCHANGED <<egress, open, writing, sched, muxer, bearer, routes, demuxer, sent, got>>

(* The reading protocol stops and drops its channel.                       *)
DropReader(k) == /\ Lossy /\ reader[k] = "reading"
                 /\ reader' = [reader EXCEPT ![k] = "failed"]
                 /\ UNCHANGED <<egress, open, writing, sched, muxer, bearer, routes, ingress,
                                demuxer, sent, got>>

Next == \/ \E k \in Keys : Send(k) \/ DropSender(k)
        \/ Schedule \/ WriteSegment \/ MuxerEnds \/ Abort
        \/ Demux \/ DemuxEof \/ SduTimeout
        \/ \E k \in Keys : Decode(k) \/ Receive(k) \/ DropReader(k)

(* The muxer and demuxer tasks are always polled again, and a protocol     *)
(* that waits for a message keeps calling recv.                            *)
Fairness == /\ WF_vars(Schedule \/ WriteSegment \/ MuxerEnds)
            /\ WF_vars(Demux \/ DemuxEof)
            /\ \A k \in Keys : WF_vars(Decode(k) \/ Receive(k))

Spec == Init /\ [][Next]_vars /\ Fairness

-----------------------------------------------------------------------------
(* The byte counter the demuxer checks the ingress limit against is        *)
(* exactly what the protocol has not taken from its channel, whichever of  *)
(* the two tasks updated it last.                                          *)
CounterExact == \A k \in Keys : ingress[k].counter = SumSeq(ingress[k].chunks)

(* The connection implements the abstract FIFO channels: on every channel  *)
(* what comes out is a prefix of what was sent, however the scheduler      *)
(* interleaves and cuts the messages, and all of it comes out while the    *)
(* channel, the muxer and the demuxer are alive.                           *)
Ch == INSTANCE Channels WITH Chans <- Keys, Payloads <- Messages,
        live <- [k \in Keys |-> /\ k \in Known /\ k \in routes /\ reader[k] = "reading"
                                /\ muxer # "aborted" /\ demuxer \in {"running", "eof"}]
ChannelSpec == Ch!Spec
=============================================================================
