---------------------------- MODULE TxSubmission ----------------------------
(***************************************************************************)
(* The pull of transactions from several peers (net-core: the client of    *)
(* protocols/txsubmission, the handler serve_txsubmission and TxDedup of   *)
(* peer/server_handlers.rs).  Every peer runs run_client over the queue    *)
(* its node feeds; this node runs one serve_txsubmission per peer, with    *)
(* one TxDedup for all of them.  The message in flight on a connection is  *)
(* the value of its exchange; half duplex, so there is at most one.        *)
(***************************************************************************)
EXTENDS Naturals, Sequences, FiniteSets, SequencesExt

CONSTANTS Peers, Txs,
          Parseable,   \* the transactions with a canonical Praos id
          MaxUnacked,  \* MAX_UNACKED, the request window
          DedupCap,    \* the capacity of TxDedup
          Feed(_),     \* the transactions the node of a peer queues for us, in order
          Drops        \* the peers whose connection may drop

VARIABLES queue,      \* queue[p]: tx_receiver of the client of p
          fed,        \* fed[p]: how many of Feed(p) were queued
          announced,  \* announced[p]: announced and not acknowledged, oldest first
          bodies,     \* bodies[p]: pending_bodies
          msg,        \* msg[p]: the message in flight on the connection of p
          outstanding,\* outstanding[p]: the ids to acknowledge with the next request
          dedup,      \* TxDedup: the ids seen, in order of insertion
          requested,  \* requested[t]: how often the body of t was requested
          received    \* the transactions forwarded to the coordinator

vars == <<queue, fed, announced, bodies, msg, outstanding, dedup, requested, received>>

NoTxs == <<>>
Down == [kind |-> "down", txs |-> NoTxs]

Init == /\ queue = [p \in Peers |-> <<>>]
        /\ fed = [p \in Peers |-> 0]
        /\ announced = [p \in Peers |-> <<>>]
        /\ bodies = [p \in Peers |-> <<>>]
        /\ msg = [p \in Peers |-> [kind |-> "init", txs |-> NoTxs]]
        /\ outstanding = [p \in Peers |-> 0]
        /\ dedup = <<>>
        /\ requested = [t \in Txs |-> 0]
        /\ received = {}

Exchange(p, k, ts) == msg' = [msg EXCEPT ![p] = [kind |-> k, txs |-> ts]]

(* The node of the peer queues another transaction for announcement.       *)
FeedTx(p) == /\ fed[p] < Len(Feed(p)) /\ msg[p] # Down
             /\ queue' = [queue EXCEPT ![p] = Append(@, Feed(p)[fed[p] + 1])]
             /\ fed' = [fed EXCEPT ![p] = @ + 1]
             /\ UNCHANGED <<announced, bodies, msg, outstanding, dedup, requested, received>>

(* The server opens a round: acknowledge the previous one, ask for more.   *)
RequestTxIds(p) ==
    /\ msg[p].kind \in {"init", "done_round"}
    /\ Exchange(p, "request_ids", NoTxs)
    /\ UNCHANGED <<queue, fed, announced, bodies, outstanding, dedup, requested, received>>

(* ack_and_prune: the oldest ack announcements leave the window, and their *)
(* bodies too when they were never requested.                              *)
Acked(p, ack) == SubSeq(announced[p], 1, IF ack < Len(announced[p]) THEN ack ELSE Len(announced[p]))
Pruned(p, ack) ==
    FoldLeft(LAMBDA bs, t : IF \E i \in DOMAIN bs : bs[i] = t THEN RemoveFirst(bs, t) ELSE bs,
             bodies[p], Acked(p, ack))

(* The client answers a blocking request: it waits until at least one of   *)
(* the queued transactions can be announced; the others are dropped.       *)
ReplyTxIds(p) ==
    /\ msg[p].kind = "request_ids"
    /\ LET n == IF Len(queue[p]) < MaxUnacked THEN Len(queue[p]) ELSE MaxUnacked
           new == SelectSeq(SubSeq(queue[p], 1, n), LAMBDA t : t \in Parseable)
           window == SubSeq(announced[p], Len(Acked(p, outstanding[p])) + 1, Len(announced[p]))
       IN  /\ n > 0
           /\ queue' = [queue EXCEPT ![p] = SubSeq(@, n + 1, Len(@))]
           /\ announced' = [announced EXCEPT ![p] = window \o new]
           /\ bodies' = [bodies EXCEPT ![p] = Pruned(p, outstanding[p]) \o new]
           /\ outstanding' = [outstanding EXCEPT ![p] = 0]
           /\ IF new = <<>> THEN msg' = msg ELSE Exchange(p, "ids", new)
    /\ UNCHANGED <<fed, dedup, requested, received>>

(* TxDedup::insert_fresh over a batch: the fresh ids and the new set, the  *)
(* oldest id evicted beyond the capacity.                                  *)
InsertFresh(d, t) == LET e == Append(d, t)
                     IN  IF Len(e) > DedupCap THEN Tail(e) ELSE e
MutFresh(batch) ==  (* Mutant: the ids are recorded but not looked up. *)
    [seen |-> FoldLeft(InsertFresh, dedup, batch), new |-> batch]
Fresh(batch) ==
    FoldLeft(LAMBDA acc, t : IF \E i \in DOMAIN acc.seen : acc.seen[i] = t
                             THEN acc
                             ELSE [seen |-> InsertFresh(acc.seen, t), new |-> Append(acc.new, t)],
             [seen |-> dedup, new |-> <<>>], batch)

(* fetch_fresh_txs, up to the request: claim the ids no peer was asked     *)
(* for; the whole batch will be acknowledged whatever is fetched.          *)
FetchFresh(p) ==
    /\ msg[p].kind = "ids"
    /\ LET f == Fresh(msg[p].txs)
       IN  /\ dedup' = f.seen
           /\ requested' = [t \in Txs |-> requested[t] + Cardinality({i \in DOMAIN f.new : f.new[i] = t})]
           /\ IF f.new = <<>> THEN Exchange(p, "done_round", NoTxs) ELSE Exchange(p, "request_txs", f.new)
    /\ outstanding' = [outstanding EXCEPT ![p] = Len(msg[p].txs)]
    /\ UNCHANGED <<queue, fed, announced, bodies, received>>

(* The client answers with the bodies it still holds for the requested ids.*)
ReplyTxs(p) ==
    /\ msg[p].kind = "request_txs"
    /\ LET held == SelectSeq(msg[p].txs, LAMBDA t : \E i \in DOMAIN bodies[p] : bodies[p][i] = t)
       IN  /\ bodies' = [bodies EXCEPT ![p] = FoldLeft(LAMBDA bs, t : RemoveFirst(bs, t), @, held)]
           /\ Exchange(p, "txs", held)
    /\ UNCHANGED <<queue, fed, announced, outstanding, dedup, requested, received>>

(* ... and the handler forwards each body to the coordinator.              *)
ReceiveTxs(p) ==
    /\ msg[p].kind = "txs"
    /\ received' = received \cup {msg[p].txs[i] : i \in DOMAIN msg[p].txs}
    /\ Exchange(p, "done_round", NoTxs)
    /\ UNCHANGED <<queue, fed, announced, bodies, outstanding, dedup, requested>>

(* The connection drops; nothing of the shared TxDedup is undone.          *)
Drop(p) == /\ p \in Drops /\ msg[p] # Down
           /\ msg' = [msg EXCEPT ![p] = Down]
           /\ UNCHANGED <<queue, fed, announced, bodies, outstanding, dedup, requested, received>>

Step(p) == RequestTxIds(p) \/ ReplyTxIds(p) \/ FetchFresh(p) \/ ReplyTxs(p) \/ ReceiveTxs(p)

Next == \E p \in Peers : FeedTx(p) \/ Step(p) \/ Drop(p)

(* The tasks at the two ends of a connection are always polled again.      *)
Spec == Init /\ [][Next]_vars /\ \A p \in Peers : WF_vars(Step(p))

-----------------------------------------------------------------------------
(* The flow-control window: a client never has more than MAX_UNACKED       *)
(* announcements that were not acknowledged.                               *)
WindowBounded == \A p \in Peers : Len(announced[p]) <= MaxUnacked

(* No body is stranded: a body a client still holds belongs to an          *)
(* announcement that was not acknowledged, so an acknowledgement without a *)
(* request leaks nothing.                                                  *)
NoStrandedBodies ==
    \A p \in Peers : \A i \in DOMAIN bodies[p] :
      Cardinality({j \in DOMAIN bodies[p] : bodies[p][j] = bodies[p][i]})
        <= Cardinality({j \in DOMAIN announced[p] : announced[p][j] = bodies[p][i]})

(* While the ids in flight fit in TxDedup, no transaction body is          *)
(* requested from two peers.                                               *)
FetchedOnce == Cardinality(Txs) <= DedupCap => \A t \in Txs : requested[t] <= 1

(* What one client promises its peers and its node: the three above.       *)
PullSound == WindowBounded /\ NoStrandedBodies /\ FetchedOnce

Queued(t) == \E p \in Peers : \E i \in DOMAIN queue[p] : queue[p][i] = t
Arrived(t) == t \in received \/ \E q \in Peers : msg[q] = Down

(* A transaction queued by a peer whose connection stays up reaches the    *)
(* coordinator, unless another peer was asked for it and dropped.          *)
Pulled == \A t \in Parseable : Queued(t) ~> Arrived(t)
=============================================================================
