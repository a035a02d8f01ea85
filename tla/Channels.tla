------------------------------ MODULE Channels ------------------------------
(***************************************************************************)
(* What a multiplexed connection promises the mini-protocols that share it *)
(* (net-core/src/mux): every channel is a FIFO.  What a protocol receives  *)
(* is a prefix of what its peer sent on the same channel, whatever the     *)
(* other channels do, and it is all delivered unless the channel breaks.   *)
(***************************************************************************)
EXTENDS Naturals, Sequences

CONSTANTS Chans,    \* the channels
          Payloads  \* the messages

VARIABLES sent,  \* sent[c]: what was handed to channel c, in order
          got,   \* got[c]: what came out at the other end, in order
          live   \* live[c]: channel c has not broken

vars == <<sent, got, live>>

Init == /\ sent = [c \in Chans |-> <<>>]
        /\ got = [c \in Chans |-> <<>>]
        /\ live \in [Chans -> BOOLEAN]

Send(c, m) == /\ sent' = [sent EXCEPT ![c] = Append(@, m)]
              /\ UNCHANGED <<got, live>>

Deliver(c) == /\ Len(got[c]) < Len(sent[c])
              /\ got' = [got EXCEPT ![c] = Append(@, sent[c][Len(@) + 1])]
              /\ UNCHANGED <<sent, live>>

(* A broken channel never recovers; what is in flight may still arrive.    *)
Break(S) == /\ live' = [c \in Chans |-> live[c] /\ c \notin S]
            /\ UNCHANGED <<sent, got>>

Next == \/ \E c \in Chans, m \in Payloads : Send(c, m)
        \/ \E c \in Chans : Deliver(c)
        \/ \E S \in SUBSET Chans : Break(S)

Spec == /\ Init /\ [][Next]_vars
        /\ \A c \in Chans : WF_vars(live[c] /\ Deliver(c))
=============================================================================
