------------------------------- MODULE Gossip -------------------------------
(***************************************************************************)
(* Broadcasts between nodes (internal/gossip/gossip.go), for one kind of   *)
(* message: sampling decisions in Sampling, trigger events in LoadControl. *)
(*                                                                         *)
(* memberlist is external: a queued broadcast is sent TransmitLimit times  *)
(* in all, to peers it picks, in packets that may be lost or overtake each *)
(* other.  A packet that is sent and does not arrive stands for one that   *)
(* is lost and for one that goes to a node outside the model.              *)
(***************************************************************************)
EXTENDS Naturals, Sequences

CONSTANTS
    Nodes, Messages,
    TransmitLimit,  \* RetransmitMult * ceil(log10(members + 1))
    Cap             \* capacity of the channel

VARIABLES
    queue,      \* per message, the transmissions that are left
    net,        \* per message and node, the packets under way to the node
    chan,       \* per node, decisionChan or triggerChan
    dropped     \* history: per node, the messages that found the channel full

GossipInit ==
    /\ queue = [m \in Messages |-> 0]
    /\ net = [m \in Messages |-> [n \in Nodes |-> 0]]
    /\ chan = [n \in Nodes |-> <<>>]
    /\ dropped = [n \in Nodes |-> {}]

\* A channel send with a default: a full channel drops the message.
Deliver(n, m) ==
    IF Len(chan[n]) < Cap
      THEN chan' = [chan EXCEPT ![n] = Append(@, m)] /\ UNCHANGED dropped
      ELSE dropped' = [dropped EXCEPT ![n] = @ \cup {m}] /\ UNCHANGED chan

\* A broadcast that tells the other nodes only.
Broadcast_NotLocal(origin, m) ==
    /\ queue' = [queue EXCEPT ![m] = TransmitLimit]
    /\ UNCHANGED <<net, chan, dropped>>

Broadcast(origin, m) ==
    /\ queue' = [queue EXCEPT ![m] = TransmitLimit]
    /\ Deliver(origin, m)
    /\ UNCHANGED net

\* A delegate that never has anything to send.
Transmit_Nothing(origin, m, n, arrives) ==
    queue[m] > 0 /\ n # origin /\ UNCHANGED <<queue, net, chan, dropped>>

\* memberlist asks GetBroadcasts for what to send to peer n.
Transmit(origin, m, n, arrives) ==
    /\ queue[m] > 0
    /\ n # origin
    /\ queue' = [queue EXCEPT ![m] = @ - 1]
    /\ net' = IF arrives THEN [net EXCEPT ![m][n] = @ + 1] ELSE net
    /\ UNCHANGED <<chan, dropped>>

\* A node that hands on what it hears.
NotifyMsg_Forward(n, m) ==
    /\ net[m][n] > 0
    /\ net' = [net EXCEPT ![m][n] = @ - 1]
    /\ Deliver(n, m)
    /\ queue' = [queue EXCEPT ![m] = TransmitLimit]

\* A node that hears of a message does not hand it on.
NotifyMsg(n, m) ==
    /\ net[m][n] > 0
    /\ net' = [net EXCEPT ![m][n] = @ - 1]
    /\ Deliver(n, m)
    /\ UNCHANGED queue

\* The processor's loop takes the first message.
Take(n) ==
    /\ chan[n] # <<>>
    /\ chan' = [chan EXCEPT ![n] = Tail(@)]
    /\ UNCHANGED <<queue, net, dropped>>

\* The types of the state; the channels stay within their capacity, and a
\* message has no more than TransmitLimit transmissions left or under way.
GossipOK ==
    /\ queue \in [Messages -> 0..TransmitLimit]
    /\ net \in [Messages -> [Nodes -> 0..TransmitLimit]]
    /\ chan \in [Nodes -> Seq(Messages)]
    /\ \A n \in Nodes : Len(chan[n]) <= Cap
    /\ dropped \in [Nodes -> SUBSET Messages]

\* Message m is under way to node n, or may still be sent to it.
UnderWay(n, m) == queue[m] > 0 \/ net[m][n] > 0

Queued(n, m) == \E i \in DOMAIN chan[n] : chan[n][i] = m
=============================================================================
