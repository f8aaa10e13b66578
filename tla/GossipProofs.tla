---------------------------- MODULE GossipProofs ----------------------------
(***************************************************************************)
(* Lemmas about Gossip, for any message, node, capacity and limit: what    *)
(* each of its operations does to the broadcasts and to the channels.      *)
(***************************************************************************)
EXTENDS Gossip, TLAPS

\* For each node, what is left to send of a message and what is under way to the
\* node are within the limit together.
Budget == \A m \in Messages, n \in Nodes : queue[m] + net[m][n] <= TransmitLimit

GossipInv == GossipOK /\ Budget

\* Nothing of the message is queued or under way.
Silent(m) == queue[m] = 0 /\ \A n \in Nodes : net[m][n] = 0

\* Fresh queues, net and channels are within the limits.
LEMMA InvInit ==
    ASSUME TransmitLimit \in Nat, Cap \in Nat, GossipInit
    PROVE  GossipInv /\ \A m \in Messages : Silent(m)
BY DEF GossipInit, GossipInv, GossipOK, Budget, Silent

\* A channel send keeps the channel within its capacity.
LEMMA DeliverType ==
    ASSUME Cap \in Nat, NEW n \in Nodes, NEW m \in Messages,
           chan \in [Nodes -> Seq(Messages)],
           \A x \in Nodes : Len(chan[x]) <= Cap,
           dropped \in [Nodes -> SUBSET Messages],
           Deliver(n, m)
    PROVE  /\ chan' \in [Nodes -> Seq(Messages)]
           /\ \A x \in Nodes : Len(chan'[x]) <= Cap
           /\ dropped' \in [Nodes -> SUBSET Messages]
<1>1. CASE Len(chan[n]) < Cap
  <2>1. /\ chan' = [chan EXCEPT ![n] = Append(chan[n], m)]
        /\ dropped' = dropped
    BY <1>1 DEF Deliver
  <2>2. Append(chan[n], m) \in Seq(Messages)
        /\ Len(Append(chan[n], m)) = Len(chan[n]) + 1
    OBVIOUS
  <2> QED
    BY <1>1, <2>1, <2>2
<1>2. CASE ~(Len(chan[n]) < Cap)
  BY <1>2 DEF Deliver
<1> QED
  BY <1>1, <1>2

\* A broadcast of something new stays within the limits.
LEMMA BroadcastInv ==
    ASSUME TransmitLimit \in Nat, Cap \in Nat, GossipInv,
           NEW o \in Nodes, NEW m \in Messages, Silent(m), Broadcast(o, m)
    PROVE  GossipInv' /\ \A x \in Messages \ {m} : Silent(x) => Silent(x)'
<1>1. /\ chan' \in [Nodes -> Seq(Messages)]
      /\ \A x \in Nodes : Len(chan'[x]) <= Cap
      /\ dropped' \in [Nodes -> SUBSET Messages]
  BY DeliverType DEF Broadcast, GossipInv, GossipOK
<1>2. queue' = [queue EXCEPT ![m] = TransmitLimit] /\ net' = net
  BY DEF Broadcast
<1> USE DEF GossipInv, GossipOK, Budget, Silent
<1>3. /\ queue'[m] = TransmitLimit
      /\ \A x \in Messages \ {m} : queue'[x] = queue[x]
  BY <1>2
<1>4. queue' \in [Messages -> 0..TransmitLimit]
  BY <1>2
<1>5. Budget'
  <2> SUFFICES ASSUME NEW x \in Messages, NEW n \in Nodes
               PROVE  queue'[x] + net[x][n] <= TransmitLimit
    BY <1>2
  <2>1. CASE x = m
    <3>1. net[x][n] = 0 /\ queue'[x] = TransmitLimit
      BY <1>3, <2>1
    <3> QED
      BY <3>1
  <2>2. CASE x # m
    <3>1. queue'[x] = queue[x] /\ queue[x] + net[x][n] <= TransmitLimit
      BY <1>3, <2>2
    <3> QED
      BY <3>1
  <2> QED
    BY <2>1, <2>2
<1>6. \A x \in Messages \ {m} : Silent(x) => Silent(x)'
  BY <1>2, <1>3
<1> QED
  BY <1>1, <1>2, <1>4, <1>5, <1>6

\* A transmission goes from the queue to the net, or is lost.
LEMMA TransmitInv ==
    ASSUME TransmitLimit \in Nat, GossipInv,
           NEW o, NEW m \in Messages, NEW n \in Nodes, NEW arrives \in BOOLEAN,
           Transmit(o, m, n, arrives)
    PROVE  GossipInv' /\ \A x \in Messages : Silent(x) => Silent(x)'
<1> USE DEF GossipInv, GossipOK, Budget, Silent
<1>1. CASE arrives
  <2>1. /\ queue' = [queue EXCEPT ![m] = queue[m] - 1]
        /\ net' = [net EXCEPT ![m] = [net[m] EXCEPT ![n] = net[m][n] + 1]]
        /\ queue[m] > 0 /\ chan' = chan /\ dropped' = dropped
    BY <1>1 DEF Transmit
  <2>2. net[m][n] + 1 \in 0..TransmitLimit /\ queue[m] - 1 \in 0..TransmitLimit
    BY <2>1
  <2>3. GossipOK'
    BY <2>1, <2>2
  <2>4. Budget'
    BY <2>1, <2>2
  <2>5. ASSUME NEW x \in Messages, Silent(x) PROVE Silent(x)'
    <3>1. x # m
      BY <2>1, <2>5
    <3> QED
      BY <2>1, <2>5, <3>1
  <2> QED
    BY <2>3, <2>4, <2>5
<1>2. CASE ~arrives
  <2>1. /\ queue' = [queue EXCEPT ![m] = queue[m] - 1] /\ net' = net
        /\ queue[m] > 0 /\ chan' = chan /\ dropped' = dropped
    BY <1>2 DEF Transmit
  <2>2. queue[m] - 1 \in 0..TransmitLimit
    BY <2>1
  <2>3. GossipOK'
    BY <2>1, <2>2
  <2>4. ASSUME NEW x \in Messages, NEW y \in Nodes
        PROVE  queue'[x] + net'[x][y] <= TransmitLimit
    <3>1. /\ queue'[x] = IF x = m THEN queue[x] - 1 ELSE queue[x]
          /\ net'[x][y] = net[x][y]
      BY <2>1
    <3>2. /\ queue[x] \in Nat /\ net[x][y] \in Nat
          /\ queue[x] + net[x][y] <= TransmitLimit
      OBVIOUS
    <3> QED
      BY <3>1, <3>2
  <2>5. ASSUME NEW x \in Messages, Silent(x) PROVE Silent(x)'
    <3>1. x # m
      BY <2>1, <2>5
    <3> QED
      BY <2>1, <2>5, <3>1
  <2> QED
    BY <2>3, <2>4, <2>5
<1> QED
  BY <1>1, <1>2

\* A packet that arrives leaves the net.
LEMMA NotifyInv ==
    ASSUME TransmitLimit \in Nat, Cap \in Nat, GossipInv,
           NEW m \in Messages, NEW n \in Nodes, NotifyMsg(n, m)
    PROVE  GossipInv' /\ \A x \in Messages : Silent(x) => Silent(x)'
<1>1. /\ chan' \in [Nodes -> Seq(Messages)]
      /\ \A x \in Nodes : Len(chan'[x]) <= Cap
      /\ dropped' \in [Nodes -> SUBSET Messages]
  BY DeliverType DEF NotifyMsg, GossipInv, GossipOK
<1>2. /\ net' = [net EXCEPT ![m] = [net[m] EXCEPT ![n] = net[m][n] - 1]]
      /\ net[m][n] > 0 /\ queue' = queue
  BY DEF NotifyMsg
<1>3. net[m][n] - 1 \in 0..TransmitLimit
  BY <1>2 DEF GossipInv, GossipOK
<1> USE DEF GossipInv, GossipOK, Budget, Silent
<1>4. GossipOK'
  BY <1>1, <1>2, <1>3
<1>5. Budget'
  BY <1>2, <1>3
<1> QED
  BY <1>2, <1>4, <1>5

\* A loop that takes the first message shortens its channel.
LEMMA TakeInv ==
    ASSUME Cap \in Nat, GossipInv, NEW n \in Nodes, Take(n)
    PROVE  GossipInv' /\ \A x \in Messages : Silent(x) => Silent(x)'
<1> USE DEF GossipInv, GossipOK, Budget, Silent
<1>1. /\ chan[n] # <<>> /\ chan' = [chan EXCEPT ![n] = Tail(chan[n])]
      /\ UNCHANGED <<queue, net, dropped>>
  BY DEF Take
<1>2. chan[n] \in Seq(Messages)
  OBVIOUS
<1>3. Tail(chan[n]) \in Seq(Messages) /\ Len(Tail(chan[n])) = Len(chan[n]) - 1
  BY <1>1, <1>2
<1>4. \A x \in Nodes : Len(chan'[x]) <= Cap
  BY <1>1, <1>2, <1>3
<1> QED
  BY <1>1, <1>3, <1>4

-----------------------------------------------------------------------------
(* What is in a channel.                                                   *)

\* A channel send appends the message to one channel, or drops it there.
LEMMA DeliverEffect ==
    ASSUME GossipOK, NEW n \in Nodes, NEW m \in Messages, Deliver(n, m)
    PROVE  /\ \A x \in Nodes \ {n} : /\ chan'[x] = chan[x]
                                     /\ dropped'[x] = dropped[x]
           /\ \/ chan'[n] = Append(chan[n], m) /\ dropped'[n] = dropped[n]
              \/ chan'[n] = chan[n] /\ dropped'[n] = dropped[n] \cup {m}
<1>1. CASE Len(chan[n]) < Cap
  BY <1>1 DEF Deliver, GossipOK
<1>2. CASE ~(Len(chan[n]) < Cap)
  BY <1>2 DEF Deliver, GossipOK
<1> QED
  BY <1>1, <1>2

\* What Append does to a channel.
LEMMA Appended ==
    ASSUME NEW S, NEW c \in Seq(S), NEW m \in S
    PROVE  /\ Len(c) \in Nat /\ DOMAIN c = 1..Len(c)
           /\ DOMAIN Append(c, m) = 1..(Len(c) + 1)
           /\ \A i \in 1..Len(c) : Append(c, m)[i] = c[i]
           /\ Append(c, m)[Len(c) + 1] = m
OBVIOUS

\* What Tail does to one.
LEMMA Shortened ==
    ASSUME NEW S, NEW c \in Seq(S), c # <<>>
    PROVE  /\ Len(c) \in Nat /\ DOMAIN c = 1..Len(c) /\ 1 \in DOMAIN c
           /\ Head(c) = c[1] /\ Head(c) \in S
           /\ DOMAIN Tail(c) = 1..(Len(c) - 1)
           /\ \A i \in 1..(Len(c) - 1) : Tail(c)[i] = c[i + 1]
OBVIOUS

\* A channel send queues or drops its message, and takes nothing away.
LEMMA DeliverQueues ==
    ASSUME GossipOK, NEW n \in Nodes, NEW m \in Messages, Deliver(n, m)
    PROVE  /\ Queued(n, m)' \/ m \in dropped'[n]
           /\ \A x \in Nodes : dropped[x] \subseteq dropped'[x]
           /\ \A x \in Nodes, y \in Messages :
                /\ Queued(x, y) => Queued(x, y)'
                /\ Queued(x, y)' => Queued(x, y) \/ (x = n /\ y = m)
<1>1. CASE chan'[n] = Append(chan[n], m) /\ dropped'[n] = dropped[n]
  <2>1. chan[n] \in Seq(Messages)
    BY DEF GossipOK
  <2>2. /\ Len(chan[n]) \in Nat /\ DOMAIN chan[n] = 1..Len(chan[n])
        /\ DOMAIN chan'[n] = 1..(Len(chan[n]) + 1)
        /\ \A i \in 1..Len(chan[n]) : chan'[n][i] = chan[n][i]
        /\ chan'[n][Len(chan[n]) + 1] = m
    BY <1>1, <2>1, Appended
  <2>3. Queued(n, m)'
    BY <2>2 DEF Queued
  <2>4. ASSUME NEW y \in Messages
        PROVE  /\ Queued(n, y) => Queued(n, y)'
               /\ Queued(n, y)' => Queued(n, y) \/ y = m
    <3>1. Queued(n, y) => Queued(n, y)'
      BY <2>2 DEF Queued
    <3>2. ASSUME Queued(n, y)' PROVE Queued(n, y) \/ y = m
      <4>1. PICK i \in DOMAIN chan'[n] : chan'[n][i] = y
        BY <3>2 DEF Queued
      <4>2. CASE i = Len(chan[n]) + 1
        BY <2>2, <4>1, <4>2
      <4>3. CASE i \in 1..Len(chan[n])
        BY <2>2, <4>1, <4>3 DEF Queued
      <4> QED
        BY <2>2, <4>2, <4>3
    <3> QED
      BY <3>1, <3>2
  <2>5. ASSUME NEW x \in Nodes, x # n
        PROVE  /\ dropped'[x] = dropped[x]
               /\ \A y \in Messages : Queued(x, y)' <=> Queued(x, y)
    BY <2>5, DeliverEffect DEF Queued
  <2>6. \A x \in Nodes : dropped[x] \subseteq dropped'[x]
    BY <1>1, <2>5
  <2> QED
    BY <2>3, <2>4, <2>5, <2>6
<1>2. CASE chan'[n] = chan[n] /\ dropped'[n] = dropped[n] \cup {m}
  BY <1>2, DeliverEffect DEF Queued
<1> QED
  BY <1>1, <1>2, DeliverEffect

\* A loop takes the first message, and no other leaves its channel.
LEMMA TakeQueues ==
    ASSUME GossipOK, NEW n \in Nodes, Take(n)
    PROVE  /\ Head(chan[n]) \in Messages /\ Queued(n, Head(chan[n]))
           /\ \A x \in Nodes, y \in Messages :
                /\ Queued(x, y)' => Queued(x, y)
                /\ Queued(x, y) =>
                     Queued(x, y)' \/ (x = n /\ y = Head(chan[n]))
<1>1. /\ chan[n] \in Seq(Messages) /\ chan[n] # <<>>
      /\ chan'[n] = Tail(chan[n]) /\ \A x \in Nodes \ {n} : chan'[x] = chan[x]
  BY DEF GossipOK, Take
<1>2. /\ Len(chan[n]) \in Nat /\ DOMAIN chan[n] = 1..Len(chan[n])
      /\ 1 \in DOMAIN chan[n]
      /\ Head(chan[n]) = chan[n][1] /\ Head(chan[n]) \in Messages
      /\ DOMAIN chan'[n] = 1..(Len(chan[n]) - 1)
      /\ \A i \in 1..(Len(chan[n]) - 1) : chan'[n][i] = chan[n][i + 1]
  BY <1>1, Shortened
<1>3. Queued(n, Head(chan[n]))
  BY <1>2 DEF Queued
<1>4. ASSUME NEW y \in Messages
      PROVE  /\ Queued(n, y)' => Queued(n, y)
             /\ Queued(n, y) => Queued(n, y)' \/ y = Head(chan[n])
  <2>1. ASSUME Queued(n, y)' PROVE Queued(n, y)
    <3>1. PICK i \in DOMAIN chan'[n] : chan'[n][i] = y
      BY <2>1 DEF Queued
    <3>2. i + 1 \in DOMAIN chan[n] /\ chan[n][i + 1] = y
      BY <1>2, <3>1
    <3> QED
      BY <3>2 DEF Queued
  <2>2. ASSUME Queued(n, y), y # Head(chan[n]) PROVE Queued(n, y)'
    <3>1. PICK i \in DOMAIN chan[n] : chan[n][i] = y
      BY <2>2 DEF Queued
    <3>2. i # 1
      BY <1>2, <2>2, <3>1
    <3>3. i - 1 \in DOMAIN chan'[n] /\ chan'[n][i - 1] = y
      BY <1>2, <3>1, <3>2
    <3> QED
      BY <3>3 DEF Queued
  <2> QED
    BY <2>1, <2>2
<1>5. ASSUME NEW x \in Nodes, x # n, NEW y
      PROVE  Queued(x, y)' <=> Queued(x, y)
  <2>1. chan'[x] = chan[x]
    BY <1>1, <1>5
  <2> QED
    BY <2>1 DEF Queued
<1>6. Head(chan[n]) \in Messages
  BY <1>2
<1>7. ASSUME NEW x \in Nodes, NEW y \in Messages
      PROVE  /\ Queued(x, y)' => Queued(x, y)
             /\ Queued(x, y) =>
                  Queued(x, y)' \/ (x = n /\ y = Head(chan[n]))
  <2>1. CASE x = n
    BY <1>4, <2>1
  <2>2. CASE x # n
    BY <1>5, <2>2
  <2> QED
    BY <2>1, <2>2
<1> QED
  BY <1>3, <1>6, <1>7
=============================================================================
