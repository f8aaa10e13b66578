-------------------------- MODULE LoadControlProofs --------------------------
(***************************************************************************)
(* Proofs about LoadControl, for any set of nodes, any channel capacity    *)
(* and any number of transmissions and of load changes: whose news a node  *)
(* follows, and when that may be outdated.                                 *)
(***************************************************************************)
EXTENDS LoadControl, TLAPS

GP == INSTANCE GossipProofs WITH Messages <- Events, chan <- triggerChan,
                                 Cap <- TriggerCap

\* The operators of Gossip and those the lemmas about it speak of are the same.
LEMMA SameGossip ==
    /\ (G!GossipOK <=> GP!GossipOK) /\ (G!GossipOK' <=> GP!GossipOK')
    /\ G!GossipInit <=> GP!GossipInit
    /\ \A n, e : G!Broadcast(n, e) <=> GP!Broadcast(n, e)
    /\ \A n, e : G!NotifyMsg(n, e) <=> GP!NotifyMsg(n, e)
    /\ \A o, e, n, a : G!Transmit(o, e, n, a) <=> GP!Transmit(o, e, n, a)
    /\ \A n : G!Take(n) <=> GP!Take(n)
BY DEF G!GossipOK, GP!GossipOK, G!GossipInit, GP!GossipInit, G!Broadcast,
       GP!Broadcast, G!NotifyMsg, GP!NotifyMsg, G!Transmit, GP!Transmit, G!Take,
       GP!Take, G!Deliver, GP!Deliver

-----------------------------------------------------------------------------
(* The inductive invariant.                                                *)

\* A monitor has reported each change of load at most once, and its last event
\* carries the value of highLoadActive.
SentInv ==
    \A n \in Nodes :
      /\ Len(sent[n]) <= changes
      /\ over[n] # highLoadActive[n] => Len(sent[n]) + 1 <= changes
      /\ sent[n] = <<>> => highLoadActive[n] = FALSE
      /\ sent[n] # <<>> => highLoadActive[n] = sent[n][Len(sent[n])]

Known(e) == e[2] <= Len(sent[e[1]])

\* Only events that were sent are on their way anywhere, and none is sent to its
\* own sender.
KnownInv ==
    /\ \A e \in Events : /\ ~Known(e) => GP!Silent(e)
                         /\ net[e][e[1]] = 0
    /\ \A n \in Nodes, e \in Events :
         GP!Queued(n, e) \/ e \in processed[n] => Known(e)

\* The level is the one of the last event.
LevelInv ==
    \A n \in Nodes :
      /\ last[n] = <<>> => level[n] = "fine"
      /\ last[n] # <<>> => level[n] = LevelFor(sent[last[n][1]][last[n][2]])

\* A node processes its own events in the order in which it has sent them.
OrderAt(n) ==
    /\ \A i, j \in DOMAIN triggerChan[n] :
         i < j /\ triggerChan[n][i][1] = n /\ triggerChan[n][j][1] = n =>
           triggerChan[n][i][2] < triggerChan[n][j][2]
    /\ \A e \in processed[n] : \A j \in DOMAIN triggerChan[n] :
         e[1] = n /\ triggerChan[n][j][1] = n => e[2] < triggerChan[n][j][2]

OrderInv == \A n \in Nodes : OrderAt(n)

\* It drops its latest event, or has it still to process, or has followed no
\* older one of its own since.
LatestAt(n) ==
    \/ Latest(n) \in dropped[n]
    \/ GP!Queued(n, Latest(n))
    \/ /\ Latest(n) \in processed[n]
       /\ last[n] = Latest(n) \/ (last[n] # <<>> /\ last[n][1] # n)

LatestInv == \A n \in Nodes : sent[n] # <<>> => LatestAt(n)

Inv == /\ TypeOK /\ GP!Budget
       /\ SentInv /\ KnownInv /\ LevelInv /\ OrderInv /\ LatestInv

\* An event is a node and a number.
LEMMA EventParts ==
    ASSUME NEW e \in Events
    PROVE  /\ e = <<e[1], e[2]>> /\ e # <<>>
           /\ e[1] \in Nodes /\ e[2] \in 1..MaxChanges
BY DEF Events

\* A node that has sent an event has a latest one.
LEMMA LatestIsEvent ==
    ASSUME TypeOK, NEW n \in Nodes, sent[n] # <<>>
    PROVE  Latest(n) \in Events
<1>1. /\ sent[n] \in Seq(BOOLEAN) /\ Len(sent[n]) <= changes
      /\ changes \in 0..MaxChanges
  BY DEF TypeOK
<1>2. Len(sent[n]) \in 1..MaxChanges
  BY <1>1, LimitsAreNaturals
<1> QED
  BY <1>2 DEF Latest, Events

\* The parts of the invariant about gossip.
LEMMA InvGossip == Inv => GP!GossipInv /\ GP!GossipOK
BY SameGossip DEF Inv, TypeOK, GP!GossipInv

-----------------------------------------------------------------------------

\* The invariant holds of nodes without load.
LEMMA InvInit == Init => Inv
<1> SUFFICES ASSUME Init PROVE Inv
  OBVIOUS
<1>1. GP!GossipInv /\ \A e \in Events : GP!Silent(e)
  BY SameGossip, GP!InvInit, LimitsAreNaturals DEF Init
<1>2. \A n \in Nodes : sent[n] = <<>> /\ Len(sent[n]) = 0
  BY DEF Init
<1>3. TypeOK
  <2>1. G!GossipOK
    BY <1>1, SameGossip DEF GP!GossipInv
  <2>2. sent \in [Nodes -> Seq(BOOLEAN)]
    BY DEF Init
  <2> QED
    BY <1>2, <2>1, <2>2, LimitsAreNaturals DEF Init, TypeOK
<1>4. SentInv
  <2>1. /\ changes = 0
        /\ \A n \in Nodes : over[n] = FALSE /\ highLoadActive[n] = FALSE
    BY DEF Init
  <2> SUFFICES ASSUME NEW n \in Nodes
               PROVE  /\ Len(sent[n]) <= changes
                      /\ over[n] = highLoadActive[n]
                      /\ sent[n] = <<>> /\ highLoadActive[n] = FALSE
    BY DEF SentInv
  <2>2. Len(sent[n]) <= changes
    BY <1>2, <2>1
  <2>3. over[n] = highLoadActive[n] /\ sent[n] = <<>>
    BY <1>2, <2>1, Zenon
  <2> QED
    BY <2>1, <2>2, <2>3, Zenon
<1>5. KnownInv
  <2>1. \A n \in Nodes, e \in Events : ~GP!Queued(n, e) /\ e \notin processed[n]
    BY SameGossip DEF Init, GP!GossipInit, GP!Queued
  <2> QED
    BY <1>1, <2>1, EventParts DEF KnownInv, GP!Silent
<1>6. LevelInv /\ LatestInv
  BY <1>2 DEF Init, LevelInv, LatestInv
<1>7. OrderInv
  <2>1. \A n \in Nodes : DOMAIN triggerChan[n] = {}
    BY SameGossip DEF Init, GP!GossipInit
  <2> QED
    BY <2>1 DEF OrderInv, OrderAt
<1> QED
  BY <1>1, <1>3, <1>4, <1>5, <1>6, <1>7 DEF Inv, GP!GossipInv

\* A change of load is one more to report.
LEMMA LoadChangeStep ==
    ASSUME Inv, NEW n \in Nodes, LoadChange(n)
    PROVE  Inv'
<1>1. /\ changes < MaxChanges /\ changes' = changes + 1
      /\ over' = [over EXCEPT ![n] = ~over[n]]
      /\ UNCHANGED <<highLoadActive, sent, queue, net, triggerChan, dropped,
                     level, processed, last>>
  BY DEF LoadChange, monitorVars, gossipVars, levelVars
<1>2. TypeOK /\ SentInv
  BY DEF Inv
<1>3. G!GossipOK'
  BY <1>1, <1>2 DEF TypeOK, G!GossipOK
<1>4. /\ changes' \in 0..MaxChanges /\ over' \in [Nodes -> BOOLEAN]
      /\ \A x \in Nodes : Len(sent'[x]) \in Nat /\ Len(sent'[x]) <= changes'
  BY <1>1, <1>2, LimitsAreNaturals DEF TypeOK
<1>5. TypeOK'
  BY <1>1, <1>2, <1>3, <1>4 DEF TypeOK
<1>6. SentInv'
  BY <1>1, <1>2, <1>4 DEF SentInv, TypeOK
<1>7. KnownInv' /\ GP!Budget'
  BY <1>1 DEF Inv, KnownInv, Known, GP!Silent, GP!Queued, GP!Budget
<1>8. LevelInv' /\ OrderInv' /\ LatestInv'
  BY <1>1 DEF Inv, LevelInv, OrderInv, OrderAt, LatestInv, LatestAt, Latest,
              GP!Queued
<1> QED
  BY <1>5, <1>6, <1>7, <1>8 DEF Inv

\* A report is a new event, younger than all that its node has sent; it is in
\* its node's channel, or dropped there.
LEMMA MonitorStep ==
    ASSUME Inv, NEW n \in Nodes, Monitor(n)
    PROVE  Inv'
<1>1. /\ over[n] # highLoadActive[n]
      /\ highLoadActive' = [highLoadActive EXCEPT ![n] = over[n]]
      /\ sent' = [sent EXCEPT ![n] = Append(sent[n], over[n])]
      /\ UNCHANGED <<over, changes, level, processed, last>>
  BY DEF Monitor, loadVars, levelVars
<1>2. GP!Broadcast(n, <<n, Len(sent[n]) + 1>>)
  BY SameGossip DEF Monitor, BroadcastTrigger
<1>3. TypeOK /\ SentInv /\ KnownInv /\ LevelInv /\ OrderInv /\ LatestInv
  BY DEF Inv
<1>4. /\ sent[n] \in Seq(BOOLEAN) /\ over[n] \in BOOLEAN /\ Len(sent[n]) \in Nat
      /\ Len(sent[n]) + 1 <= changes /\ changes \in 0..MaxChanges
  BY <1>1, <1>3 DEF TypeOK, SentInv
<1>5. PICK e \in Events : /\ e = <<n, Len(sent[n]) + 1>>
                          /\ e[1] = n /\ e[2] = Len(sent[n]) + 1
  <2>1. <<n, Len(sent[n]) + 1>> \in Events
    BY <1>4, LimitsAreNaturals DEF Events
  <2> QED
    BY <2>1
<1>6. ~Known(e) /\ GP!Silent(e)
  BY <1>3, <1>4, <1>5 DEF Known, KnownInv
<1>7. /\ GP!GossipInv' /\ GP!GossipOK /\ GP!Deliver(n, e) /\ net' = net
      /\ \A x \in Events \ {e} : GP!Silent(x) => GP!Silent(x)'
  BY <1>2, <1>5, <1>6, InvGossip, GP!BroadcastInv, LimitsAreNaturals
     DEF GP!Broadcast
<1>8. /\ sent' \in [Nodes -> Seq(BOOLEAN)] /\ sent'[n] # <<>>
      /\ Len(sent'[n]) = Len(sent[n]) + 1
      /\ sent'[n][Len(sent[n]) + 1] = over[n]
      /\ \A i \in 1..Len(sent[n]) : sent'[n][i] = sent[n][i]
      /\ \A x \in Nodes \ {n} : sent'[x] = sent[x]
  <2>1. /\ sent \in [Nodes -> Seq(BOOLEAN)]
        /\ sent'[n] = Append(sent[n], over[n])
    BY <1>1, <1>3 DEF TypeOK
  <2>2. Append(sent[n], over[n]) \in Seq(BOOLEAN)
    BY <1>4
  <2> QED
    BY <1>1, <1>4, <2>1, <2>2
<1>9. ASSUME NEW x \in Events
      PROVE  /\ Known(x) => /\ Known(x)'
                            /\ sent'[x[1]][x[2]] = sent[x[1]][x[2]]
             /\ Known(x)' => Known(x) \/ x = e
  <2>1. x[1] \in Nodes /\ x[2] \in 1..MaxChanges /\ x = <<x[1], x[2]>>
    BY EventParts
  <2>2. CASE x[1] = n
    BY <1>4, <1>5, <1>8, <2>1, <2>2 DEF Known
  <2>3. CASE x[1] # n
    BY <1>8, <2>1, <2>3 DEF Known
  <2> QED
    BY <2>2, <2>3
<1>10. Known(e)'
  BY <1>4, <1>5, <1>8 DEF Known
<1>11. TypeOK'
  <2>1. G!GossipOK'
    BY <1>7, SameGossip DEF GP!GossipInv
  <2>2. \A x \in Nodes : Len(sent'[x]) <= changes'
    BY <1>1, <1>3, <1>4, <1>8 DEF TypeOK
  <2> QED
    BY <1>1, <1>3, <1>4, <1>8, <2>1, <2>2 DEF TypeOK
<1>12. SentInv'
  <2>1. \A x \in Nodes : Len(sent'[x]) <= changes'
    BY <1>11 DEF TypeOK
  <2>2. ASSUME NEW x \in Nodes, x # n
        PROVE  /\ highLoadActive'[x] = highLoadActive[x] /\ over'[x] = over[x]
               /\ sent'[x] = sent[x]
    BY <1>1, <1>3, <1>8, <2>2 DEF TypeOK
  <2>3. highLoadActive'[n] = over[n] /\ over'[n] = over[n]
    BY <1>1, <1>3 DEF TypeOK
  <2> QED
    BY <1>1, <1>3, <1>8, <2>1, <2>2, <2>3 DEF SentInv
<1>13. KnownInv'
  <2>1. ASSUME NEW x \in Events, ~Known(x)' PROVE GP!Silent(x)'
    BY <1>3, <1>7, <1>9, <1>10, <2>1 DEF KnownInv
  <2>2. ASSUME NEW m \in Nodes, NEW x \in Events,
               GP!Queued(m, x)' \/ x \in processed'[m]
        PROVE  Known(x)'
    <3>1. GP!Queued(m, x)' => GP!Queued(m, x) \/ x = e
      BY <1>5, <1>7, GP!DeliverQueues
    <3> QED
      BY <1>1, <1>3, <1>9, <1>10, <2>2, <3>1 DEF KnownInv
  <2> QED
    BY <1>3, <1>7, <2>1, <2>2 DEF KnownInv
<1>14. LevelInv'
  <2>1. ASSUME NEW m \in Nodes, last[m] # <<>>
        PROVE  sent'[last[m][1]][last[m][2]] = sent[last[m][1]][last[m][2]]
    <3>1. last[m] \in Events /\ Known(last[m])
      BY <1>3, <2>1 DEF TypeOK, KnownInv
    <3> QED
      BY <1>9, <3>1
  <2> QED
    BY <1>1, <1>3, <2>1 DEF LevelInv
<1>15. OrderInv'
  <2>1. ASSUME NEW m \in Nodes, triggerChan'[m] = triggerChan[m]
        PROVE  OrderAt(m)'
    BY <1>1, <1>3, <2>1 DEF OrderInv, OrderAt
  <2>2. ASSUME triggerChan'[n] = Append(triggerChan[n], e)
        PROVE  OrderAt(n)'
    <3> DEFINE c == triggerChan[n]
    <3>1. c \in Seq(Events)
      BY <1>7 DEF GP!GossipOK
    <3>2. /\ Len(c) \in Nat /\ DOMAIN c = 1..Len(c)
          /\ DOMAIN triggerChan'[n] = 1..(Len(c) + 1)
          /\ \A i \in 1..Len(c) : triggerChan'[n][i] = c[i]
          /\ triggerChan'[n][Len(c) + 1] = e
      BY <1>5, <2>2, <3>1, GP!Appended
    <3>3. \A i \in DOMAIN c : c[i] \in Events /\ GP!Queued(n, c[i])
      BY <3>1 DEF GP!Queued
    <3>4. \A i \in DOMAIN c : c[i][1] = n => c[i][2] < e[2]
      <4> SUFFICES ASSUME NEW i \in DOMAIN c, c[i][1] = n PROVE c[i][2] < e[2]
        OBVIOUS
      <4>1. Known(c[i]) /\ c[i][2] \in 1..MaxChanges
        BY <1>3, <3>3, EventParts DEF KnownInv
      <4> QED
        BY <1>4, <1>5, <4>1 DEF Known
    <3>5. \A x \in processed[n] : x[1] = n => x[2] < e[2]
      <4> SUFFICES ASSUME NEW x \in processed[n], x[1] = n PROVE x[2] < e[2]
        OBVIOUS
      <4>1. x \in Events
        BY <1>3 DEF TypeOK
      <4>2. Known(x) /\ x[2] \in 1..MaxChanges
        BY <1>3, <4>1, EventParts DEF KnownInv
      <4> QED
        BY <1>4, <1>5, <4>2 DEF Known
    <3>6. processed' = processed
      BY <1>1
    <3> HIDE DEF c
    <3>7. /\ \A i, j \in 1..Len(c) : i < j /\ c[i][1] = n /\ c[j][1] = n =>
                                       c[i][2] < c[j][2]
          /\ \A x \in processed[n] : \A j \in 1..Len(c) :
               x[1] = n /\ c[j][1] = n => x[2] < c[j][2]
      BY <1>3, <3>2 DEF OrderInv, OrderAt, c
    <3> DEFINE d == triggerChan'[n]
    <3>8. /\ DOMAIN c = 1..Len(c) /\ DOMAIN d = 1..(Len(c) + 1)
          /\ \A i \in 1..Len(c) : d[i] = c[i]
          /\ d[Len(c) + 1] = e /\ Len(c) \in Nat
      BY <3>2
    <3> HIDE DEF d
    <3>9. \A i, j \in DOMAIN d : i < j /\ d[i][1] = n /\ d[j][1] = n =>
                                  d[i][2] < d[j][2]
      <4> SUFFICES ASSUME NEW i \in DOMAIN d, NEW j \in DOMAIN d,
                          i < j, d[i][1] = n, d[j][1] = n
                   PROVE  d[i][2] < d[j][2]
        OBVIOUS
      <4>1. i \in 1..Len(c) /\ d[i] = c[i]
        BY <3>8
      <4>2. CASE j \in 1..Len(c)
        BY <3>7, <3>8, <4>1, <4>2
      <4>3. CASE j = Len(c) + 1
        BY <3>4, <3>8, <4>1, <4>3
      <4> QED
        BY <3>8, <4>2, <4>3
    <3>10. \A x \in processed'[n] : \A j \in DOMAIN d :
             x[1] = n /\ d[j][1] = n => x[2] < d[j][2]
      <4> SUFFICES ASSUME NEW x \in processed[n], NEW j \in DOMAIN d,
                          x[1] = n, d[j][1] = n
                   PROVE  x[2] < d[j][2]
        BY <3>6
      <4>1. CASE j \in 1..Len(c)
        BY <3>7, <3>8, <4>1
      <4>2. CASE j = Len(c) + 1
        BY <3>5, <3>8, <4>2
      <4> QED
        BY <3>8, <4>1, <4>2
    <3> QED
      BY <3>9, <3>10 DEF OrderAt, d
  <2> QED
    BY <1>5, <1>7, <2>1, <2>2, GP!DeliverEffect DEF OrderInv
<1>16. LatestInv'
  <2>1. ASSUME NEW m \in Nodes, m # n, sent'[m] # <<>>
        PROVE  LatestAt(m)'
    <3>1. sent'[m] = sent[m] /\ Latest(m)' = Latest(m)
      BY <1>8, <2>1 DEF Latest
    <3>2. PICK l \in Events : l = Latest(m)
      BY <1>3, <2>1, <3>1, LatestIsEvent
    <3>3. /\ GP!Queued(m, l) => GP!Queued(m, l)'
          /\ dropped[m] \subseteq dropped'[m]
      BY <1>5, <1>7, GP!DeliverQueues
    <3> QED
      BY <1>1, <1>3, <2>1, <3>1, <3>2, <3>3 DEF LatestInv, LatestAt
  <2>2. LatestAt(n)'
    <3>1. Latest(n)' = e
      BY <1>5, <1>8 DEF Latest
    <3>2. GP!Queued(n, e)' \/ e \in dropped'[n]
      BY <1>5, <1>7, GP!DeliverQueues
    <3> QED
      BY <3>1, <3>2 DEF LatestAt
  <2> QED
    BY <2>1, <2>2 DEF LatestInv
<1> QED
  BY <1>7, <1>11, <1>12, <1>13, <1>14, <1>15, <1>16 DEF Inv, GP!GossipInv

\* Packets and transmissions bring events to other nodes than their senders.
LEMMA NetworkStep ==
    ASSUME Inv, Network
    PROVE  Inv'
<1>1. UNCHANGED <<over, changes, highLoadActive, sent, level, processed, last>>
  BY DEF Network, loadVars, monitorVars, levelVars
<1>2. /\ TypeOK /\ SentInv /\ KnownInv /\ LevelInv /\ OrderInv /\ LatestInv
      /\ GP!GossipInv /\ GP!GossipOK
  BY InvGossip DEF Inv
<1>3. \A x : Known(x)' <=> Known(x)
  BY <1>1 DEF Known
<1>4. ASSUME GP!GossipInv', \A x \in Events : GP!Silent(x) => GP!Silent(x)',
             \A x \in Events : net'[x][x[1]] = 0,
             \A n \in Nodes, x \in Events :
               /\ GP!Queued(n, x)' => GP!Queued(n, x) \/ Known(x)
               /\ GP!Queued(n, x) => GP!Queued(n, x)',
             \A n \in Nodes : dropped[n] \subseteq dropped'[n],
             OrderInv'
      PROVE  Inv'
  <2>1. TypeOK'
    <3>1. G!GossipOK'
      BY <1>4, SameGossip DEF GP!GossipInv
    <3> QED
      BY <1>1, <1>2, <3>1 DEF TypeOK
  <2>2. SentInv' /\ LevelInv'
    BY <1>1, <1>2 DEF SentInv, LevelInv
  <2>3. KnownInv'
    BY <1>1, <1>2, <1>3, <1>4 DEF KnownInv
  <2>4. LatestInv'
    <3> SUFFICES ASSUME NEW n \in Nodes, sent[n] # <<>> PROVE LatestAt(n)'
      BY <1>1 DEF LatestInv
    <3>1. PICK l \in Events : l = Latest(n)
      BY <1>2, LatestIsEvent
    <3>2. Latest(n)' = l
      BY <1>1, <3>1 DEF Latest
    <3> QED
      BY <1>1, <1>2, <1>4, <3>1, <3>2 DEF LatestInv, LatestAt
  <2> QED
    BY <1>4, <2>1, <2>2, <2>3, <2>4 DEF Inv, GP!GossipInv
<1>5. ASSUME NEW e \in Events, NEW n \in Nodes, GP!NotifyMsg(n, e)
      PROVE  Inv'
  <2>1. /\ GP!GossipInv' /\ \A x \in Events : GP!Silent(x) => GP!Silent(x)'
    BY <1>2, <1>5, GP!NotifyInv, LimitsAreNaturals
  <2>2. /\ net[e][n] > 0 /\ GP!Deliver(n, e)
        /\ net' = [net EXCEPT ![e] = [net[e] EXCEPT ![n] = net[e][n] - 1]]
    BY <1>5 DEF GP!NotifyMsg
  <2>3. n # e[1] /\ Known(e)
    BY <1>2, <2>2 DEF KnownInv, GP!Silent
  <2>4. \A x \in Events : net'[x][x[1]] = 0
    BY <1>2, <2>2, <2>3, EventParts DEF KnownInv, GP!GossipOK
  <2>5. OrderInv'
    <3>1. ASSUME NEW m \in Nodes, triggerChan'[m] = triggerChan[m]
          PROVE  OrderAt(m)'
      BY <1>1, <1>2, <3>1 DEF OrderInv, OrderAt
    <3>2. ASSUME triggerChan'[n] = Append(triggerChan[n], e)
          PROVE  OrderAt(n)'
      <4> DEFINE c == triggerChan[n]
      <4>1. c \in Seq(Events)
        BY <1>2 DEF GP!GossipOK
      <4>2. /\ Len(c) \in Nat /\ DOMAIN c = 1..Len(c)
            /\ DOMAIN triggerChan'[n] = 1..(Len(c) + 1)
            /\ \A i \in 1..Len(c) : triggerChan'[n][i] = c[i]
            /\ triggerChan'[n][Len(c) + 1] = e
        BY <3>2, <4>1, GP!Appended
      <4> HIDE DEF c
      <4>3. /\ \A i, j \in 1..Len(c) : i < j /\ c[i][1] = n /\ c[j][1] = n =>
                                         c[i][2] < c[j][2]
            /\ \A x \in processed[n] : \A j \in 1..Len(c) :
                 x[1] = n /\ c[j][1] = n => x[2] < c[j][2]
        BY <1>2, <4>2 DEF OrderInv, OrderAt, c
      <4> DEFINE d == triggerChan'[n]
      <4>4. /\ DOMAIN d = 1..(Len(c) + 1) /\ Len(c) \in Nat
            /\ \A i \in 1..Len(c) : d[i] = c[i]
            /\ d[Len(c) + 1][1] # n
        BY <2>3, <4>2
      <4>5. processed'[n] = processed[n]
        BY <1>1
      <4> HIDE DEF d
      <4>6. \A i \in DOMAIN d : d[i][1] = n => i \in 1..Len(c)
        BY <4>4
      <4>7. \A i, j \in DOMAIN d : i < j /\ d[i][1] = n /\ d[j][1] = n =>
                                    d[i][2] < d[j][2]
        BY <4>3, <4>4, <4>6
      <4>8. \A x \in processed'[n] : \A j \in DOMAIN d :
              x[1] = n /\ d[j][1] = n => x[2] < d[j][2]
        BY <4>3, <4>4, <4>5, <4>6
      <4> QED
        BY <4>7, <4>8 DEF OrderAt, d
    <3> QED
      BY <1>2, <2>2, <3>1, <3>2, GP!DeliverEffect DEF OrderInv
  <2> QED
    BY <1>2, <1>4, <2>1, <2>2, <2>3, <2>4, <2>5, GP!DeliverQueues
<1>6. ASSUME NEW e \in Events, NEW n \in Nodes, NEW a \in BOOLEAN,
             GP!Transmit(e[1], e, n, a)
      PROVE  Inv'
  <2>1. /\ GP!GossipInv' /\ \A x \in Events : GP!Silent(x) => GP!Silent(x)'
    BY <1>2, <1>6, GP!TransmitInv, LimitsAreNaturals
  <2>2. /\ n # e[1] /\ triggerChan' = triggerChan /\ dropped' = dropped
        /\ \/ net' = [net EXCEPT ![e] = [net[e] EXCEPT ![n] = net[e][n] + 1]]
           \/ net' = net
    BY <1>6 DEF GP!Transmit
  <2>3. ASSUME NEW x \in Events PROVE net'[x][x[1]] = 0
    <3>1. /\ net[x][x[1]] = 0 /\ net \in [Events -> [Nodes -> 0..TransmitLimit]]
          /\ x[1] \in Nodes
      BY <1>2, EventParts DEF KnownInv, GP!GossipOK
    <3>2. CASE net' = [net EXCEPT ![e] = [net[e] EXCEPT ![n] = net[e][n] + 1]]
      BY <2>2, <3>1, <3>2
    <3>3. CASE net' = net
      BY <3>1, <3>3
    <3> QED
      BY <2>2, <3>2, <3>3
  <2>4. OrderInv'
    BY <1>1, <1>2, <2>2 DEF OrderInv, OrderAt
  <2>5. \A m \in Nodes, x \in Events : GP!Queued(m, x)' <=> GP!Queued(m, x)
    BY <2>2 DEF GP!Queued
  <2> QED
    BY <1>4, <2>1, <2>2, <2>3, <2>4, <2>5
<1> QED
  BY <1>5, <1>6, SameGossip DEF Network

\* A node follows the first event of its channel.  If it is one of its own, it
\* is younger than those it has followed before.
LEMMA ProcessStep ==
    ASSUME Inv, NEW n \in Nodes, ProcessTrigger(n)
    PROVE  Inv'
<1>1. /\ GP!Take(n)
      /\ UNCHANGED <<over, changes, highLoadActive, sent>>
  BY SameGossip DEF ProcessTrigger, loadVars, monitorVars
<1>2. /\ TypeOK /\ SentInv /\ KnownInv /\ LevelInv /\ OrderInv /\ LatestInv
      /\ GP!GossipInv /\ GP!GossipOK
  BY InvGossip DEF Inv
<1>3. PICK e \in Events : e = Head(triggerChan[n]) /\ GP!Queued(n, e)
  BY <1>1, <1>2, GP!TakeQueues
<1>4. /\ level' = [level EXCEPT ![n] = LevelFor(sent[e[1]][e[2]])]
      /\ processed' = [processed EXCEPT ![n] = processed[n] \cup {e}]
      /\ last' = [last EXCEPT ![n] = e]
  BY <1>3 DEF ProcessTrigger
<1>5. /\ GP!GossipInv' /\ \A x \in Events : GP!Silent(x) => GP!Silent(x)'
      /\ net' = net /\ dropped' = dropped
  BY <1>1, <1>2, GP!TakeInv, LimitsAreNaturals DEF GP!Take
<1>6. \A m \in Nodes, x \in Events :
        /\ GP!Queued(m, x)' => GP!Queued(m, x)
        /\ GP!Queued(m, x) => GP!Queued(m, x)' \/ (m = n /\ x = e)
  BY <1>1, <1>2, <1>3, GP!TakeQueues
<1>7. Known(e) /\ e # <<>> /\ e[1] \in Nodes /\ e[2] \in 1..MaxChanges
  BY <1>2, <1>3, EventParts DEF KnownInv
<1>8. \A x : Known(x)' <=> Known(x)
  BY <1>1 DEF Known
<1>9. TypeOK'
  <2>1. G!GossipOK'
    BY <1>5, SameGossip DEF GP!GossipInv
  <2>2. LevelFor(sent[e[1]][e[2]]) \in {"fine", "coarse"}
    BY DEF LevelFor
  <2> QED
    BY <1>1, <1>2, <1>4, <2>1, <2>2 DEF TypeOK
<1>10. SentInv'
  BY <1>1, <1>2 DEF SentInv
<1>11. KnownInv'
  BY <1>2, <1>4, <1>5, <1>6, <1>7, <1>8 DEF KnownInv, TypeOK
<1>12. LevelInv'
  BY <1>1, <1>2, <1>4, <1>7 DEF LevelInv, TypeOK
<1>13. OrderInv'
  <2> DEFINE c == triggerChan[n]
  <2>1. c \in Seq(Events) /\ c # <<>> /\ triggerChan'[n] = Tail(c)
    BY <1>1, <1>2 DEF GP!GossipOK, GP!Take
  <2>2. /\ Len(c) \in Nat /\ DOMAIN c = 1..Len(c) /\ 1 \in DOMAIN c
        /\ e = c[1] /\ DOMAIN triggerChan'[n] = 1..(Len(c) - 1)
        /\ \A i \in 1..(Len(c) - 1) : triggerChan'[n][i] = c[i + 1]
    BY <1>3, <2>1, GP!Shortened
  <2>3. ASSUME NEW m \in Nodes, m # n PROVE OrderAt(m)'
    <3>1. triggerChan'[m] = triggerChan[m] /\ processed'[m] = processed[m]
      BY <1>1, <1>2, <1>4, <2>3 DEF GP!Take, GP!GossipOK, TypeOK
    <3> QED
      BY <1>2, <3>1 DEF OrderInv, OrderAt
  <2>4. OrderAt(n)'
    <3> HIDE DEF c
    <3>1. /\ \A i, j \in 1..Len(c) : i < j /\ c[i][1] = n /\ c[j][1] = n =>
                                       c[i][2] < c[j][2]
          /\ \A x \in processed[n] : \A j \in 1..Len(c) :
               x[1] = n /\ c[j][1] = n => x[2] < c[j][2]
      BY <1>2, <2>2 DEF OrderInv, OrderAt, c
    <3>2. processed'[n] = processed[n] \cup {e}
      BY <1>2, <1>4 DEF TypeOK
    <3>3. \A i, j \in 1..(Len(c) - 1) :
            i < j /\ c[i + 1][1] = n /\ c[j + 1][1] = n =>
              c[i + 1][2] < c[j + 1][2]
      BY <2>2, <3>1
    <3>4. \A x \in processed'[n] : \A j \in 1..(Len(c) - 1) :
            x[1] = n /\ c[j + 1][1] = n => x[2] < c[j + 1][2]
      BY <2>2, <3>1, <3>2
    <3>5. \A i, j \in 1..(Len(c) - 1) :
            i < j /\ triggerChan'[n][i][1] = n /\ triggerChan'[n][j][1] = n =>
              triggerChan'[n][i][2] < triggerChan'[n][j][2]
      BY <2>2, <3>3
    <3>6. \A x \in processed'[n] : \A j \in 1..(Len(c) - 1) :
            x[1] = n /\ triggerChan'[n][j][1] = n =>
              x[2] < triggerChan'[n][j][2]
      BY <2>2, <3>4
    <3> QED
      BY <2>2, <3>5, <3>6 DEF OrderAt
  <2> QED
    BY <2>3, <2>4 DEF OrderInv
<1>14. LatestInv'
  <2> SUFFICES ASSUME NEW m \in Nodes, sent[m] # <<>> PROVE LatestAt(m)'
    BY <1>1 DEF LatestInv
  <2>1. PICK l \in Events : l = Latest(m)
    BY <1>2, LatestIsEvent
  <2>2. Latest(m)' = l
    BY <1>1, <2>1 DEF Latest
  <2>3. LatestAt(m)
    BY <1>2 DEF LatestInv
  <2>4. CASE m # n
    BY <1>2, <1>4, <1>5, <1>6, <2>1, <2>2, <2>3, <2>4 DEF LatestAt, TypeOK
  <2>5. CASE m = n
    <3>1. last'[n] = e /\ processed'[n] = processed[n] \cup {e}
      BY <1>2, <1>4 DEF TypeOK
    <3>2. CASE e = l
      BY <2>2, <2>5, <3>1, <3>2 DEF LatestAt
    <3>3. CASE e # l /\ GP!Queued(n, l)
      BY <1>6, <2>2, <2>5, <3>3 DEF LatestAt
    <3>4. CASE l \in processed[n]
      <4>1. e[1] = n => l[2] < e[2]
        BY <1>2, <1>3, <2>1, <2>5, <3>4
           DEF OrderInv, OrderAt, GP!Queued, Latest
      <4>2. e[1] = n => e[2] <= l[2]
        BY <1>7, <2>1, <2>5 DEF Known, Latest
      <4>3. l[2] \in 1..MaxChanges
        BY EventParts
      <4>4. e[1] # n
        BY <1>7, <4>1, <4>2, <4>3
      <4> QED
        BY <1>7, <2>2, <2>5, <3>1, <3>4, <4>4 DEF LatestAt
    <3>5. CASE l \in dropped[n]
      BY <1>5, <2>2, <2>5, <3>5 DEF LatestAt
    <3> QED
      BY <2>1, <2>3, <2>5, <3>2, <3>3, <3>4, <3>5 DEF LatestAt
  <2> QED
    BY <2>4, <2>5
<1> QED
  BY <1>5, <1>9, <1>10, <1>11, <1>12, <1>13, <1>14 DEF Inv, GP!GossipInv

-----------------------------------------------------------------------------

\* The invariant is inductive.
LEMMA InvInductive == (Init => Inv) /\ (Inv /\ [Next]_vars => Inv')
<1>1. ASSUME Inv, UNCHANGED vars PROVE Inv'
  <2>1. /\ UNCHANGED <<over, changes, highLoadActive, sent, queue, net,
                       triggerChan, dropped, level, processed, last>>
    BY <1>1 DEF vars, loadVars, monitorVars, gossipVars, levelVars
  <2>2. TypeOK' /\ GP!Budget'
    BY <1>1, <2>1 DEF Inv, TypeOK, G!GossipOK, GP!Budget
  <2>3. SentInv' /\ LevelInv'
    BY <1>1, <2>1 DEF Inv, SentInv, LevelInv
  <2>4. KnownInv'
    BY <1>1, <2>1 DEF Inv, KnownInv, Known, GP!Silent, GP!Queued
  <2>5. OrderInv' /\ LatestInv'
    BY <1>1, <2>1 DEF Inv, OrderInv, OrderAt, LatestInv, LatestAt, Latest,
                      GP!Queued
  <2> QED
    BY <2>2, <2>3, <2>4, <2>5 DEF Inv
<1> QED
  BY <1>1, InvInit, LoadChangeStep, MonitorStep, NetworkStep, ProcessStep
     DEF Next, Monitors, Loop

\* The channels and the broadcasts stay within their limits, and a node sends no
\* more events than its load has changes.
THEOREM TypeCorrect == Spec => []TypeOK
<1>1. Inv => TypeOK
  BY DEF Inv
<1> QED
  BY <1>1, InvInductive, PTL DEF Spec

\* A quiet node has the level of its own load, unless it followed another node
\* last or had to drop its own latest event.
THEOREM OwnLoad == Spec => []LevelFollowsOwnLoad
<1>1. ASSUME Inv, NEW n \in Nodes, Quiet(n),
             ~(last[n] # <<>> /\ last[n][1] # n), Latest(n) \notin dropped[n]
      PROVE  level[n] = LevelFor(over[n])
  <2>1. TypeOK /\ SentInv /\ KnownInv /\ LevelInv /\ LatestInv
    BY <1>1 DEF Inv
  <2>2. highLoadActive[n] = over[n] /\ triggerChan[n] = <<>>
    BY <1>1 DEF Quiet
  <2>3. CASE sent[n] = <<>>
    <3>1. last[n] = <<>>
      <4> SUFFICES ASSUME last[n] # <<>> PROVE FALSE
        OBVIOUS
      <4>1. last[n] \in Events /\ Known(last[n])
        BY <2>1 DEF TypeOK, KnownInv
      <4>2. last[n][1] = n /\ last[n][2] \in 1..MaxChanges
        BY <1>1, <4>1, EventParts
      <4> QED
        BY <2>3, <4>1, <4>2 DEF Known
    <3>2. level[n] = "fine" /\ over[n] = FALSE
      BY <2>1, <2>2, <2>3, <3>1 DEF LevelInv, SentInv
    <3> QED
      BY <3>2 DEF LevelFor
  <2>4. CASE sent[n] # <<>>
    <3>1. LatestAt(n) /\ ~GP!Queued(n, Latest(n))
      BY <2>1, <2>2, <2>4 DEF LatestInv, GP!Queued
    <3>2. last[n] = Latest(n)
      BY <1>1, <3>1 DEF LatestAt
    <3>3. last[n] # <<>> /\ last[n][1] = n /\ last[n][2] = Len(sent[n])
      BY <2>1, <2>4, <3>2, LatestIsEvent, EventParts DEF Latest
    <3> QED
      BY <2>1, <2>2, <2>4, <3>3 DEF LevelInv, SentInv
  <2> QED
    BY <2>3, <2>4
<1>2. Inv => LevelFollowsOwnLoad
  BY <1>1 DEF LevelFollowsOwnLoad
<1> QED
  BY <1>2, InvInductive, PTL DEF Spec

\* A node follows outdated news only if the newer event was dropped, or comes
\* from another node; its own events it never follows out of order.
THEOREM OldNews == Spec => []OldNewsAccounted
<1>1. ASSUME Inv, NEW n \in Nodes, last[n] # <<>>, triggerChan[n] = <<>>,
             Latest(last[n][1]) \notin dropped[n],
             ~(n # last[n][1] /\ last[n] # Latest(last[n][1]))
      PROVE  level[n] = LevelFor(highLoadActive[last[n][1]])
  <2>1. TypeOK /\ SentInv /\ KnownInv /\ LevelInv /\ LatestInv
    BY <1>1 DEF Inv
  <2>2. last[n] \in Events /\ Known(last[n])
    BY <1>1, <2>1 DEF TypeOK, KnownInv
  <2>3. PICK m \in Nodes : m = last[n][1]
    BY <2>2, EventParts
  <2>4. sent[m] # <<>>
    BY <2>2, <2>3, EventParts DEF Known
  <2>5. last[n] = Latest(m)
    <3>1. CASE n = m
      <4>1. LatestAt(n) /\ ~GP!Queued(n, Latest(n))
        BY <1>1, <2>1, <2>4, <3>1 DEF LatestInv, GP!Queued
      <4> QED
        BY <1>1, <2>3, <3>1, <4>1 DEF LatestAt
    <3>2. CASE n # m
      BY <1>1, <2>3, <3>2
    <3> QED
      BY <3>1, <3>2
  <2>6. last[n][2] = Len(sent[m])
    BY <2>5 DEF Latest
  <2> QED
    BY <1>1, <2>1, <2>3, <2>4, <2>6 DEF LevelInv, SentInv
<1>2. Inv => OldNewsAccounted
  BY <1>1 DEF OldNewsAccounted
<1> QED
  BY <1>2, InvInductive, PTL DEF Spec
=============================================================================
