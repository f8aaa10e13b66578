----------------------------- MODULE LoadControl -----------------------------
(***************************************************************************)
(* The rollup level of each node.  A monitor in cmd/server/main.go watches *)
(* the fill of its node's buffer and broadcasts a high_load event when it  *)
(* crosses the threshold, in either direction (internal/gossip/gossip.go); *)
(* every node that hears of the event sets its own level by it             *)
(* (internal/processor/processor.go, internal/rollup/rollup.go).           *)
(*                                                                         *)
(* An event is <<n, k>>, the k-th that node n has sent.  Its value and     *)
(* threshold are those of its sender, and matter by their order only.      *)
(***************************************************************************)
EXTENDS Naturals, Sequences

CONSTANTS
    Nodes,
    TransmitLimit,  \* transmissions of a broadcast (3 below 10 members)
    TriggerCap,     \* capacity of triggerChan (100)
    MaxChanges      \* bound on the changes of load, of all nodes

ASSUME LimitsAreNaturals ==
    TransmitLimit \in Nat /\ TriggerCap \in Nat /\ MaxChanges \in Nat

Events == Nodes \X (1..MaxChanges)

VARIABLES
    over,           \* per node, whether its buffer is fuller than the threshold
    changes,        \* how often that has changed, on all nodes
    highLoadActive, \* the monitor's local variable
    sent,           \* per node, its events: whether Value > Threshold
    queue, net,     \* broadcasts to be sent, and packets (Gossip)
    triggerChan,    \* per node, the events to be processed
    level,          \* currentLevel
    \* history, read by the properties only:
    dropped,        \* per node, the events that found triggerChan full
    processed,      \* per node, the events it has processed
    last            \* per node, the event processed last; <<>> if none

loadVars == <<over, changes>>
monitorVars == <<highLoadActive, sent>>
gossipVars == <<queue, net, triggerChan, dropped>>
levelVars == <<level, processed, last>>
vars == <<loadVars, monitorVars, gossipVars, levelVars>>

G == INSTANCE Gossip WITH Messages <- Events, chan <- triggerChan,
                          Cap <- TriggerCap

Init ==
    /\ over = [n \in Nodes |-> FALSE] /\ changes = 0
    /\ highLoadActive = [n \in Nodes |-> FALSE]
    /\ sent = [n \in Nodes |-> <<>>]
    /\ G!GossipInit
    /\ level = [n \in Nodes |-> "fine"]
    /\ processed = [n \in Nodes |-> {}]
    /\ last = [n \in Nodes |-> <<>>]

\* Signals arrive, or leave the buffer.
LoadChange(n) ==
    /\ changes < MaxChanges
    /\ changes' = changes + 1
    /\ over' = [over EXCEPT ![n] = ~@]
    /\ UNCHANGED <<monitorVars, gossipVars, levelVars>>

-----------------------------------------------------------------------------
(* The load monitor.                                                       *)

BroadcastTrigger(n, event) == G!Broadcast(n, event)

\* A monitor that reports a high load only.
Monitor_RisingOnly(n) ==
    /\ over[n] # highLoadActive[n]
    /\ highLoadActive' = [highLoadActive EXCEPT ![n] = over[n]]
    /\ IF over[n]
         THEN /\ sent' = [sent EXCEPT ![n] = Append(@, TRUE)]
              /\ BroadcastTrigger(n, <<n, Len(sent[n]) + 1>>)
         ELSE UNCHANGED <<sent, gossipVars>>
    /\ UNCHANGED <<loadVars, levelVars>>

\* One tick that finds the load on the other side of the threshold.
Monitor(n) ==
    /\ over[n] # highLoadActive[n]
    /\ highLoadActive' = [highLoadActive EXCEPT ![n] = over[n]]
    /\ sent' = [sent EXCEPT ![n] = Append(@, over[n])]
    /\ BroadcastTrigger(n, <<n, Len(sent[n]) + 1>>)
    /\ UNCHANGED <<loadVars, levelVars>>

Network ==
    /\ \E e \in Events, n \in Nodes :
         \/ G!NotifyMsg(n, e)
         \/ \E arrives \in BOOLEAN : G!Transmit(e[1], e, n, arrives)
    /\ UNCHANGED <<loadVars, monitorVars, levelVars>>

-----------------------------------------------------------------------------
(* The trigger loop.                                                       *)

LevelFor(high) == IF high THEN "coarse" ELSE "fine"

\* A loop that takes high_load events for news of a high load.
ProcessTrigger_AlwaysCoarse(n) ==
    /\ G!Take(n)
    /\ LET e == Head(triggerChan[n]) IN
        /\ level' = [level EXCEPT ![n] = LevelFor(TRUE)]
        /\ processed' = [processed EXCEPT ![n] = @ \cup {e}]
        /\ last' = [last EXCEPT ![n] = e]
    /\ UNCHANGED <<loadVars, monitorVars>>

\* Neither the sender of the event nor its age is looked at.
ProcessTrigger(n) ==
    /\ G!Take(n)
    /\ LET e == Head(triggerChan[n]) IN
        /\ level' = [level EXCEPT ![n] = LevelFor(sent[e[1]][e[2]])]
        /\ processed' = [processed EXCEPT ![n] = @ \cup {e}]
        /\ last' = [last EXCEPT ![n] = e]
    /\ UNCHANGED <<loadVars, monitorVars>>

-----------------------------------------------------------------------------

Monitors == \E n \in Nodes : Monitor(n)
Loop == \E n \in Nodes : ProcessTrigger(n)

Next == Monitors \/ Network \/ Loop \/ \E n \in Nodes : LoadChange(n)

Spec == Init /\ [][Next]_vars

\* Tickers fire, memberlist sends what is queued and hands packets over, and the
\* trigger loops run.  Nothing is assumed of the load.
FairSpec == Spec /\ WF_vars(Monitors) /\ WF_vars(Network) /\ WF_vars(Loop)

-----------------------------------------------------------------------------
(* Properties.                                                             *)

\* The types of the state; triggerChan and the broadcasts stay within their
\* limits, and a node sends no more events than its load has changes.
TypeOK ==
    /\ over \in [Nodes -> BOOLEAN] /\ highLoadActive \in [Nodes -> BOOLEAN]
    /\ changes \in 0..MaxChanges
    /\ sent \in [Nodes -> Seq(BOOLEAN)]
    /\ \A n \in Nodes : Len(sent[n]) <= changes
    /\ G!GossipOK
    /\ level \in [Nodes -> {"fine", "coarse"}]
    /\ processed \in [Nodes -> SUBSET Events]
    /\ last \in [Nodes -> Events \cup {<<>>}]
    /\ \A n \in Nodes : last[n] \in processed[n] \cup {<<>>}

Latest(n) == <<n, Len(sent[n])>>

\* The monitor has reported n's load, and no event waits for n's trigger loop.
Quiet(n) == over[n] = highLoadActive[n] /\ triggerChan[n] = <<>>

\* A quiet node has the level of its own load, unless the event it followed last
\* is another node's, or its own latest event was dropped by the full channel.
LevelFollowsOwnLoad ==
    \A n \in Nodes :
      Quiet(n) => \/ level[n] = LevelFor(over[n])
                  \/ last[n] # <<>> /\ last[n][1] # n
                  \/ Latest(n) \in dropped[n]

\* A node follows outdated news of another node, or of itself, only if the newer
\* event was dropped here, or, between two nodes, is still under way, was never
\* heard of or came first.  A node's own events are never followed out of order.
OldNewsAccounted ==
    \A n \in Nodes :
      last[n] # <<>> /\ triggerChan[n] = <<>> =>
        LET m == last[n][1] IN
        \/ level[n] = LevelFor(highLoadActive[m])
        \/ Latest(m) \in dropped[n]
        \/ n # m /\ last[n] # Latest(m)

\* When the loads have settled, so have the levels, and every node has followed
\* its own latest event, or dropped it.
LevelsSettle ==
    <>[](\A n \in Nodes :
           /\ Quiet(n) /\ \A e \in Events : ~G!UnderWay(n, e) \/ e[1] = n
           /\ sent[n] # <<>> => Latest(n) \in processed[n] \cup dropped[n])
=============================================================================
