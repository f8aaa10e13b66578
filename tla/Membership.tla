----------------------------- MODULE Membership -----------------------------
(***************************************************************************)
(* Who knows whom in a cluster: the join loop of internal/gossip/gossip.go *)
(* and the look-up of peers in internal/discovery/discovery.go.  A node    *)
(* broadcasts to the members of its own list only, so what the lists leave *)
(* apart hears nothing of each other's decisions.                          *)
(*                                                                         *)
(* memberlist is external: a contact makes the two lists one, members that *)
(* answer no more are given up, and a member that was given up may, for a  *)
(* while, be sent gossip that brings it back.                              *)
(***************************************************************************)
EXTENDS Naturals, FiniteSets

CONSTANTS
    Nodes,
    Peers,      \* per node, its static list, or all its DNS name stands for
    Static,     \* the nodes whose discovery is of type "static"
    SRV, Hosts, \* per node, what look-ups may find; {} for nothing or an error
    MaxFaults   \* bound on stops, crashes and changes of the network

ASSUME PeersAssumption == Peers \in [Nodes -> SUBSET Nodes]
ASSUME LookupsAssumption == /\ SRV \in [Nodes -> SUBSET SUBSET Nodes]
                            /\ Hosts \in [Nodes -> SUBSET SUBSET Nodes]
ASSUME MaxFaultsAssumption == MaxFaults \in Nat

VARIABLES
    up,         \* the nodes that run
    side,       \* one side of a split of the network; {} if it is whole
    view,       \* per node, the members of its list, itself included
    gone,       \* per node, the members its list has given up
    joining,    \* per node, the peers that its Join has still to contact
    faults

listVars == <<view, gone, joining>>
vars == <<up, side, listVars, faults>>

Init ==
    /\ up = {} /\ side = {}
    /\ view = [n \in Nodes |-> {n}]
    /\ gone = [n \in Nodes |-> {}]
    /\ joining = [n \in Nodes |-> {}]
    /\ faults = 0

\* Node p answers node n.
Reaches(n, p) == p \in up /\ (n \in side <=> p \in side)

-----------------------------------------------------------------------------
(* Start and Stop.                                                         *)

\* A new list holds the node itself.
Start(n) ==
    /\ n \notin up
    /\ up' = up \cup {n}
    /\ UNCHANGED <<side, listVars, faults>>

Fault == faults < MaxFaults /\ faults' = faults + 1

\* The process ends; what it knew is gone with it.
End(n, told) ==
    /\ n \in up
    /\ up' = up \ {n}
    /\ view' = [p \in Nodes |-> CASE p = n      -> {n}
                                  [] p \in told -> view[p] \ {n}
                                  [] OTHER      -> view[p]]
    /\ gone' = [p \in Nodes |-> CASE p = n      -> {}
                                  [] p \in told -> gone[p] \cup {n}
                                  [] OTHER      -> gone[p]]
    /\ joining' = [joining EXCEPT ![n] = {}]

\* Leave tells the members, as far as they can be reached within a second.
Stop(n, told) ==
    /\ Fault
    /\ told \subseteq {p \in view[n] \ {n} : Reaches(n, p) /\ n \in view[p]}
    /\ End(n, told)
    /\ UNCHANGED side

Crash(n) ==
    /\ Fault
    /\ End(n, {})
    /\ UNCHANGED side

Split(half) ==
    /\ Fault
    /\ side' = half
    /\ UNCHANGED <<up, listVars>>

Heal ==
    /\ side # {}
    /\ side' = {}
    /\ UNCHANGED <<up, listVars, faults>>

-----------------------------------------------------------------------------
(* The join loop.                                                          *)

\* What GetPeers may answer: the list, or the SRV records, or, when there are
\* none, the addresses of the host.
GetPeers(n) ==
    IF n \in Static THEN {Peers[n]}
    ELSE (SRV[n] \ {{}}) \cup (IF {} \in SRV[n] THEN Hosts[n] ELSE {})

\* A tick that takes a list of one for company.
JoinLoop_Off(n, found) ==
    /\ n \in up /\ joining[n] = {} /\ found \in GetPeers(n)
    /\ Cardinality(view[n]) <= 0
    /\ joining' = [joining EXCEPT ![n] = found]
    /\ UNCHANGED <<up, side, view, gone, faults>>

\* A tick finds the node alone, and tryJoin starts a Join with the peers found.
\* An error of the look-up finds none.
JoinLoop(n, found) ==
    /\ n \in up /\ joining[n] = {} /\ found \in GetPeers(n)
    /\ Cardinality(view[n]) <= 1
    /\ joining' = [joining EXCEPT ![n] = found]
    /\ UNCHANGED <<up, side, view, gone, faults>>

\* What two lists make of each other: news of a death is believed unless the
\* dead can contradict it.
Merged(n, p) ==
    {n, p} \cup {x \in view[n] \cup view[p] :
                   x \in gone[n] \cup gone[p] => Reaches(n, x)}

\* Lists that do not strike who comes back from their dead.
Meet_KeepDead(n, p) ==
    /\ view' = [view EXCEPT ![n] = Merged(n, p), ![p] = Merged(n, p)]
    /\ gone' = [x \in Nodes |->
                  IF x \in {n, p} THEN gone[n] \cup gone[p] ELSE gone[x]]

Meet(n, p) ==
    /\ view' = [view EXCEPT ![n] = Merged(n, p), ![p] = Merged(n, p)]
    /\ gone' = [x \in Nodes |->
                  IF x \in {n, p} THEN (gone[n] \cup gone[p]) \ Merged(n, p)
                                  ELSE gone[x]]

\* Join contacts one of the peers, and goes on to the next whether it answers or
\* not, and whether the node is still alone or not.
Contact(n, p) ==
    /\ n \in up /\ p \in joining[n]
    /\ joining' = [joining EXCEPT ![n] = @ \ {p}]
    /\ IF p # n /\ Reaches(n, p) THEN Meet(n, p) ELSE UNCHANGED <<view, gone>>
    /\ UNCHANGED <<up, side, faults>>

-----------------------------------------------------------------------------
(* memberlist by itself.                                                   *)

PushPull(n, p) ==
    /\ n \in up /\ p \in view[n] \ {n}
    /\ Reaches(n, p) /\ view[n] # view[p]
    /\ Meet(n, p)
    /\ UNCHANGED <<up, side, joining, faults>>

GiveUp(n, p) ==
    /\ n \in up /\ p \in view[n] \ {n}
    /\ ~Reaches(n, p)
    /\ view' = [view EXCEPT ![n] = @ \ {p}]
    /\ gone' = [gone EXCEPT ![n] = @ \cup {p}]
    /\ UNCHANGED <<up, side, joining, faults>>

GossipToTheDead(n, p) ==
    /\ n \in up /\ p \in gone[n]
    /\ Reaches(n, p)
    /\ Meet(n, p)
    /\ UNCHANGED <<up, side, joining, faults>>

-----------------------------------------------------------------------------

Lists == \E n, p \in Nodes : PushPull(n, p) \/ GiveUp(n, p)

Next ==
    \/ \E n \in Nodes : Start(n) \/ Crash(n)
    \/ \E n \in Nodes : \E told \in SUBSET Nodes : Stop(n, told)
    \/ \E half \in SUBSET Nodes \ {{}} : Split(half)
    \/ Heal
    \/ \E n \in Nodes : \E found \in GetPeers(n) : JoinLoop(n, found)
    \/ \E n, p \in Nodes : Contact(n, p) \/ GossipToTheDead(n, p)
    \/ Lists

Spec == Init /\ [][Next]_vars

\* The ticker fires, and a node that looks for peers again and again gets a full
\* answer some time; Join returns; memberlist probes and synchronises.  Nothing
\* is assumed of the network, of starts or of ends.
FairSpec ==
    /\ Spec
    /\ \A n \in Nodes : SF_vars(JoinLoop(n, Peers[n]))
    /\ \A n, p \in Nodes : WF_vars(Contact(n, p))
    /\ \A n, p \in Nodes : WF_vars(PushPull(n, p)) /\ WF_vars(GiveUp(n, p))

-----------------------------------------------------------------------------
(* Properties.                                                             *)

\* The types of the state; a list holds its own node, and no member that it has
\* given up.
TypeOK ==
    /\ up \subseteq Nodes /\ side \subseteq Nodes
    /\ view \in [Nodes -> SUBSET Nodes] /\ gone \in [Nodes -> SUBSET Nodes]
    /\ joining \in [Nodes -> SUBSET Nodes]
    /\ \A n \in Nodes : n \in view[n] /\ view[n] \cap gone[n] = {}
    /\ faults \in 0..MaxFaults

\* Nobody who could have company stays alone: whatever stopped, crashed or was
\* cut off before, in the end the members of every list are alive, reachable
\* and agree on the list, and a list of one belongs to a node whose discovery
\* names no other node that can be reached.  Two lists of several members each
\* may stay apart.
ClusterSettles ==
    <>[](\A n \in up :
           /\ \A p \in view[n] : Reaches(n, p) /\ view[p] = view[n]
           /\ view[n] = {n} =>
                \A p \in Peers[n] \ {n} : ~Reaches(n, p))
=============================================================================
