------------------------------ MODULE Sampling ------------------------------
(***************************************************************************)
(* Tail sampling across the nodes of a cluster: every node buffers its own *)
(* spans of a trace; the node whose batch matches a policy decides         *)
(* (internal/decision/engine.go) and broadcasts the decision               *)
(* (internal/gossip/gossip.go); every node that hears of it exports and    *)
(* forgets its part of the trace (internal/processor/processor.go).        *)
(*                                                                         *)
(* A decision is called by the batch it was taken for, a span by its       *)
(* batch and its place in it.  A handler reads, merges and writes the      *)
(* entries of its traces one by one, and the decision loop exports an      *)
(* entry before it removes it; what happens in between is lost, or comes   *)
(* back, as it is in the code (TraceStore looks at that on one node).      *)
(***************************************************************************)
EXTENDS Decision

CONSTANTS
    Nodes, Batches,
    Workloads,      \* for each batch, the node it is sent to and its spans
    TransmitLimit,  \* transmissions of a broadcast (3 below 10 members)
    DecisionCap     \* capacity of decisionChan (100)

ASSUME LimitsAreNaturals == TransmitLimit \in Nat /\ DecisionCap \in Nat

\* A batch is a sequence of spans, and timestamps are numbers.
ASSUME WorkloadsAssumption ==
    \A w \in Workloads : \A b \in Batches :
      LET spans == w[b].spans IN
      /\ w[b].node \in Nodes
      /\ Len(spans) \in Nat /\ DOMAIN spans = 1..Len(spans)
      /\ \A i \in DOMAIN spans : spans[i].start \in Int /\ spans[i].end \in Int

VARIABLES
    work,           \* the workload; it never changes
    pc,             \* how far Consume has come with each batch
    todo,           \* per batch, its traces that are still to be stored
    merging,        \* per batch, the trace whose entry its handler has read
    copy,           \* per batch, what that entry held
    buffer,         \* per node, the spans in its buffer
    queue, net,     \* broadcasts to be sent, and packets (Gossip)
    decisionChan,   \* per node, the decisions to be processed
    removing,       \* per node, the trace that was exported, if any
    exported,       \* per node, the spans handed to the exporter
    \* history, read by the properties only:
    dropped,        \* per node, the decisions that found decisionChan full
    processed,      \* per node, the decisions it has looked for in its buffer
    already,        \* per span, those looked for before it was put there last
    unmet           \* per span that left the buffer, those not looked for then

storeVars == <<todo, merging, copy>>
inVars == <<work, pc, storeVars>>
gossipVars == <<queue, net, decisionChan, dropped>>
loopVars == <<removing, exported, processed>>
vars == <<inVars, buffer, gossipVars, loopVars, already, unmet>>

G == INSTANCE Gossip WITH Messages <- Batches, chan <- decisionChan,
                          Cap <- DecisionCap

Batch(b)  == work[b].spans
Origin(b) == work[b].node

\* Spans without a trace id are not stored.
SpansOf(b) == {<<b, i>> : i \in {j \in DOMAIN Batch(b) :
                                   Batch(b)[j].trace # NoTrace}}
AllSpans   == UNION {SpansOf(b) : b \in Batches}
TraceOf(s) == Batch(s[1])[s[2]].trace
NodeOf(s)  == Origin(s[1])

TracesOf(S)  == {TraceOf(s) : s \in S}
Within(S, t) == {s \in S : TraceOf(s) = t}

Decides(b) == EvaluateTrace(Batch(b))
Part(n, t) == Within(buffer[n], t)

Init ==
    /\ work \in Workloads
    /\ pc = [b \in Batches |-> "new"]
    /\ todo = [b \in Batches |-> TracesOf(SpansOf(b))]
    /\ merging = [b \in Batches |-> NoTrace]
    /\ copy = [b \in Batches |-> {}]
    /\ buffer = [n \in Nodes |-> {}]
    /\ G!GossipInit
    /\ removing = [n \in Nodes |-> NoTrace]
    /\ exported = [n \in Nodes |-> {}]
    /\ processed = [n \in Nodes |-> {}]
    /\ already = [s \in AllSpans |-> {}]
    /\ unmet = <<>>

-----------------------------------------------------------------------------
(* Consume, on the node that received the batch.                           *)

\* The spans of lost leave the buffer of n.
Leave(n, lost) ==
    unmet' = [s \in DOMAIN unmet \cup lost |->
                IF s \in lost THEN Batches \ processed[n] ELSE unmet[s]]

\* storeTraces, for one trace of the batch after the other: cache.Get ...
StoreGet(b, t) ==
    /\ t \in todo[b] /\ merging[b] = NoTrace
    /\ merging' = [merging EXCEPT ![b] = t]
    /\ copy' = [copy EXCEPT ![b] = Part(Origin(b), t)]
    /\ UNCHANGED <<work, pc, todo, buffer, gossipVars, loopVars, already,
                   unmet>>

\* ... and cache.Set, which overwrites what others have stored since.  (An entry
\* that the cache refuses as too big is like one that it evicts at once.)
StoreSet(b) ==
    LET n     == Origin(b)
        t     == merging[b]
        entry == copy[b] \cup Within(SpansOf(b), t)
    IN
    /\ t # NoTrace
    /\ todo' = [todo EXCEPT ![b] = @ \ {t}]
    /\ merging' = [merging EXCEPT ![b] = NoTrace]
    /\ copy' = [copy EXCEPT ![b] = {}]
    /\ buffer' = [buffer EXCEPT ![n] = (@ \ Part(n, t)) \cup entry]
    /\ already' = [s \in AllSpans |-> IF s \in entry \ buffer[n]
                                        THEN processed[n] ELSE already[s]]
    /\ Leave(n, Part(n, t) \ entry)
    /\ UNCHANGED <<work, pc, gossipVars, loopVars>>

BroadcastDecision(b) == G!Broadcast(Origin(b), b)

Evaluate(b) ==
    /\ pc[b] = "new" /\ todo[b] = {}
    /\ pc' = [pc EXCEPT ![b] = "done"]
    /\ IF Decides(b) = NoDecision
         THEN UNCHANGED gossipVars
         ELSE BroadcastDecision(b)
    /\ UNCHANGED <<work, storeVars, buffer, loopVars, already, unmet>>

Network ==
    /\ \E b \in Batches, n \in Nodes :
         \/ G!NotifyMsg(n, b)
         \/ \E arrives \in BOOLEAN : G!Transmit(Origin(b), b, n, arrives)
    /\ UNCHANGED <<inVars, buffer, loopVars, already, unmet>>

-----------------------------------------------------------------------------
(* The decision loop of each node, and what its cache removes by itself.   *)

\* GetTrace and ExportTrace.  Nothing is remembered of the decision.
ProcessDecision(n) ==
    /\ removing[n] = NoTrace
    /\ G!Take(n)
    /\ LET b == Head(decisionChan[n])
           t == Decides(b).trace
       IN /\ exported' = [exported EXCEPT ![n] = @ \cup Part(n, t)]
          /\ removing' = [removing EXCEPT ![n] = IF Part(n, t) = {}
                                                  THEN NoTrace ELSE t]
          /\ processed' = [processed EXCEPT ![n] = @ \cup {b}]
    /\ UNCHANGED <<inVars, buffer, already, unmet>>

\* RemoveTrace takes the whole entry, and what was stored since GetTrace.
RemoveTrace(n) ==
    /\ removing[n] # NoTrace
    /\ removing' = [removing EXCEPT ![n] = NoTrace]
    /\ buffer' = [buffer EXCEPT ![n] = @ \ Part(n, removing[n])]
    /\ Leave(n, Part(n, removing[n]))
    /\ UNCHANGED <<inVars, gossipVars, exported, processed, already>>

\* The entry of trace t expires, or its space is needed.
Evict(n, t) ==
    /\ Part(n, t) # {}
    /\ buffer' = [buffer EXCEPT ![n] = @ \ Part(n, t)]
    /\ Leave(n, Part(n, t))
    /\ UNCHANGED <<inVars, gossipVars, loopVars, already>>

-----------------------------------------------------------------------------

Traces == TracesOf(AllSpans)

Handler == \E b \in Batches : \/ \E t \in Traces : StoreGet(b, t)
                              \/ StoreSet(b) \/ Evaluate(b)

Loop == \E n \in Nodes : ProcessDecision(n) \/ RemoveTrace(n)

Next == Handler \/ Network \/ Loop \/ \E n \in Nodes, t \in Traces : Evict(n, t)

Spec == Init /\ [][Next]_vars

\* Handlers return, memberlist sends what is queued and hands packets over, and
\* the decision loops run.  Packets may still all be lost.  (A loop runs as
\* long as no range read and no eviction of its node block each other, which
\* they can, as BufferLocks shows: then the node stands still.)
FairSpec ==
    Spec /\ WF_vars(Handler) /\ WF_vars(Network) /\ WF_vars(Loop)

-----------------------------------------------------------------------------
(* Properties.                                                             *)

\* The types of the state; decisionChan and the broadcasts stay within their
\* limits.
TypeOK ==
    /\ work \in Workloads
    /\ pc \in [Batches -> {"new", "done"}]
    /\ todo \in [Batches -> SUBSET Traces]
    /\ merging \in [Batches -> Traces \cup {NoTrace}]
    /\ copy \in [Batches -> SUBSET AllSpans]
    /\ buffer \in [Nodes -> SUBSET AllSpans]
    /\ removing \in [Nodes -> Traces \cup {NoTrace}]
    /\ exported \in [Nodes -> SUBSET AllSpans]
    /\ G!GossipOK
    /\ processed \in [Nodes -> SUBSET Batches]
    /\ already \in [AllSpans -> SUBSET Batches]
    /\ DOMAIN unmet \subseteq AllSpans

Taken(d) == pc[d] = "done" /\ Decides(d) # NoDecision

SpanMatches(s) == Matching(<<Batch(s[1])[s[2]]>>) # {}

\* A span of another trace stands before s in its batch, so that a decision for
\* the batch names that trace.
Shadowed(s) ==
    \E r \in SpansOf(s[1]) : r[2] < s[2] /\ TraceOf(r) # TraceOf(s)

\* Why decision d did not export span s, which has left the buffer: s was put
\* there after d was processed, or had gone before, because d was late, or was
\* dropped by a full channel, or was taken on another node and has not been
\* heard of here.
Missed(s, d) ==
    LET n == NodeOf(s) IN
    \/ d \in already[s]
    \/ /\ d \in unmet[s]
       /\ d \in processed[n] \cup dropped[n] \/ G!Queued(n, d) \/ n # Origin(d)

\* A span that leaves the buffer unexported (it is evicted, removed with its
\* trace after the export, or overwritten by another handler), although a span
\* of its trace matched a policy somewhere in the cluster, has one of the
\* excuses above for the decision of that match, or the match was credited to
\* another trace of its batch.
InterestingDropAccounted ==
    \A s \in DOMAIN unmet, m \in AllSpans :
      /\ s \notin exported[NodeOf(s)]
      /\ pc[m[1]] = "done" /\ SpanMatches(m) /\ TraceOf(m) = TraceOf(s)
      => Shadowed(m) \/ (Taken(m[1]) /\ Missed(s, m[1]))

\* An exported span is of a trace that matched, or that led the batch in which
\* another one matched; and the window of the decision covers the match.
ExportIsJustified ==
    \A n \in Nodes : \A s \in exported[n] :
      \E d \in processed[n] : \E i \in DOMAIN Batch(d) :
        /\ SpanMatches(<<d, i>>)
        /\ Decides(d).trace = TraceOf(s)
        /\ TraceOf(<<d, i>>) \in {TraceOf(s), NoTrace} \/ Shadowed(<<d, i>>)
        /\ Decides(d).start <= Batch(d)[i].start
        /\ Decides(d).end >= Batch(d)[i].end

\* Every decision comes to rest: the deciding node processes it, unless its
\* channel was full, and every other node does so too, unless all transmissions
\* are spent and none is under way to it.
DecisionsComeToRest ==
    <>[](\A d \in Batches, n \in Nodes :
           Taken(d) => \/ d \in processed[n] \cup dropped[n]
                       \/ n # Origin(d) /\ ~G!UnderWay(n, d))

\* All handlers have returned, nothing is under way and no loop has work.
Quiet ==
    /\ \A b \in Batches : pc[b] = "done"
    /\ \A n \in Nodes : removing[n] = NoTrace /\ decisionChan[n] = <<>>
    /\ \A n \in Nodes, d \in Batches : ~G!UnderWay(n, d)

\* docs/architecture/overview.md: sample if any span in a trace exceeds a
\* threshold; all nodes in the cluster receive the decision.  So when everything
\* is quiet, a node that still holds spans of a trace that matched somewhere has
\* at least processed a decision for that trace.
MatchReachesAllNodes ==
    Quiet => \A n \in Nodes : \A s \in buffer[n], m \in AllSpans :
               SpanMatches(m) /\ TraceOf(m) = TraceOf(s) =>
                 \E d \in processed[n] : Decides(d).trace = TraceOf(s)
=============================================================================
