--------------------------- MODULE SamplingProofs ---------------------------
(***************************************************************************)
(* Proofs about Sampling, for any set of nodes, any batches and policies,  *)
(* any channel capacity and any number of transmissions: which spans a     *)
(* decision exports, and why a span that should have been exported is not. *)
(***************************************************************************)
EXTENDS Sampling, WellFoundedInduction, TLAPS

GP == INSTANCE GossipProofs WITH Messages <- Batches, chan <- decisionChan,
                                 Cap <- DecisionCap

\* The operators of Gossip and those the lemmas about it speak of are the same.
LEMMA SameGossip ==
    /\ (G!GossipOK <=> GP!GossipOK) /\ (G!GossipOK' <=> GP!GossipOK')
    /\ G!GossipInit <=> GP!GossipInit
    /\ \A n, b : G!Broadcast(n, b) <=> GP!Broadcast(n, b)
    /\ \A n, b : G!NotifyMsg(n, b) <=> GP!NotifyMsg(n, b)
    /\ \A o, b, n, a : G!Transmit(o, b, n, a) <=> GP!Transmit(o, b, n, a)
    /\ \A n : G!Take(n) <=> GP!Take(n)
    /\ \A n, b : G!Queued(n, b) <=> GP!Queued(n, b)
BY DEF G!GossipOK, GP!GossipOK, G!GossipInit, GP!GossipInit, G!Broadcast,
       GP!Broadcast, G!NotifyMsg, GP!NotifyMsg, G!Transmit, GP!Transmit, G!Take,
       GP!Take, G!Deliver, GP!Deliver, G!Queued, GP!Queued

-----------------------------------------------------------------------------
(* The decision engine.                                                    *)

\* A set of naturals that is not empty has a least element.
LEMMA LeastNatural ==
    ASSUME NEW S \in SUBSET Nat, S # {}
    PROVE  \E x \in S : \A y \in S : x <= y
<1>1. PICK x \in S : \A y \in S : <<y, x>> \notin OpToRel(<, Nat)
  BY NatLessThanWellFounded, WFMin
<1>2. \A y \in S : ~(y < x)
  BY <1>1 DEF OpToRel
<1> QED
  BY <1>2

\* So has a set of integers with a lower bound.
LEMMA LeastInteger ==
    ASSUME NEW S \in SUBSET Int, S # {}, NEW low \in Int,
           \A x \in S : low <= x
    PROVE  Min(S) \in S /\ \A x \in S : Min(S) <= x
<1> DEFINE T == {x - low : x \in S}
<1>1. T \in SUBSET Nat /\ T # {}
  OBVIOUS
<1>2. PICK t \in T : \A y \in T : t <= y
  BY <1>1, LeastNatural
<1>3. PICK s \in S : t = s - low
  OBVIOUS
<1>4. ASSUME NEW x \in S PROVE s <= x
  <2>1. x - low \in T
    OBVIOUS
  <2>2. s - low <= x - low
    BY <1>2, <1>3, <2>1
  <2> HIDE DEF T
  <2> QED
    BY <2>2
<1> HIDE DEF T
<1>5. \E x \in S : \A y \in S : x =< y
  BY <1>4
<1> QED
  BY <1>5 DEF Min

\* And a set of integers with an upper bound has a greatest one.
LEMMA GreatestInteger ==
    ASSUME NEW S \in SUBSET Int, S # {}, NEW high \in Int,
           \A x \in S : x <= high
    PROVE  Max(S) \in S /\ \A x \in S : Max(S) >= x
<1> DEFINE T == {high - x : x \in S}
<1>1. T \in SUBSET Nat /\ T # {}
  OBVIOUS
<1>2. PICK t \in T : \A y \in T : t <= y
  BY <1>1, LeastNatural
<1>3. PICK s \in S : t = high - s
  OBVIOUS
<1>4. ASSUME NEW x \in S PROVE s >= x
  <2>1. high - x \in T
    OBVIOUS
  <2>2. high - s <= high - x
    BY <1>2, <1>3, <2>1
  <2> HIDE DEF T
  <2> QED
    BY <2>2
<1> HIDE DEF T
<1>5. \E x \in S : \A y \in S : x >= y
  BY <1>4
<1> QED
  BY <1>5 DEF Max

\* Finitely many integers lie between two bounds: otherwise there would be a
\* shortest prefix that has none.
LEMMA Bounded ==
    ASSUME NEW k \in Nat, NEW f, \A i \in 1..k : f[i] \in Int
    PROVE  \E low, high \in Int : \A i \in 1..k : low <= f[i] /\ f[i] <= high
<1> DEFINE Between(j, low, high) == \A i \in 1..j : low <= f[i] /\ f[i] <= high
           HasBounds(j) == \E l, h \in Int : Between(j, l, h)
           Unbounded == {j \in 0..k : ~HasBounds(j)}
<1>1. HasBounds(0)
  <2>1. Between(0, 0, 0)
    OBVIOUS
  <2> QED
    BY <2>1
<1>2. ASSUME NEW j \in 1..k, HasBounds(j - 1) PROVE HasBounds(j)
  <2>1. PICK l \in Int, h \in Int : Between(j - 1, l, h)
    BY <1>2
  <2>2. f[j] \in Int
    OBVIOUS
  <2> DEFINE low  == IF l <= f[j] THEN l ELSE f[j]
             high == IF f[j] <= h THEN h ELSE f[j]
  <2>3. /\ low \in Int /\ low <= l /\ low <= f[j]
        /\ high \in Int /\ h <= high /\ f[j] <= high
    BY <2>2
  <2>4. Between(j, low, high)
    <3> HIDE DEF low, high
    <3> SUFFICES ASSUME NEW i \in 1..j PROVE low <= f[i] /\ f[i] <= high
      OBVIOUS
    <3>1. CASE i = j
      BY <2>3, <3>1
    <3>2. CASE i \in 1..(j - 1)
      <4>1. f[i] \in Int /\ l <= f[i] /\ f[i] <= h
        BY <2>1, <3>2
      <4>2. l \in Int /\ h \in Int
        OBVIOUS
      <4> HIDE DEF Between
      <4> QED
        BY <2>3, <4>1, <4>2
    <3> QED
      BY <3>1, <3>2
  <2> HIDE DEF low, high, Between
  <2> QED
    BY <2>3, <2>4
<1> HIDE DEF HasBounds
<1>3. Unbounded = {}
  <2> SUFFICES ASSUME Unbounded # {} PROVE FALSE
    OBVIOUS
  <2>1. Unbounded \in SUBSET Nat
    OBVIOUS
  <2>2. PICK j \in Unbounded : \A y \in Unbounded : j <= y
    BY <2>1, LeastNatural
  <2>3. j \in 1..k /\ ~HasBounds(j)
    BY <1>1
  <2>4. HasBounds(j - 1)
    BY <2>2, <2>3
  <2> QED
    BY <1>2, <2>3, <2>4
<1>4. HasBounds(k)
  BY <1>3
<1> QED
  BY <1>4 DEF HasBounds

IsBatch(batch) ==
    /\ Len(batch) \in Nat /\ DOMAIN batch = 1..Len(batch)
    /\ \A i \in DOMAIN batch : batch[i].start \in Int /\ batch[i].end \in Int

\* A policy matches a batch if it matches one of its spans alone.
LEMMA MatchingSpan ==
    ASSUME NEW batch, NEW policy
    PROVE  Matches(batch, policy) <=>
             \E i \in DOMAIN batch : Matches(<<batch[i]>>, policy)
<1>1. ASSUME NEW x
      PROVE  /\ CheckError(<<x>>) <=> x.error
             /\ CheckLatency(<<x>>, policy) <=>
                  x.end - x.start > policy.threshold
             /\ CheckAttribute(<<x>>, policy) <=>
                  <<policy.key, policy.value>> \in x.attrs
  <2>1. DOMAIN <<x>> = {1} /\ <<x>>[1] = x
    OBVIOUS
  <2> QED
    BY <2>1, Zenon DEF CheckError, CheckLatency, CheckAttribute
<1>2. CheckError(batch) <=> \E i \in DOMAIN batch : CheckError(<<batch[i]>>)
  BY <1>1, Zenon DEF CheckError
<1>3. CheckLatency(batch, policy) <=>
        \E i \in DOMAIN batch : CheckLatency(<<batch[i]>>, policy)
  BY <1>1, Zenon DEF CheckLatency
<1>4. CheckAttribute(batch, policy) <=>
        \E i \in DOMAIN batch : CheckAttribute(<<batch[i]>>, policy)
  BY <1>1, Zenon DEF CheckAttribute
<1> QED
  BY <1>2, <1>3, <1>4, Zenon DEF Matches

\* Some policy matches a batch if, and only if, it matches one of its spans.
LEMMA MatchingSpans ==
    ASSUME NEW batch
    PROVE  Matching(batch) # {} <=>
             \E i \in DOMAIN batch : Matching(<<batch[i]>>) # {}
<1>1. ASSUME NEW p \in Matching(batch)
      PROVE  \E i \in DOMAIN batch : Matching(<<batch[i]>>) # {}
  <2>1. p \in DOMAIN Policies /\ Matches(batch, Policies[p])
    BY <1>1, Zenon DEF Matching
  <2>2. PICK i \in DOMAIN batch : Matches(<<batch[i]>>, Policies[p])
    BY <2>1, MatchingSpan, Zenon
  <2>3. p \in Matching(<<batch[i]>>)
    BY <2>1, <2>2, Zenon DEF Matching
  <2> QED
    BY <2>3, Zenon
<1>2. ASSUME NEW i \in DOMAIN batch, NEW p \in Matching(<<batch[i]>>)
      PROVE  Matching(batch) # {}
  <2>1. p \in DOMAIN Policies /\ Matches(<<batch[i]>>, Policies[p])
    BY <1>2, Zenon DEF Matching
  <2>2. Matches(batch, Policies[p])
    BY <2>1, MatchingSpan, Zenon
  <2>3. p \in Matching(batch)
    BY <2>1, <2>2, Zenon DEF Matching
  <2> QED
    BY <2>3, Zenon
<1> QED
  BY <1>1, <1>2, Zenon

\* A span is named first if all before it are without a trace id.
Leads(batch, k) ==
    /\ k \in DOMAIN batch /\ batch[k].trace # NoTrace
    /\ \A i \in DOMAIN batch : i < k => batch[i].trace = NoTrace

\* A batch that matches, with a trace id somewhere, is decided for the first one
\* in a window around all of its spans.
LEMMA Decided ==
    ASSUME NEW batch, IsBatch(batch), Matching(batch) # {},
           NEW j \in DOMAIN batch, batch[j].trace # NoTrace
    PROVE  \E k : /\ Leads(batch, k)
                  /\ EvaluateTrace(batch).trace = batch[k].trace
                  /\ \A i \in DOMAIN batch :
                       /\ EvaluateTrace(batch).start <= batch[i].start
                       /\ EvaluateTrace(batch).end >= batch[i].end
<1> DEFINE named  == {i \in DOMAIN batch : batch[i].trace # NoTrace}
           starts == {batch[i].start : i \in DOMAIN batch}
           ends   == {batch[i].end : i \in DOMAIN batch}
           reason == Min(Matching(batch))
           first  == Min(named)
<1>1. EvaluateTrace(batch) = [trace  |-> batch[first].trace,
                              reason |-> reason,
                              start  |-> Min(starts),
                              end    |-> Max(ends)]
  <2>1. named # {}
    OBVIOUS
  <2> QED
    BY <2>1 DEF EvaluateTrace, TriggerDecision
<1>2. first \in named /\ \A i \in named : first <= i
  <2>1. named \in SUBSET Int /\ named # {} /\ \A i \in named : 1 <= i
    BY DEF IsBatch
  <2> HIDE DEF named
  <2> QED
    BY <2>1, LeastInteger
<1>3. \A i \in DOMAIN batch : Min(starts) <= batch[i].start
  <2>1. PICK low \in Int, high \in Int :
          \A i \in DOMAIN batch : low <= batch[i].start
    <3> DEFINE f == [i \in DOMAIN batch |-> batch[i].start]
    <3>1. \A i \in 1..Len(batch) : f[i] \in Int
      BY DEF IsBatch
    <3>2. \E l, h \in Int : \A i \in 1..Len(batch) : l <= f[i] /\ f[i] <= h
      <4> HIDE DEF f
      <4> QED
        BY <3>1, Bounded DEF IsBatch
    <3> QED
      BY <3>2 DEF IsBatch
  <2>2. starts \in SUBSET Int /\ starts # {} /\ \A x \in starts : low <= x
    BY <2>1 DEF IsBatch
  <2>3. \A x \in starts : Min(starts) <= x
    <3> HIDE DEF starts
    <3> QED
      BY <2>2, LeastInteger
  <2> QED
    BY <2>3
<1>4. \A i \in DOMAIN batch : Max(ends) >= batch[i].end
  <2>1. PICK low \in Int, high \in Int :
          \A i \in DOMAIN batch : batch[i].end <= high
    <3> DEFINE f == [i \in DOMAIN batch |-> batch[i].end]
    <3>1. \A i \in 1..Len(batch) : f[i] \in Int
      BY DEF IsBatch
    <3>2. \E l, h \in Int : \A i \in 1..Len(batch) : l <= f[i] /\ f[i] <= h
      <4> HIDE DEF f
      <4> QED
        BY <3>1, Bounded DEF IsBatch
    <3> QED
      BY <3>2 DEF IsBatch
  <2>2. ends \in SUBSET Int /\ ends # {} /\ \A x \in ends : x <= high
    BY <2>1 DEF IsBatch
  <2>3. \A x \in ends : Max(ends) >= x
    <3> HIDE DEF ends
    <3> QED
      BY <2>2, GreatestInteger
  <2> QED
    BY <2>3
<1>5. Leads(batch, first)
  <2>1. first \in DOMAIN batch /\ batch[first].trace # NoTrace
    BY <1>2
  <2>2. ASSUME NEW i \in DOMAIN batch, i < first
        PROVE  batch[i].trace = NoTrace
    <3>1. i \in Int /\ first \in Int
      BY <2>1 DEF IsBatch
    <3>2. i \notin named
      <4> HIDE DEF named, first
      <4> QED
        BY <1>2, <2>2, <3>1
    <3> QED
      BY <3>2
  <2> HIDE DEF first
  <2> QED
    BY <2>1, <2>2 DEF Leads
<1> HIDE DEF named, starts, ends, first, reason
<1>6. /\ EvaluateTrace(batch).trace = batch[first].trace
      /\ EvaluateTrace(batch).start = Min(starts)
      /\ EvaluateTrace(batch).end = Max(ends)
  BY <1>1
<1> QED
  BY <1>3, <1>4, <1>5, <1>6

\* A decision names a trace only for a batch that matches and has a trace id.
LEMMA DecidedOnly ==
    ASSUME NEW batch, EvaluateTrace(batch).trace # NoTrace
    PROVE  /\ Matching(batch) # {}
           /\ \E j \in DOMAIN batch : batch[j].trace # NoTrace
<1>1. NoDecision.trace = NoTrace
  BY DEF NoDecision
<1>2. Matching(batch) # {}
  BY <1>1 DEF EvaluateTrace
<1>3. ASSUME \A j \in DOMAIN batch : batch[j].trace = NoTrace PROVE FALSE
  <2>1. {i \in DOMAIN batch : batch[i].trace # NoTrace} = {}
    BY <1>3
  <2> QED
    BY <1>1, <2>1 DEF EvaluateTrace, TriggerDecision
<1> QED
  BY <1>2, <1>3

-----------------------------------------------------------------------------
(* The inductive invariant.                                                *)

\* A span is in its own node's buffer and handlers only, and what was looked for
\* before it was stored was looked for.
PlaceInv ==
    /\ \A n \in Nodes : \A s \in buffer[n] : NodeOf(s) = n
    /\ \A b \in Batches : \A s \in copy[b] : NodeOf(s) = Origin(b)
    /\ \A s \in AllSpans : already[s] \subseteq processed[NodeOf(s)]

\* Nothing is broadcast before its batch was evaluated; and a decision has
\* reached the channel of the node that took it, or was dropped there.
NewsInv ==
    /\ \A b \in Batches : pc[b] # "done" => GP!Silent(b)
    /\ \A d \in Batches :
         Taken(d) => \/ d \in processed[Origin(d)] \cup dropped[Origin(d)]
                     \/ GP!Queued(Origin(d), d)

\* A decision about the trace of a buffered span that was not exported was
\* processed before the span was stored, or not at all; and one about a span
\* that has left the buffer unexported was processed before it was stored, or
\* not before it went.
MissInv ==
    /\ \A n \in Nodes : \A s \in buffer[n] \ exported[n], d \in processed[n] :
         Decides(d).trace = TraceOf(s) => d \in already[s]
    /\ \A s \in DOMAIN unmet, d \in Batches :
         s \notin exported[NodeOf(s)] /\ Decides(d).trace = TraceOf(s) =>
           d \in already[s] \cup unmet[s]

\* What was exported was exported by a decision about its trace.
CauseInv ==
    \A n \in Nodes : \A s \in exported[n] :
      \E d \in processed[n] : Decides(d).trace = TraceOf(s)

Inv == TypeOK /\ GP!Budget /\ PlaceInv /\ NewsInv /\ MissInv /\ CauseInv

\* What a batch is made of.
LEMMA Parts ==
    ASSUME work \in Workloads, NEW b \in Batches
    PROVE  Origin(b) \in Nodes /\ IsBatch(Batch(b))
BY WorkloadsAssumption DEF Origin, Batch, IsBatch

\* A stored span belongs to a batch and has a trace id.
LEMMA SpanParts ==
    /\ \A b \in Batches : SpansOf(b) \subseteq AllSpans
    /\ \A b : \A s \in SpansOf(b) : s[1] = b /\ NodeOf(s) = Origin(b)
    /\ \A s \in AllSpans : /\ s[1] \in Batches /\ s = <<s[1], s[2]>>
                           /\ s[2] \in DOMAIN Batch(s[1])
                           /\ TraceOf(s) # NoTrace
BY DEF AllSpans, SpansOf, NodeOf, TraceOf

\* The workload stays, and with it all that is said about its spans.
LEMMA SameWork ==
    ASSUME work' = work
    PROVE  /\ AllSpans' = AllSpans /\ Traces' = Traces
           /\ \A b : Origin(b)' = Origin(b) /\ Decides(b)' = Decides(b)
           /\ \A s : TraceOf(s)' = TraceOf(s) /\ NodeOf(s)' = NodeOf(s)
BY DEF AllSpans, Traces, TracesOf, SpansOf, Batch, Origin, TraceOf, NodeOf,
       Decides

\* The parts of the invariant about gossip.
LEMMA InvGossip == Inv => GP!GossipInv /\ GP!GossipOK
BY SameGossip DEF Inv, TypeOK, GP!GossipInv

-----------------------------------------------------------------------------

\* The invariant holds before the first batch comes.
LEMMA InvInit == Init => Inv
<1> SUFFICES ASSUME Init PROVE Inv
  OBVIOUS
<1>1. GP!GossipInv /\ \A b \in Batches : GP!Silent(b)
  BY SameGossip, GP!InvInit, LimitsAreNaturals DEF Init
<1>2. DOMAIN unmet = {}
  BY DEF Init
<1>3. TypeOK
  <2>1. G!GossipOK
    BY <1>1, SameGossip DEF GP!GossipInv
  <2>2. \A b \in Batches : TracesOf(SpansOf(b)) \subseteq Traces
    BY SpanParts DEF TracesOf, Traces
  <2> QED
    BY <1>2, <2>1, <2>2 DEF Init, TypeOK
<1>4. PlaceInv /\ MissInv /\ CauseInv
  BY <1>2 DEF Init, PlaceInv, MissInv, CauseInv
<1>5. NewsInv
  BY <1>1 DEF Init, NewsInv, Taken
<1> QED
  BY <1>1, <1>3, <1>4, <1>5 DEF Inv, GP!GossipInv

\* What no handler's and no loop's access to the buffer changes.
LEMMA BufferStep ==
    ASSUME Inv, work' = work, pc' = pc, processed' = processed,
           UNCHANGED gossipVars
    PROVE  NewsInv' /\ G!GossipOK' /\ GP!Budget'
<1>1. G!GossipOK' /\ GP!Budget'
  BY DEF Inv, TypeOK, gossipVars, G!GossipOK, GP!Budget
<1>2. /\ \A x \in Batches : GP!Silent(x)' <=> GP!Silent(x)
      /\ \A d \in Batches : Taken(d)' <=> Taken(d)
      /\ dropped' = dropped
  BY SameWork DEF gossipVars, GP!Silent, Taken
<1>3. \A d \in Batches : GP!Queued(Origin(d), d)' <=> GP!Queued(Origin(d), d)
  BY SameWork DEF gossipVars, GP!Queued
<1>4. NewsInv'
  BY <1>2, <1>3, SameWork DEF Inv, NewsInv
<1> QED
  BY <1>1, <1>4

\* What leaves the buffer unexported was missed by every decision about it.
LEMMA LeaveStep ==
    ASSUME Inv, NEW n \in Nodes, NEW lost \in SUBSET buffer[n], Leave(n, lost),
           NEW s \in DOMAIN unmet'
    PROVE  /\ s \in AllSpans
           /\ \A d \in Batches :
                s \notin exported[NodeOf(s)] /\ Decides(d).trace = TraceOf(s) =>
                  d \in already[s] \cup unmet'[s]
<1>1. CASE s \in lost
  <2>1. unmet'[s] = Batches \ processed[n]
    BY <1>1 DEF Leave
  <2>2. s \in AllSpans /\ NodeOf(s) = n
    BY <1>1 DEF Inv, TypeOK, PlaceInv
  <2> QED
    BY <1>1, <2>1, <2>2 DEF Inv, MissInv
<1>2. CASE s \notin lost
  <2>1. s \in DOMAIN unmet /\ unmet'[s] = unmet[s]
    BY <1>2 DEF Leave
  <2> QED
    BY <2>1 DEF Inv, TypeOK, MissInv
<1> QED
  BY <1>1, <1>2

\* Reading an entry preserves the invariant.
LEMMA StoreGetStep ==
    ASSUME Inv, NEW b \in Batches, NEW t \in Traces, StoreGet(b, t)
    PROVE  Inv'
<1>1. /\ merging' = [merging EXCEPT ![b] = t]
      /\ copy' = [copy EXCEPT ![b] = Part(Origin(b), t)]
      /\ UNCHANGED <<work, pc, todo, buffer>> /\ UNCHANGED gossipVars
      /\ UNCHANGED <<removing, exported, processed, already, unmet>>
  BY DEF StoreGet, loopVars
<1>2. PICK part : part = Part(Origin(b), t)
  OBVIOUS
<1>3. /\ part \subseteq AllSpans
      /\ \A s \in part : NodeOf(s) = Origin(b)
  <2>1. Origin(b) \in Nodes
    BY Parts DEF Inv, TypeOK
  <2> QED
    BY <1>2, <2>1 DEF Part, Within, Inv, TypeOK, PlaceInv
<1>4. /\ copy' \in [Batches -> SUBSET AllSpans]
      /\ \A x \in Batches : copy'[x] = IF x = b THEN part ELSE copy[x]
  BY <1>1, <1>2, <1>3 DEF Inv, TypeOK
<1>5. NewsInv' /\ G!GossipOK' /\ GP!Budget'
  BY <1>1, BufferStep
<1>6. TypeOK'
  BY <1>1, <1>4, <1>5, SameWork DEF Inv, TypeOK
<1>7. PlaceInv'
  <2>1. \A x \in Batches : \A s \in copy'[x] : NodeOf(s) = Origin(x)
    BY <1>3, <1>4 DEF Inv, PlaceInv
  <2> QED
    BY <1>1, <2>1, SameWork DEF Inv, PlaceInv
<1>8. MissInv' /\ CauseInv'
  BY <1>1, SameWork DEF Inv, MissInv, CauseInv
<1> QED
  BY <1>5, <1>6, <1>7, <1>8 DEF Inv

\* Writing the merged entry preserves the invariant.
LEMMA StoreSetStep ==
    ASSUME Inv, NEW b \in Batches, StoreSet(b)
    PROVE  Inv'
<1>1. PICK n \in Nodes : n = Origin(b)
  BY Parts DEF Inv, TypeOK
<1>2. PICK t \in Traces : t = merging[b]
  BY DEF StoreSet, Inv, TypeOK
<1>3. PICK entry : entry = copy[b] \cup Within(SpansOf(b), t)
  OBVIOUS
<1>4. PICK part : part = Part(n, t)
  OBVIOUS
<1>5. /\ todo' = [todo EXCEPT ![b] = @ \ {t}]
      /\ merging' = [merging EXCEPT ![b] = NoTrace]
      /\ copy' = [copy EXCEPT ![b] = {}]
      /\ buffer' = [buffer EXCEPT ![n] = (@ \ part) \cup entry]
      /\ already' = [s \in AllSpans |-> IF s \in entry \ buffer[n]
                                          THEN processed[n] ELSE already[s]]
      /\ Leave(n, part \ entry)
      /\ UNCHANGED <<work, pc>> /\ UNCHANGED gossipVars
      /\ UNCHANGED <<removing, exported, processed>>
  BY <1>1, <1>2, <1>3, <1>4 DEF StoreSet, loopVars
<1>6. /\ entry \subseteq AllSpans
      /\ \A s \in entry : NodeOf(s) = n
  <2>1. /\ copy[b] \subseteq AllSpans
        /\ \A s \in copy[b] : NodeOf(s) = n
    BY <1>1 DEF Inv, TypeOK, PlaceInv
  <2>2. /\ SpansOf(b) \subseteq AllSpans
        /\ \A s \in SpansOf(b) : NodeOf(s) = n
    BY <1>1, SpanParts
  <2> QED
    BY <1>3, <2>1, <2>2 DEF Within
<1>7. \A x \in Nodes :
        buffer'[x] = IF x = n THEN (buffer[x] \ part) \cup entry ELSE buffer[x]
  BY <1>5 DEF Inv, TypeOK
<1>8. \A s \in AllSpans : already'[s] = IF s \in entry \ buffer[n]
                                         THEN processed[n] ELSE already[s]
  BY <1>5
<1>9. \A s \in AllSpans : already[s] \subseteq already'[s]
  BY <1>6, <1>8 DEF Inv, PlaceInv
<1>10. NewsInv' /\ G!GossipOK' /\ GP!Budget'
  BY <1>5, BufferStep
<1>11. PICK lost \in SUBSET buffer[n] : lost = part \ entry
  BY <1>4 DEF Part, Within
<1>12. ASSUME NEW s \in DOMAIN unmet'
       PROVE  /\ s \in AllSpans
              /\ \A d \in Batches :
                   s \notin exported[NodeOf(s)] /\ Decides(d).trace = TraceOf(s)
                     => d \in already[s] \cup unmet'[s]
  BY <1>5, <1>11, <1>12, LeaveStep
<1>13. TypeOK'
  <2>1. /\ todo' \in [Batches -> SUBSET Traces]
        /\ merging' \in [Batches -> Traces \cup {NoTrace}]
        /\ copy' \in [Batches -> SUBSET AllSpans]
    BY <1>5 DEF Inv, TypeOK
  <2>2. buffer' \in [Nodes -> SUBSET AllSpans]
    BY <1>5, <1>6 DEF Inv, TypeOK
  <2>3. already' \in [AllSpans -> SUBSET Batches]
    BY <1>5 DEF Inv, TypeOK
  <2>4. DOMAIN unmet' \subseteq AllSpans
    BY <1>12
  <2> QED
    BY <1>5, <1>10, <2>1, <2>2, <2>3, <2>4, SameWork DEF Inv, TypeOK
<1>14. PlaceInv'
  <2>1. \A x \in Nodes : \A s \in buffer'[x] : NodeOf(s) = x
    BY <1>6, <1>7 DEF Inv, PlaceInv
  <2>2. \A x \in Batches : \A s \in copy'[x] : NodeOf(s) = Origin(x)
    BY <1>5 DEF Inv, TypeOK, PlaceInv
  <2>3. \A s \in AllSpans : already'[s] \subseteq processed[NodeOf(s)]
    BY <1>6, <1>8 DEF Inv, PlaceInv
  <2> QED
    BY <1>5, <2>1, <2>2, <2>3, SameWork DEF PlaceInv
<1>15. MissInv'
  <2>1. ASSUME NEW x \in Nodes, NEW s \in buffer'[x] \ exported[x],
               NEW d \in processed[x], Decides(d).trace = TraceOf(s)
        PROVE  d \in already'[s]
    <3>1. CASE s \in entry \ buffer[n] /\ x = n
      BY <1>6, <1>8, <2>1, <3>1
    <3>2. CASE s \in buffer[x]
      <4>1. s \in AllSpans /\ d \in already[s]
        BY <2>1, <3>2 DEF Inv, TypeOK, MissInv
      <4> QED
        BY <1>9, <4>1
    <3> QED
      BY <1>7, <2>1, <3>1, <3>2
  <2>2. ASSUME NEW s \in DOMAIN unmet', NEW d \in Batches,
               s \notin exported[NodeOf(s)], Decides(d).trace = TraceOf(s)
        PROVE  d \in already'[s] \cup unmet'[s]
    BY <1>9, <1>12, <2>2
  <2> QED
    BY <1>5, <2>1, <2>2, SameWork DEF MissInv
<1>16. CauseInv'
  BY <1>5, SameWork DEF Inv, CauseInv
<1> QED
  BY <1>10, <1>13, <1>14, <1>15, <1>16 DEF Inv

\* What becomes of the invariant when only broadcasts, channels and drops change
\* and nothing leaves a channel.
LEMMA GossipStep ==
    ASSUME Inv, GP!GossipInv', work' = work,
           UNCHANGED <<storeVars, buffer, loopVars, already, unmet>>,
           pc' \in [Batches -> {"new", "done"}],
           \A b \in Batches : pc'[b] # "done" => GP!Silent(b)',
           \A d \in Batches : Taken(d)' =>
             \/ Taken(d)
             \/ d \in dropped'[Origin(d)] \/ GP!Queued(Origin(d), d)',
           \A n \in Nodes : dropped[n] \subseteq dropped'[n],
           \A n \in Nodes, d \in Batches : GP!Queued(n, d) => GP!Queued(n, d)'
    PROVE  Inv'
<1>1. /\ UNCHANGED <<work, todo, merging, copy, buffer>>
      /\ UNCHANGED <<removing, exported, processed, already, unmet>>
  BY DEF storeVars, loopVars
<1>2. TypeOK' /\ GP!Budget'
  BY <1>1, SameGossip, SameWork DEF Inv, TypeOK, GP!GossipInv
<1>3. PlaceInv'
  BY <1>1, SameWork DEF Inv, PlaceInv
<1>4. NewsInv'
  <2>1. ASSUME NEW d \in Batches, Taken(d)'
        PROVE  \/ d \in (processed[Origin(d)] \cup dropped[Origin(d)])'
               \/ GP!Queued(Origin(d), d)'
    <3>1. Origin(d) \in Nodes /\ Origin(d)' = Origin(d)
      BY Parts, SameWork DEF Inv, TypeOK
    <3> QED
      BY <1>1, <2>1, <3>1 DEF Inv, NewsInv
  <2> QED
    BY <2>1 DEF Inv, NewsInv
<1>5. MissInv' /\ CauseInv'
  BY <1>1, SameWork DEF Inv, MissInv, CauseInv
<1> QED
  BY <1>2, <1>3, <1>4, <1>5 DEF Inv

\* Evaluating a batch preserves the invariant.
LEMMA EvaluateStep ==
    ASSUME Inv, NEW b \in Batches, Evaluate(b)
    PROVE  Inv'
<1>1. /\ pc[b] = "new" /\ pc' = [pc EXCEPT ![b] = "done"]
      /\ IF Decides(b) = NoDecision THEN UNCHANGED gossipVars
                                    ELSE G!Broadcast(Origin(b), b)
      /\ work' = work
      /\ UNCHANGED <<storeVars, buffer, loopVars, already, unmet>>
  BY DEF Evaluate, BroadcastDecision
<1>2. GP!GossipInv /\ GP!GossipOK
  BY InvGossip
<1>3. /\ pc' \in [Batches -> {"new", "done"}]
      /\ \A x \in Batches : pc'[x] = IF x = b THEN "done" ELSE pc[x]
  BY <1>1 DEF Inv, TypeOK
<1>4. \A x \in Batches \ {b} : Taken(x)' => Taken(x)
  BY <1>1, <1>3, SameWork DEF Taken
<1>5. \A x \in Batches : pc'[x] # "done" => x # b /\ GP!Silent(x)
  BY <1>3 DEF Inv, NewsInv
<1>6. CASE Decides(b) = NoDecision
  <2>1. UNCHANGED <<queue, net, decisionChan, dropped>>
    BY <1>1, <1>6 DEF gossipVars
  <2>2. /\ GP!GossipInv'
        /\ \A x \in Batches : GP!Silent(x) => GP!Silent(x)'
        /\ \A n \in Nodes : dropped[n] \subseteq dropped'[n]
        /\ \A n \in Nodes, d \in Batches : GP!Queued(n, d) => GP!Queued(n, d)'
    BY <1>2, <2>1 DEF GP!GossipInv, GP!GossipOK, GP!Budget, GP!Silent, GP!Queued
  <2>3. ~Taken(b)'
    BY <1>1, <1>6, SameWork DEF Taken
  <2>4. \A d \in Batches : Taken(d)' => Taken(d)
    BY <1>4, <2>3
  <2>5. \A x \in Batches : pc'[x] # "done" => GP!Silent(x)'
    BY <1>5, <2>2
  <2> QED
    BY <1>1, <1>3, <2>2, <2>4, <2>5, GossipStep
<1>7. CASE Decides(b) # NoDecision
  <2>1. PICK o \in Nodes : o = Origin(b)
    BY Parts DEF Inv, TypeOK
  <2>2. GP!Broadcast(o, b) /\ GP!Deliver(o, b)
    BY <1>1, <1>7, <2>1, SameGossip DEF GP!Broadcast
  <2>3. GP!Silent(b)
    BY <1>1 DEF Inv, NewsInv
  <2>4. GP!GossipInv' /\ \A x \in Batches \ {b} : GP!Silent(x) => GP!Silent(x)'
    BY <1>2, <2>2, <2>3, LimitsAreNaturals, GP!BroadcastInv
  <2>5. /\ GP!Queued(o, b)' \/ b \in dropped'[o]
        /\ \A n \in Nodes : dropped[n] \subseteq dropped'[n]
        /\ \A n \in Nodes, d \in Batches : GP!Queued(n, d) => GP!Queued(n, d)'
    BY <1>2, <2>2, GP!DeliverQueues
  <2>6. Origin(b)' = o
    BY <1>1, <2>1, SameWork
  <2>7. b \in dropped'[Origin(b)] \/ GP!Queued(Origin(b), b)'
    BY <2>1, <2>5, <2>6 DEF GP!Queued
  <2>8. \A d \in Batches : Taken(d)' =>
          \/ Taken(d)
          \/ d \in dropped'[Origin(d)] \/ GP!Queued(Origin(d), d)'
    BY <1>4, <2>7
  <2>9. \A x \in Batches : pc'[x] # "done" => GP!Silent(x)'
    BY <1>5, <2>4
  <2> QED
    BY <1>1, <1>3, <2>4, <2>5, <2>8, <2>9, GossipStep
<1> QED
  BY <1>6, <1>7

\* Transmissions and arrivals preserve the invariant.
LEMMA NetworkStep ==
    ASSUME Inv, Network
    PROVE  Inv'
<1>1. /\ work' = work /\ pc' = pc
      /\ UNCHANGED <<storeVars, buffer, loopVars, already, unmet>>
  BY DEF Network, inVars
<1>2. GP!GossipInv /\ GP!GossipOK
  BY InvGossip
<1>3. /\ GP!GossipInv'
      /\ \A x \in Batches : GP!Silent(x) => GP!Silent(x)'
      /\ \A n \in Nodes : dropped[n] \subseteq dropped'[n]
      /\ \A n \in Nodes, d \in Batches : GP!Queued(n, d) => GP!Queued(n, d)'
  <2>1. ASSUME NEW b \in Batches, NEW n \in Nodes, GP!NotifyMsg(n, b)
        PROVE  /\ GP!GossipInv'
               /\ \A x \in Batches : GP!Silent(x) => GP!Silent(x)'
               /\ \A y \in Nodes : dropped[y] \subseteq dropped'[y]
               /\ \A y \in Nodes, d \in Batches :
                    GP!Queued(y, d) => GP!Queued(y, d)'
    <3>1. GP!Deliver(n, b)
      BY <2>1 DEF GP!NotifyMsg
    <3>2. /\ GP!GossipInv'
          /\ \A x \in Batches : GP!Silent(x) => GP!Silent(x)'
      BY <1>2, <2>1, LimitsAreNaturals, GP!NotifyInv
    <3> QED
      BY <1>2, <3>1, <3>2, GP!DeliverQueues
  <2>2. ASSUME NEW b \in Batches, NEW n \in Nodes, NEW arrives \in BOOLEAN,
               GP!Transmit(Origin(b), b, n, arrives)
        PROVE  /\ GP!GossipInv'
               /\ \A x \in Batches : GP!Silent(x) => GP!Silent(x)'
               /\ \A y \in Nodes : dropped[y] \subseteq dropped'[y]
               /\ \A y \in Nodes, d \in Batches :
                    GP!Queued(y, d) => GP!Queued(y, d)'
    <3>1. /\ GP!GossipInv'
          /\ \A x \in Batches : GP!Silent(x) => GP!Silent(x)'
      <4>1. PICK o : o = Origin(b)
        OBVIOUS
      <4>2. GP!Transmit(o, b, n, arrives)
        BY <2>2, <4>1
      <4> QED
        BY <1>2, <4>2, LimitsAreNaturals, GP!TransmitInv
    <3>2. decisionChan' = decisionChan /\ dropped' = dropped
      BY <2>2 DEF GP!Transmit
    <3> QED
      BY <3>1, <3>2 DEF GP!Queued
  <2> QED
    BY <2>1, <2>2, SameGossip DEF Network
<1>4. /\ pc' \in [Batches -> {"new", "done"}]
      /\ \A b \in Batches : pc'[b] # "done" => GP!Silent(b)'
  BY <1>1, <1>3 DEF Inv, TypeOK, NewsInv
<1>5. \A d \in Batches : Taken(d)' => Taken(d)
  BY <1>1, SameWork DEF Taken
<1> QED
  BY <1>1, <1>3, <1>4, <1>5, GossipStep

\* Processing a decision preserves the invariant.
LEMMA ProcessStep ==
    ASSUME Inv, NEW n \in Nodes, ProcessDecision(n)
    PROVE  Inv'
<1>1. PICK b \in Batches : b = Head(decisionChan[n])
  BY InvGossip, SameGossip, GP!TakeQueues DEF ProcessDecision
<1>2. PICK part : part = Part(n, Decides(b).trace)
  OBVIOUS
<1>3. /\ GP!Take(n)
      /\ exported' = [exported EXCEPT ![n] = @ \cup part]
      /\ removing' = [removing EXCEPT ![n] = IF part = {}
                        THEN NoTrace ELSE Decides(b).trace]
      /\ processed' = [processed EXCEPT ![n] = @ \cup {b}]
      /\ UNCHANGED <<work, pc, todo, merging, copy, buffer, already, unmet>>
  BY <1>1, <1>2, SameGossip DEF ProcessDecision, inVars, storeVars
<1>4. /\ part \subseteq buffer[n]
      /\ \A s \in buffer[n] : s \in part <=> TraceOf(s) = Decides(b).trace
  BY <1>2 DEF Part, Within
<1>5. \A x \in Nodes :
        /\ exported'[x] = IF x = n THEN exported[x] \cup part ELSE exported[x]
        /\ processed'[x] = IF x = n THEN processed[x] \cup {b} ELSE processed[x]
  BY <1>3 DEF Inv, TypeOK
<1>6. GP!GossipInv' /\ \A x \in Batches : GP!Silent(x) => GP!Silent(x)'
  BY <1>3, InvGossip, LimitsAreNaturals, GP!TakeInv
<1>7. removing' \in [Nodes -> Traces \cup {NoTrace}]
  <2>1. part # {} => Decides(b).trace \in Traces
    BY <1>4 DEF Inv, TypeOK, Traces, TracesOf
  <2> QED
    BY <1>3, <2>1 DEF Inv, TypeOK
<1>8. TypeOK' /\ GP!Budget'
  <2>1. part \subseteq AllSpans
    BY <1>4 DEF Inv, TypeOK
  <2>2. G!GossipOK' /\ GP!Budget'
    BY <1>6, SameGossip DEF GP!GossipInv
  <2>3. /\ exported' \in [Nodes -> SUBSET AllSpans]
        /\ processed' \in [Nodes -> SUBSET Batches]
    BY <1>3, <2>1 DEF Inv, TypeOK
  <2> QED
    BY <1>3, <1>7, <2>2, <2>3, SameWork DEF Inv, TypeOK
<1>9. PlaceInv'
  <2>1. \A s \in AllSpans : NodeOf(s) \in Nodes
    BY SpanParts, Parts DEF Inv, TypeOK, NodeOf
  <2>2. \A s \in AllSpans : already[s] \subseteq processed'[NodeOf(s)]
    BY <1>5, <2>1 DEF Inv, PlaceInv
  <2> QED
    BY <1>3, <2>2, SameWork DEF Inv, PlaceInv
<1>10. NewsInv'
  <2>1. \A x \in Nodes, d \in Batches :
          GP!Queued(x, d) => GP!Queued(x, d)' \/ d \in processed'[x]
    <3>1. \A x \in Nodes, d \in Batches :
            GP!Queued(x, d) => GP!Queued(x, d)' \/ (x = n /\ d = b)
      BY <1>1, <1>3, InvGossip, GP!TakeQueues
    <3>2. b \in processed'[n]
      BY <1>5
    <3> QED
      BY <3>1, <3>2
  <2>2. /\ dropped' = dropped
        /\ \A x \in Nodes : processed[x] \subseteq processed'[x]
    BY <1>3, <1>5 DEF GP!Take
  <2>3. ASSUME NEW d \in Batches, Taken(d)'
        PROVE  \/ d \in (processed[Origin(d)] \cup dropped[Origin(d)])'
               \/ GP!Queued(Origin(d), d)'
    <3>1. Taken(d)
      BY <1>3, <2>3, SameWork DEF Taken
    <3>2. PICK o \in Nodes : o = Origin(d)
      BY Parts DEF Inv, TypeOK
    <3>3. Origin(d)' = o
      BY <1>3, <3>2, SameWork
    <3>4. d \in (processed[o] \cup dropped[o])' \/ GP!Queued(o, d)'
      BY <2>1, <2>2, <3>1, <3>2 DEF Inv, NewsInv
    <3> QED
      BY <3>3, <3>4 DEF GP!Queued
  <2>4. \A x \in Batches : pc'[x] # "done" => GP!Silent(x)'
    BY <1>3, <1>6 DEF Inv, NewsInv
  <2> QED
    BY <2>3, <2>4 DEF NewsInv
<1>11. MissInv'
  <2>1. ASSUME NEW x \in Nodes, NEW s \in buffer[x] \ exported'[x],
               NEW d \in processed'[x], Decides(d).trace = TraceOf(s)
        PROVE  d \in already[s]
    <3>1. s \notin exported[x] /\ d \in processed[x]
      BY <1>4, <1>5, <2>1
    <3> QED
      BY <2>1, <3>1 DEF Inv, MissInv
  <2>2. \A s \in AllSpans : NodeOf(s) \in Nodes
    BY SpanParts, Parts DEF Inv, TypeOK, NodeOf
  <2>3. \A s \in DOMAIN unmet :
          s \notin exported'[NodeOf(s)] => s \notin exported[NodeOf(s)]
    BY <1>5, <2>2 DEF Inv, TypeOK
  <2> QED
    BY <1>3, <2>1, <2>3, SameWork DEF Inv, MissInv
<1>12. CauseInv'
  <2> SUFFICES ASSUME NEW x \in Nodes, NEW s \in exported'[x]
               PROVE  \E d \in processed'[x] : Decides(d).trace = TraceOf(s)
    BY <1>3, SameWork DEF CauseInv
  <2>1. CASE s \in part /\ x = n
    BY <1>4, <1>5, <2>1
  <2>2. CASE s \in exported[x]
    BY <1>5, <2>2 DEF Inv, CauseInv
  <2> QED
    BY <1>5, <2>1, <2>2
<1> QED
  BY <1>8, <1>9, <1>10, <1>11, <1>12 DEF Inv

\* Taking an entry out of the buffer preserves the invariant.
LEMMA RemovalStep ==
    ASSUME Inv, NEW n \in Nodes, NEW part \in SUBSET buffer[n],
           buffer' = [buffer EXCEPT ![n] = @ \ part], Leave(n, part),
           removing' \in [Nodes -> Traces \cup {NoTrace}],
           UNCHANGED <<work, pc, todo, merging, copy>>, UNCHANGED gossipVars,
           UNCHANGED <<exported, processed, already>>
    PROVE  Inv'
<1>1. NewsInv' /\ G!GossipOK' /\ GP!Budget'
  BY BufferStep
<1>2. \A x \in Nodes : buffer'[x] \subseteq buffer[x]
  BY DEF Inv, TypeOK
<1>3. ASSUME NEW s \in DOMAIN unmet'
      PROVE  /\ s \in AllSpans
             /\ \A d \in Batches :
                  s \notin exported[NodeOf(s)] /\ Decides(d).trace = TraceOf(s)
                    => d \in already[s] \cup unmet'[s]
  BY <1>3, LeaveStep
<1>4. TypeOK'
  <2>1. buffer' \in [Nodes -> SUBSET AllSpans]
    BY DEF Inv, TypeOK
  <2>2. DOMAIN unmet' \subseteq AllSpans
    BY <1>3
  <2> QED
    BY <1>1, <2>1, <2>2, SameWork DEF Inv, TypeOK
<1>5. PlaceInv'
  BY <1>2, SameWork DEF Inv, PlaceInv
<1>6. MissInv'
  <2>1. \A x \in Nodes : \A s \in buffer'[x] \ exported[x], d \in processed[x] :
          Decides(d).trace = TraceOf(s) => d \in already[s]
    BY <1>2 DEF Inv, MissInv
  <2> QED
    BY <1>3, <2>1, SameWork DEF MissInv
<1>7. CauseInv'
  BY SameWork DEF Inv, CauseInv
<1> QED
  BY <1>1, <1>4, <1>5, <1>6, <1>7 DEF Inv

\* So do RemoveTrace ...
LEMMA RemoveStep ==
    ASSUME Inv, NEW n \in Nodes, RemoveTrace(n)
    PROVE  Inv'
<1>1. PICK part \in SUBSET buffer[n] : part = Part(n, removing[n])
  BY DEF Part, Within
<1>2. removing' \in [Nodes -> Traces \cup {NoTrace}]
  BY DEF RemoveTrace, Inv, TypeOK
<1>3. /\ buffer' = [buffer EXCEPT ![n] = @ \ part] /\ Leave(n, part)
      /\ UNCHANGED <<work, pc, todo, merging, copy>> /\ UNCHANGED gossipVars
      /\ UNCHANGED <<exported, processed, already>>
  BY <1>1 DEF RemoveTrace, inVars, storeVars
<1> QED
  BY <1>2, <1>3, RemovalStep

\* ... and an eviction.
LEMMA EvictStep ==
    ASSUME Inv, NEW n \in Nodes, NEW t, Evict(n, t)
    PROVE  Inv'
<1>1. PICK part \in SUBSET buffer[n] : part = Part(n, t)
  BY DEF Part, Within
<1>2. /\ buffer' = [buffer EXCEPT ![n] = @ \ part] /\ Leave(n, part)
      /\ UNCHANGED <<work, pc, todo, merging, copy>> /\ UNCHANGED gossipVars
      /\ UNCHANGED <<removing, exported, processed, already>>
  BY <1>1 DEF Evict, inVars, storeVars, loopVars
<1>3. removing' \in [Nodes -> Traces \cup {NoTrace}]
  BY <1>2 DEF Inv, TypeOK
<1> QED
  BY <1>2, <1>3, RemovalStep

\* The invariant is inductive.
LEMMA InvInductive == Inv /\ [Next]_vars => Inv'
<1> SUFFICES ASSUME Inv, [Next]_vars PROVE Inv'
  OBVIOUS
<1>1. CASE Handler
  BY <1>1, StoreGetStep, StoreSetStep, EvaluateStep DEF Handler
<1>2. CASE Network
  BY <1>2, NetworkStep
<1>3. CASE Loop
  BY <1>3, ProcessStep, RemoveStep DEF Loop
<1>4. CASE \E n \in Nodes, t \in Traces : Evict(n, t)
  BY <1>4, EvictStep
<1>5. CASE UNCHANGED vars
  <2>1. /\ UNCHANGED <<work, pc, queue, net, decisionChan, dropped>>
        /\ UNCHANGED <<storeVars, buffer, loopVars, already, unmet>>
    BY <1>5 DEF vars, inVars, gossipVars
  <2>2. GP!GossipInv'
    BY <2>1, InvGossip DEF GP!GossipInv, GP!GossipOK, GP!Budget
  <2>3. /\ pc' \in [Batches -> {"new", "done"}]
        /\ \A b \in Batches : pc'[b] # "done" => GP!Silent(b)'
    BY <2>1 DEF Inv, TypeOK, NewsInv, GP!Silent
  <2>4. /\ \A d \in Batches : Taken(d)' => Taken(d)
        /\ \A n \in Nodes, d \in Batches : GP!Queued(n, d) => GP!Queued(n, d)'
    BY <2>1, SameWork DEF Taken, GP!Queued
  <2> QED
    BY <2>1, <2>2, <2>3, <2>4, GossipStep
<1> QED
  BY <1>1, <1>2, <1>3, <1>4, <1>5 DEF Next

-----------------------------------------------------------------------------
(* The theorems.                                                           *)

\* The state keeps its types, whatever batches and decisions come: decisionChan
\* never holds more than its capacity, and a decision is never sent more often
\* than memberlist retransmits.
THEOREM TypeCorrect == Spec => []TypeOK
<1>1. Inv => TypeOK
  BY DEF Inv
<1> QED
  BY <1>1, InvInit, InvInductive, PTL DEF Spec

\* A match that no other trace of its batch precedes is decided for its own
\* trace.
LEMMA OwnDecision ==
    ASSUME work \in Workloads, NEW m \in AllSpans, SpanMatches(m), ~Shadowed(m)
    PROVE  Decides(m[1]).trace = TraceOf(m)
<1> DEFINE batch == Batch(m[1])
<1>1. /\ m[1] \in Batches /\ m[2] \in DOMAIN batch
      /\ TraceOf(m) # NoTrace /\ TraceOf(m) = batch[m[2]].trace
  BY SpanParts DEF TraceOf
<1>2. IsBatch(batch)
  BY <1>1, Parts
<1>3. Matching(batch) # {}
  BY <1>1, MatchingSpans DEF SpanMatches
<1>4. PICK k : /\ Leads(batch, k)
               /\ EvaluateTrace(batch).trace = batch[k].trace
  BY <1>1, <1>2, <1>3, Decided
<1>5. CASE k < m[2]
  <2>1. <<m[1], k>> \in SpansOf(m[1])
    BY <1>4 DEF Leads, SpansOf
  <2>2. TraceOf(<<m[1], k>>) = batch[k].trace
    BY DEF TraceOf
  <2> QED
    BY <1>4, <1>5, <2>1, <2>2 DEF Shadowed, Decides
<1>6. CASE k = m[2]
  BY <1>1, <1>4, <1>6 DEF Decides
<1>7. ~(m[2] < k)
  BY <1>1, <1>4 DEF Leads
<1> QED
  BY <1>1, <1>2, <1>4, <1>5, <1>6, <1>7 DEF IsBatch, Leads

\* A span that is lost although its trace matched has one of the excuses that
\* the code gives: it came late, it went early, the decision was dropped by a
\* full channel or never reached the node, or another trace got the credit.
THEOREM DropsAccounted == Spec => []InterestingDropAccounted
<1>1. ASSUME Inv PROVE InterestingDropAccounted
  <2> SUFFICES ASSUME NEW s \in DOMAIN unmet, NEW m \in AllSpans,
                      s \notin exported[NodeOf(s)],
                      pc[m[1]] = "done", SpanMatches(m),
                      TraceOf(m) = TraceOf(s), ~Shadowed(m)
               PROVE  Taken(m[1]) /\ Missed(s, m[1])
    BY DEF InterestingDropAccounted
  <2>1. m[1] \in Batches /\ TraceOf(m) # NoTrace
    BY SpanParts
  <2>2. Decides(m[1]).trace = TraceOf(m)
    BY <1>1, OwnDecision DEF Inv, TypeOK
  <2>3. Taken(m[1])
    <3>1. NoDecision.trace = NoTrace
      BY DEF NoDecision
    <3> QED
      BY <2>1, <2>2, <3>1 DEF Taken
  <2>4. m[1] \in already[s] \cup unmet[s]
    BY <1>1, <2>1, <2>2 DEF Inv, MissInv
  <2>5. \/ m[1] \in processed[Origin(m[1])] \cup dropped[Origin(m[1])]
        \/ G!Queued(Origin(m[1]), m[1])
    BY <1>1, <2>1, <2>3, SameGossip DEF Inv, NewsInv
  <2> QED
    BY <2>3, <2>4, <2>5 DEF Missed
<1> QED
  BY <1>1, InvInit, InvInductive, PTL DEF Spec

\* What is exported belongs to a trace that matched a policy, or that led a
\* batch in which another one matched, and the window of the decision covers
\* the match.
THEOREM JustifiedExports == Spec => []ExportIsJustified
<1>1. ASSUME Inv PROVE ExportIsJustified
  <2> SUFFICES ASSUME NEW n \in Nodes, NEW s \in exported[n]
               PROVE  \E d \in processed[n] : \E i \in DOMAIN Batch(d) :
                        /\ SpanMatches(<<d, i>>)
                        /\ Decides(d).trace = TraceOf(s)
                        /\ \/ TraceOf(<<d, i>>) \in {TraceOf(s), NoTrace}
                           \/ Shadowed(<<d, i>>)
                        /\ Decides(d).start <= Batch(d)[i].start
                        /\ Decides(d).end >= Batch(d)[i].end
    BY DEF ExportIsJustified
  <2>1. PICK d \in processed[n] : Decides(d).trace = TraceOf(s)
    BY <1>1 DEF Inv, CauseInv
  <2>2. d \in Batches /\ IsBatch(Batch(d))
    BY <1>1, Parts DEF Inv, TypeOK
  <2>3. TraceOf(s) # NoTrace
    BY <1>1, SpanParts DEF Inv, TypeOK
  <2> DEFINE batch == Batch(d)
  <2>4. /\ Matching(batch) # {}
        /\ \E j \in DOMAIN batch : batch[j].trace # NoTrace
    BY <2>1, <2>3, DecidedOnly DEF Decides
  <2>5. PICK i \in DOMAIN batch : Matching(<<batch[i]>>) # {}
    BY <2>4, MatchingSpans
  <2>6. PICK k : /\ Leads(batch, k)
                 /\ Decides(d).trace = batch[k].trace
                 /\ \A j \in DOMAIN batch :
                      /\ Decides(d).start <= batch[j].start
                      /\ Decides(d).end >= batch[j].end
    BY <2>2, <2>4, Decided DEF Decides
  <2>7. /\ SpanMatches(<<d, i>>)
        /\ TraceOf(<<d, i>>) = batch[i].trace
        /\ TraceOf(<<d, k>>) = batch[k].trace
    BY <2>5 DEF SpanMatches, TraceOf
  <2>8. \/ TraceOf(<<d, i>>) \in {TraceOf(s), NoTrace}
        \/ Shadowed(<<d, i>>)
    <3>1. SUFFICES ASSUME batch[i].trace # NoTrace, batch[i].trace # TraceOf(s)
                   PROVE  Shadowed(<<d, i>>)
      BY <2>7
    <3>2. k < i
      <4>1. i \in Int /\ k \in Int /\ k # i /\ ~(i < k)
        BY <2>1, <2>2, <2>6, <3>1 DEF Leads, IsBatch
      <4> QED
        BY <4>1
    <3>3. <<d, k>> \in SpansOf(d)
      BY <2>6 DEF Leads, SpansOf
    <3> QED
      BY <2>1, <2>6, <2>7, <3>1, <3>2, <3>3 DEF Shadowed
  <2> QED
    BY <2>1, <2>5, <2>6, <2>7, <2>8
<1> QED
  BY <1>1, InvInit, InvInductive, PTL DEF Spec
=============================================================================
