------------------------- MODULE TimedSignalsProofs -------------------------
(***************************************************************************)
(* Proofs about TimedSignals, for every value of its constants: no signal  *)
(* disappears silently, the module implements SignalLedger, none of its    *)
(* export paths exports a signal twice, and its buffer is AtomicBuffer.    *)
(***************************************************************************)
EXTENDS TimedSignals, FiniteSetTheorems, TLAPS

-----------------------------------------------------------------------------
(* Type correctness.                                                       *)

\* A channel that is not full has room for one more.
LEMMA ChannelGrows ==
    ASSUME NEW S, NEW x, IsFiniteSet(S), Cardinality(S) < EvictedCap
    PROVE  /\ IsFiniteSet(S \cup {x})
           /\ Cardinality(S \cup {x}) <= EvictedCap
<1>1. /\ IsFiniteSet(S \cup {x})
      /\ Cardinality(S \cup {x}) = IF x \in S THEN Cardinality(S)
                                            ELSE Cardinality(S) + 1
  BY FS_AddElement
<1>2. Cardinality(S) \in Nat
  BY FS_CardinalityType
<1> QED
  BY <1>1, <1>2, CapIsNatural

\* Taking a signal out of the channel keeps it within its capacity.
LEMMA ChannelShrinks ==
    ASSUME NEW S, NEW x, IsFiniteSet(S), Cardinality(S) <= EvictedCap
    PROVE  /\ IsFiniteSet(S \ {x})
           /\ Cardinality(S \ {x}) <= EvictedCap
<1>1. /\ IsFiniteSet(S \ {x})
      /\ Cardinality(S \ {x}) = IF x \in S THEN Cardinality(S) - 1
                                           ELSE Cardinality(S)
  BY FS_RemoveElement
<1>2. Cardinality(S) \in Nat
  BY FS_CardinalityType
<1> QED
  BY <1>1, <1>2, CapIsNatural

\* The history of exporter calls keeps its types.
LEMMA ExportType ==
    ASSUME NEW batch \in [Paths -> SUBSET Keys], NEW ok, Export(batch, ok),
           exportedBy \in [Paths -> SUBSET Keys],
           repeated \subseteq Keys, failed \subseteq Keys
    PROVE  /\ exportedBy' \in [Paths -> SUBSET Keys]
           /\ repeated' \subseteq Keys /\ failed' \subseteq Keys
<1>1. CASE ok
  BY <1>1 DEF Export
<1>2. CASE ~ok
  BY <1>2 DEF Export
<1> QED
  BY <1>1, <1>2

\* What a rollup exports of one kind are signals.
LEMMA RollupBatchType ==
    ASSUME rFetched \subseteq Keys, rDrained \subseteq Keys
    PROVE  RollupBatch \in [Paths -> SUBSET Keys]
  BY DEF RollupBatch, OfKind, Paths

\* Every step of the handlers, the cache and both loops keeps the types.
LEMMA TypeStep == TypeOK /\ [Next]_vars => TypeOK'
<1> SUFFICES ASSUME TypeOK, [Next]_vars PROVE TypeOK'
  OBVIOUS
<1> USE TimesAreNaturals
<1>1. CASE Tick
  BY <1>1 DEF TypeOK, Tick, evVars, dVars, rVars, expVars
<1>2. ASSUME NEW k \in Keys, NEW t \in 0..now, StoreSet(k, t) PROVE TypeOK'
  BY <1>2 DEF TypeOK, StoreSet, evVars, dVars, rVars, expVars, Phases
<1>3. ASSUME NEW k \in Keys, StoreReject(k) PROVE TypeOK'
  BY <1>3 DEF TypeOK, StoreReject, evVars, dVars, rVars, expVars, Phases
<1>4. ASSUME NEW k \in Keys, StoreIndex(k) PROVE TypeOK'
  BY <1>4 DEF TypeOK, StoreIndex, evVars, dVars, rVars, expVars, Phases
<1>5. ASSUME NEW k \in Keys, Evict(k) PROVE TypeOK'
  BY <1>5, ChannelGrows DEF TypeOK, Evict, dVars, rVars, expVars
<1>6. ASSUME NEW k \in Keys, ConsumeEvicted(k) PROVE TypeOK'
  BY <1>6, ChannelShrinks
     DEF TypeOK, ConsumeEvicted, bufVars, dVars, rVars, expVars
<1>7. ASSUME NEW span \in EventSpans, DecisionBegin(span) PROVE TypeOK'
  <2>1. span[1] \in Int /\ span[2] \in Int
    BY EventSpansAreTimes
  <2> QED
    BY <1>7, <2>1 DEF TypeOK, DecisionBegin, bufVars, evVars, rVars, expVars
<1>8. CASE DecisionStep
  <2>1. CASE DecisionGet
    BY <2>1 DEF TypeOK, DecisionGet, GetInRange, bufVars, evVars, rVars, expVars
  <2>2. CASE DecisionCollect
    BY <2>2 DEF TypeOK, DecisionCollect, InRange, OfKind, bufVars, evVars,
                rVars, expVars
  <2>3. CASE DecisionNextKind
    BY <2>3 DEF TypeOK, DecisionNextKind, Kinds, bufVars, evVars, rVars, expVars
  <2>4. ASSUME NEW ok \in ExportOutcomes, DecisionExport(ok) PROVE TypeOK'
    <3> DEFINE batch ==
                 [p \in Paths |-> IF p = "decision" THEN dFetched ELSE {}]
    <3>1. batch \in [Paths -> SUBSET Keys] /\ Export(batch, ok)
      BY <2>4 DEF TypeOK, DecisionExport
    <3> HIDE DEF batch
    <3>2. /\ exportedBy' \in [Paths -> SUBSET Keys]
          /\ repeated' \subseteq Keys /\ failed' \subseteq Keys
      BY <3>1, ExportType DEF TypeOK
    <3> QED
      BY <2>4, <3>2 DEF TypeOK, DecisionExport, bufVars, evVars, rVars
  <2>5. ASSUME NEW k \in Keys, DecisionDelete(k) PROVE TypeOK'
    BY <2>5 DEF TypeOK, DecisionDelete, CacheDelete, evVars, rVars, expVars
  <2> QED
    BY <1>8, <2>1, <2>2, <2>3, <2>4, <2>5 DEF DecisionStep
<1>9. CASE RollupStep
  <2>1. CASE RollupBegin
    BY <2>1 DEF TypeOK, RollupBegin, bufVars, evVars, dVars, expVars
  <2>2. CASE RollupGet
    BY <2>2 DEF TypeOK, RollupGet, GetInRange, Kinds, bufVars, evVars, dVars,
                expVars
  <2>3. CASE RollupDrain
    BY <2>3 DEF TypeOK, RollupDrain, bufVars, dVars, expVars
  <2>4. CASE RollupCollect
    BY <2>4 DEF TypeOK, RollupCollect, InRange, OfKind, bufVars, evVars, dVars,
                expVars
  <2>5. CASE RollupNextKind
    BY <2>5 DEF TypeOK, RollupNextKind, Kinds, bufVars, evVars, dVars, expVars
  <2>6. ASSUME NEW ok \in ExportOutcomes, RollupExport(ok) PROVE TypeOK'
    <3>1. /\ exportedBy' \in [Paths -> SUBSET Keys]
          /\ repeated' \subseteq Keys /\ failed' \subseteq Keys
      BY <2>6, ExportType, RollupBatchType DEF TypeOK, RollupExport
    <3> QED
      BY <2>6, <3>1 DEF TypeOK, RollupExport, bufVars, evVars, dVars
  <2>7. ASSUME NEW k \in Keys, RollupDelete(k) PROVE TypeOK'
    BY <2>7 DEF TypeOK, RollupDelete, CacheDelete, evVars, dVars, expVars
  <2> QED
    BY <1>9, <2>1, <2>2, <2>3, <2>4, <2>5, <2>6, <2>7 DEF RollupStep
<1>10. CASE UNCHANGED vars
  BY <1>10 DEF TypeOK, vars, bufVars, evVars, dVars, rVars, expVars
<1>11. CASE Jam
  BY <1>11 DEF TypeOK, Jam, bufVars, evVars, dVars, rVars, expVars
<1> QED
  BY <1>1, <1>2, <1>3, <1>4, <1>5, <1>6, <1>7, <1>8, <1>9, <1>10, <1>11
     DEF Next, Expire, EvictNoSpace

\* An empty buffer and idle loops have the right types.
LEMMA TypeInit == Init => TypeOK
<1> SUFFICES ASSUME Init PROVE TypeOK
  OBVIOUS
<1>1. IsFiniteSet({}) /\ Cardinality({}) = 0
  BY FS_EmptySet
<1>2. jammed \in BOOLEAN
  BY DEF Init
<1> QED
  BY <1>1, <1>2, CapIsNatural DEF Init, TypeOK, Kinds, Phases

\* Type correctness: also, evictedChan never holds more than its capacity.
THEOREM TypeCorrect == Spec => []TypeOK
<1>1. Init => TypeOK
  BY TypeInit
<1>2. TypeOK /\ [Next]_vars => TypeOK'
  BY TypeStep
<1> QED
  BY <1>1, <1>2, PTL DEF Spec

-----------------------------------------------------------------------------
(* No signal disappears silently.                                          *)

\* A signal in an exporter call is settled, whether the call succeeds or fails,
\* and so is what was settled before.
LEMMA ExportSettles ==
    ASSUME NEW batch \in [Paths -> SUBSET Keys], NEW ok, Export(batch, ok),
           UNCHANGED <<overflowed, raced>>,
           exportedBy \in [Paths -> SUBSET Keys]
    PROVE  /\ Settled \subseteq Settled'
           /\ \A p \in Paths : batch[p] \subseteq Settled'
<1>1. CASE ok
  <2>1. /\ exportedBy' = [p \in Paths |-> exportedBy[p] \cup batch[p]]
        /\ failed' = failed
    BY <1>1 DEF Export
  <2>2. \A p \in Paths : exportedBy'[p] = exportedBy[p] \cup batch[p]
    BY <2>1
  <2>3. /\ Exported \subseteq Exported'
        /\ \A p \in Paths : batch[p] \subseteq Exported'
    BY <2>2 DEF Exported
  <2> QED
    BY <2>1, <2>3 DEF Settled
<1>2. CASE ~ok
  <2>1. /\ exportedBy' = exportedBy
        /\ failed' = failed \cup UNION {batch[p] : p \in Paths}
    BY <1>2 DEF Export
  <2>2. Exported' = Exported
    BY <2>1 DEF Exported
  <2>3. \A p \in Paths : batch[p] \subseteq failed'
    BY <2>1
  <2> QED
    BY <2>1, <2>2, <2>3 DEF Settled
<1> QED
  BY <1>1, <1>2

\* Without an exporter call, what was settled stays so.
LEMMA SettledGrows ==
    ASSUME UNCHANGED expVars,
           overflowed \subseteq overflowed', raced \subseteq raced'
    PROVE  Settled \subseteq Settled'
  BY DEF Settled, Exported, expVars

\* A signal that is not indexed yet is younger than anything a rollup reads.
LEMMA SetIsYoung ==
    ASSUME TypeOK, BufferInv, RollupInv, rPc # "idle", ~jammed,
           NEW k \in Keys, phase[k] = "set"
    PROVE  ~(ts[k] <= rEnd)
<1>1. /\ now \in Nat /\ ts[k] \in Nat /\ rEnd \in Int
      /\ RollupLag \in Nat /\ StoreSlack \in Nat
  BY TimesAreNaturals DEF TypeOK
<1>2. /\ now - ts[k] <= StoreSlack /\ rEnd <= now - RollupLag
      /\ StoreSlack < RollupLag
  BY StoresAreQuick DEF BufferInv, RollupInv
<1> QED
  BY <1>1, <1>2

\* The invariant holds of an empty buffer.
LEMMA IndInit == Init => IndInv
<1> SUFFICES ASSUME Init PROVE IndInv
  OBVIOUS
<1>1. TypeOK
  BY TypeInit
<1>2. BufferInv /\ RollupInv /\ DecisionInv /\ LossAccounted
  BY DEF Init, BufferInv, RollupInv, DecisionInv, LossAccounted,
         CachedIsReachable, Stored, Findable, RollupPending
<1> QED
  BY <1>1, <1>2 DEF IndInv

\* Every step keeps the invariant: one case for each action.
LEMMA IndStep == IndInv /\ [Next]_vars => IndInv'
<1> SUFFICES ASSUME IndInv, [Next]_vars PROVE IndInv'
  OBVIOUS
<1> DEFINE Goal == BufferInv' /\ RollupInv' /\ DecisionInv' /\ LossAccounted'
<1>t. TypeOK /\ TypeOK'
  BY TypeStep DEF IndInv
<1>i. BufferInv /\ RollupInv /\ DecisionInv /\ LossAccounted
  BY DEF IndInv
<1>1. ASSUME Tick PROVE Goal
  <2>1. Settled \subseteq Settled'
    BY <1>1, SettledGrows DEF Tick
  <2>2. BufferInv'
    BY <1>t, <1>i, <1>1 DEF BufferInv, CachedIsReachable, Stored, TypeOK, Tick
  <2>3. RollupInv'
    BY <1>t, <1>i, <1>1, <2>1, TimesAreNaturals
       DEF RollupInv, RollupPending, Findable, TypeOK, Tick, dVars, rVars
  <2>4. DecisionInv'
    BY <1>i, <1>1, <2>1 DEF DecisionInv, Findable, Tick, dVars, rVars
  <2>5. LossAccounted'
    BY <1>i, <1>1, <2>1
       DEF LossAccounted, Held, Stored, Tick, evVars, dVars, rVars
  <2> QED
    BY <2>2, <2>3, <2>4, <2>5
<1>2. ASSUME NEW k \in Keys, NEW t \in 0..now, StoreSet(k, t) PROVE Goal
  <2>1. Settled \subseteq Settled'
    BY <1>2, SettledGrows DEF StoreSet
  <2>2. BufferInv'
    BY <1>t, <1>i, <1>2
       DEF BufferInv, CachedIsReachable, Stored, TypeOK, StoreSet
  <2>3. RollupInv'
    BY <1>i, <1>2, <2>1
       DEF RollupInv, RollupPending, Findable, BufferInv, CachedIsReachable,
           Stored, StoreSet, dVars, rVars
  <2>4. DecisionInv'
    BY <1>i, <1>2, <2>1
       DEF DecisionInv, Findable, BufferInv, CachedIsReachable, Stored,
           StoreSet, dVars, rVars
  <2>5. LossAccounted'
    BY <1>i, <1>2, <2>1
       DEF LossAccounted, Held, Stored, StoreSet, evVars, dVars, rVars
  <2> QED
    BY <2>2, <2>3, <2>4, <2>5
<1>3. ASSUME NEW k \in Keys, StoreReject(k) PROVE Goal
  <2>1. Settled \subseteq Settled'
    BY <1>3, SettledGrows DEF StoreReject
  <2>2. BufferInv'
    BY <1>i, <1>3 DEF BufferInv, CachedIsReachable, Stored, StoreReject
  <2>3. RollupInv'
    BY <1>i, <1>3, <2>1
       DEF RollupInv, RollupPending, Findable, StoreReject, dVars, rVars
  <2>4. DecisionInv'
    BY <1>i, <1>3, <2>1 DEF DecisionInv, Findable, StoreReject, dVars, rVars
  <2>5. LossAccounted'
    BY <1>i, <1>3, <2>1
       DEF LossAccounted, Held, Stored, StoreReject, evVars, dVars, rVars
  <2> QED
    BY <2>2, <2>3, <2>4, <2>5
<1>4. ASSUME NEW k \in Keys, StoreIndex(k) PROVE Goal
  <2>1. Settled \subseteq Settled'
    BY <1>4, SettledGrows DEF StoreIndex
  <2>2. BufferInv'
    BY <1>t, <1>i, <1>4, SetIsYoung
       DEF BufferInv, CachedIsReachable, Stored, TypeOK, StoreIndex,
           InOpenWindow, Settled
  <2>3. RollupInv'
    BY <1>t, <1>i, <1>4, <2>1, SetIsYoung
       DEF RollupInv, RollupPending, Findable, TypeOK, StoreIndex, dVars, rVars,
           InOpenWindow, Settled
  <2>4. DecisionInv'
    BY <1>i, <1>4, <2>1, SetIsYoung
       DEF DecisionInv, Findable, StoreIndex, dVars, rVars, InOpenWindow,
           Settled
  <2>5. LossAccounted'
    BY <1>i, <1>4, <2>1, SetIsYoung
       DEF LossAccounted, Held, Stored, StoreIndex, evVars, dVars, rVars,
           InOpenWindow, Settled
  <2> QED
    BY <2>2, <2>3, <2>4, <2>5
<1>5. ASSUME NEW k \in Keys, Evict(k) PROVE Goal
  <2>1. Settled \subseteq Settled'
    BY <1>5, SettledGrows DEF Evict
  <2>2. BufferInv'
    BY <1>i, <1>5 DEF BufferInv, CachedIsReachable, Stored, Evict, Settled
  <2>3. RollupInv'
    BY <1>i, <1>5, <2>1
       DEF RollupInv, RollupPending, Findable, Evict, dVars, rVars, Settled
  <2>4. DecisionInv'
    BY <1>i, <1>5, <2>1 DEF DecisionInv, Findable, Evict, dVars, rVars, Settled
  <2>5. LossAccounted'
    BY <1>i, <1>5, <2>1
       DEF LossAccounted, Held, Stored, Evict, dVars, rVars, Settled
  <2> QED
    BY <2>2, <2>3, <2>4, <2>5
<1>6. ASSUME NEW k \in Keys, ConsumeEvicted(k) PROVE Goal
  <2>1. Settled \subseteq Settled'
    BY <1>6, SettledGrows DEF ConsumeEvicted
  <2>2. BufferInv'
    BY <1>i, <1>6
       DEF BufferInv, CachedIsReachable, Stored, ConsumeEvicted, bufVars
  <2>3. RollupInv'
    BY <1>i, <1>6, <2>1
       DEF RollupInv, RollupPending, Findable, ConsumeEvicted, bufVars, dVars,
           rVars
  <2>4. DecisionInv'
    BY <1>i, <1>6, <2>1
       DEF DecisionInv, Findable, ConsumeEvicted, bufVars, dVars, rVars
  <2>5. LossAccounted'
    BY <1>i, <1>6, <2>1
       DEF LossAccounted, Held, Stored, ConsumeEvicted, bufVars, dVars, rVars
  <2> QED
    BY <2>2, <2>3, <2>4, <2>5
<1>7. ASSUME NEW span \in EventSpans, DecisionBegin(span) PROVE Goal
  <2>1. Settled \subseteq Settled'
    BY <1>7, SettledGrows DEF DecisionBegin
  <2>2. BufferInv'
    BY <1>i, <1>7
       DEF BufferInv, CachedIsReachable, Stored, DecisionBegin, bufVars
  <2>3. RollupInv'
    BY <1>i, <1>7, <2>1
       DEF RollupInv, RollupPending, Findable, DecisionBegin, bufVars, rVars
  <2>4. DecisionInv'
    BY <1>i, <1>7 DEF DecisionInv, Findable, DecisionBegin, bufVars
  <2>5. LossAccounted'
    BY <1>i, <1>7, <2>1
       DEF LossAccounted, Held, Stored, DecisionBegin, bufVars, evVars, rVars
  <2> QED
    BY <2>2, <2>3, <2>4, <2>5
<1>8. ASSUME DecisionGet PROVE Goal
  <2>1. Settled \subseteq Settled'
    BY <1>8, SettledGrows DEF DecisionGet
  <2>2. BufferInv'
    BY <1>i, <1>8 DEF BufferInv, CachedIsReachable, Stored, DecisionGet, bufVars
  <2>3. RollupInv'
    BY <1>i, <1>8, <2>1
       DEF RollupInv, RollupPending, Findable, DecisionGet, bufVars, rVars
  <2>4. DecisionInv'
    BY <1>i, <1>8
       DEF DecisionInv, Findable, DecisionGet, bufVars, GetInRange, InRange,
           OfKind
  <2>5. LossAccounted'
    BY <1>i, <1>8, <2>1
       DEF LossAccounted, Held, Stored, DecisionGet, bufVars, evVars, rVars
  <2> QED
    BY <2>2, <2>3, <2>4, <2>5
<1>9. ASSUME DecisionCollect PROVE Goal
  <2>1. Settled \subseteq Settled'
    BY <1>9, SettledGrows DEF DecisionCollect
  <2>2. BufferInv'
    BY <1>i, <1>9
       DEF BufferInv, CachedIsReachable, Stored, DecisionCollect, bufVars
  <2>3. RollupInv'
    BY <1>i, <1>9, <2>1
       DEF RollupInv, RollupPending, Findable, DecisionCollect, bufVars, rVars
  <2>4. DecisionInv'
    BY <1>t, <1>i, <1>9, <2>1
       DEF DecisionInv, Findable, BufferInv, CachedIsReachable, Stored, TypeOK,
           DecisionCollect, bufVars, InRange, OfKind
  <2>5. LossAccounted'
    BY <1>i, <1>9, <2>1
       DEF LossAccounted, Held, Stored, DecisionCollect, bufVars, evVars, rVars
  <2> QED
    BY <2>2, <2>3, <2>4, <2>5
<1>10. ASSUME DecisionNextKind PROVE Goal
  <2>1. Settled \subseteq Settled'
    BY <1>10, SettledGrows DEF DecisionNextKind
  <2>2. BufferInv'
    BY <1>i, <1>10
       DEF BufferInv, CachedIsReachable, Stored, DecisionNextKind, bufVars
  <2>3. RollupInv'
    BY <1>i, <1>10, <2>1
       DEF RollupInv, RollupPending, Findable, DecisionNextKind, bufVars, rVars
  <2>4. DecisionInv'
    BY <1>i, <1>10 DEF DecisionInv, Findable, DecisionNextKind, bufVars
  <2>5. LossAccounted'
    BY <1>i, <1>10, <2>1
       DEF LossAccounted, Held, Stored, DecisionNextKind, bufVars, evVars, rVars
  <2> QED
    BY <2>2, <2>3, <2>4, <2>5
<1>11. ASSUME NEW k \in Keys, DecisionDelete(k) PROVE Goal
  <2>1. Settled \subseteq Settled'
    BY <1>11, SettledGrows DEF DecisionDelete
  <2>2. BufferInv'
    BY <1>i, <1>11
       DEF BufferInv, CachedIsReachable, Stored, DecisionDelete, CacheDelete
  <2>3. RollupInv'
    BY <1>i, <1>11, <2>1
       DEF RollupInv, RollupPending, Findable, DecisionDelete, rVars,
           CacheDelete
  <2>4. DecisionInv'
    BY <1>i, <1>11, <2>1 DEF DecisionInv, Findable, DecisionDelete, CacheDelete
  <2>5. LossAccounted'
    BY <1>i, <1>11, <2>1
       DEF LossAccounted, Held, Stored, BufferInv, RollupInv, DecisionInv,
           RollupPending, Findable, DecisionDelete, evVars, rVars, CacheDelete
  <2> QED
    BY <2>2, <2>3, <2>4, <2>5
<1>12. ASSUME RollupBegin PROVE Goal
  <2>1. Settled \subseteq Settled'
    BY <1>12, SettledGrows DEF RollupBegin
  <2>2. BufferInv'
    BY <1>i, <1>12
       DEF BufferInv, CachedIsReachable, Stored, RollupBegin, bufVars
  <2>3. RollupInv'
    BY <1>t, <1>i, <1>12, TimesAreNaturals
       DEF RollupInv, RollupPending, Findable, TypeOK, RollupBegin, bufVars
  <2>4. DecisionInv'
    BY <1>i, <1>12, <2>1 DEF DecisionInv, Findable, RollupBegin, bufVars, dVars
  <2>5. LossAccounted'
    BY <1>i, <1>12, <2>1
       DEF LossAccounted, Held, Stored, RollupBegin, bufVars, evVars
  <2> QED
    BY <2>2, <2>3, <2>4, <2>5
<1>13. ASSUME RollupGet PROVE Goal
  <2>1. Settled \subseteq Settled'
    BY <1>13, SettledGrows DEF RollupGet
  <2>2. BufferInv'
    BY <1>i, <1>13 DEF BufferInv, CachedIsReachable, Stored, RollupGet, bufVars
  <2>3. RollupInv'
    BY <1>t, <1>i, <1>13
       DEF RollupInv, RollupPending, Findable, TypeOK, RollupGet, bufVars,
           GetInRange, InRange, OfKind, Kind, Kinds
  <2>4. DecisionInv'
    BY <1>i, <1>13, <2>1 DEF DecisionInv, Findable, RollupGet, bufVars, dVars
  <2>5. LossAccounted'
    BY <1>i, <1>13, <2>1
       DEF LossAccounted, Held, Stored, RollupGet, bufVars, evVars
  <2> QED
    BY <2>2, <2>3, <2>4, <2>5
<1>14. ASSUME RollupDrain PROVE Goal
  <2>1. Settled \subseteq Settled'
    BY <1>14, SettledGrows DEF RollupDrain
  <2>2. BufferInv'
    BY <1>i, <1>14
       DEF BufferInv, CachedIsReachable, Stored, RollupDrain, bufVars
  <2>3. RollupInv'
    BY <1>i, <1>14 DEF RollupInv, RollupPending, Findable, RollupDrain, bufVars
  <2>4. DecisionInv'
    BY <1>i, <1>14, <2>1 DEF DecisionInv, Findable, RollupDrain, bufVars, dVars
  <2>5. LossAccounted'
    BY <1>i, <1>14, <2>1
       DEF LossAccounted, Held, Stored, BufferInv, RollupInv, RollupPending,
           Findable, RollupDrain, bufVars
  <2> QED
    BY <2>2, <2>3, <2>4, <2>5
<1>15. ASSUME RollupCollect PROVE Goal
  <2>1. Settled \subseteq Settled'
    BY <1>15, SettledGrows DEF RollupCollect
  <2>2. BufferInv'
    BY <1>i, <1>15
       DEF BufferInv, CachedIsReachable, Stored, RollupCollect, bufVars
  <2>3. RollupInv'
    BY <1>t, <1>i, <1>15, <2>1
       DEF RollupInv, RollupPending, Findable, BufferInv, CachedIsReachable,
           Stored, TypeOK, RollupCollect, bufVars, InRange, OfKind
  <2>4. DecisionInv'
    BY <1>i, <1>15, <2>1
       DEF DecisionInv, Findable, RollupCollect, bufVars, dVars
  <2>5. LossAccounted'
    BY <1>i, <1>15, <2>1
       DEF LossAccounted, Held, Stored, RollupCollect, bufVars, evVars
  <2> QED
    BY <2>2, <2>3, <2>4, <2>5
<1>16. ASSUME RollupNextKind PROVE Goal
  <2>1. Settled \subseteq Settled'
    BY <1>16, SettledGrows DEF RollupNextKind
  <2>2. BufferInv'
    BY <1>i, <1>16
       DEF BufferInv, CachedIsReachable, Stored, RollupNextKind, bufVars
  <2>3. RollupInv'
    BY <1>t, <1>i, <1>16
       DEF RollupInv, RollupPending, Findable, TypeOK, RollupNextKind, bufVars,
           OfKind, Kind, Kinds
  <2>4. DecisionInv'
    BY <1>i, <1>16, <2>1
       DEF DecisionInv, Findable, RollupNextKind, bufVars, dVars
  <2>5. LossAccounted'
    BY <1>i, <1>16, <2>1
       DEF LossAccounted, Held, Stored, RollupNextKind, bufVars, evVars
  <2> QED
    BY <2>2, <2>3, <2>4, <2>5
<1>17. ASSUME NEW k \in Keys, RollupDelete(k) PROVE Goal
  <2>1. Settled \subseteq Settled'
    BY <1>17, SettledGrows DEF RollupDelete
  <2>2. BufferInv'
    BY <1>i, <1>17
       DEF BufferInv, CachedIsReachable, Stored, RollupDelete, CacheDelete
  <2>3. RollupInv'
    BY <1>i, <1>17, <2>1
       DEF RollupInv, RollupPending, Findable, RollupDelete, CacheDelete
  <2>4. DecisionInv'
    BY <1>i, <1>17, <2>1
       DEF DecisionInv, Findable, RollupDelete, dVars, CacheDelete
  <2>5. LossAccounted'
    BY <1>i, <1>17, <2>1
       DEF LossAccounted, Held, Stored, BufferInv, RollupInv, RollupPending,
           Findable, RollupDelete, evVars, CacheDelete
  <2> QED
    BY <2>2, <2>3, <2>4, <2>5
<1>18. ASSUME NEW ok \in ExportOutcomes, DecisionExport(ok) PROVE Goal
  <2> DEFINE batch == [p \in Paths |-> IF p = "decision" THEN dFetched ELSE {}]
  <2>a. /\ batch \in [Paths -> SUBSET Keys] /\ Export(batch, ok)
        /\ batch["decision"] = dFetched
    BY <1>18, <1>t DEF TypeOK, DecisionExport, Paths
  <2> HIDE DEF batch
  <2>1. Settled \subseteq Settled' /\ dFetched \subseteq Settled'
    BY <1>18, <1>t, <2>a, ExportSettles DEF TypeOK, DecisionExport, Paths
  <2>2. BufferInv'
    BY <1>i, <1>18
       DEF BufferInv, CachedIsReachable, Stored, DecisionExport, bufVars,
           Settled
  <2>3. RollupInv'
    BY <1>i, <1>18, <2>1
       DEF RollupInv, RollupPending, Findable, DecisionExport, bufVars, rVars,
           Settled
  <2>4. DecisionInv'
    BY <1>i, <1>18, <2>1
       DEF DecisionInv, Findable, DecisionExport, bufVars, Settled
  <2>5. LossAccounted'
    BY <1>i, <1>18, <2>1
       DEF LossAccounted, Held, Stored, DecisionExport, bufVars, evVars, rVars,
           Settled
  <2> QED
    BY <2>2, <2>3, <2>4, <2>5
<1>19. ASSUME NEW ok \in ExportOutcomes, RollupExport(ok) PROVE Goal
  <2>1. /\ Settled \subseteq Settled'
        /\ OfKind(rFetched, rKind) \subseteq Settled'
        /\ OfKind(rDrained, rKind) \subseteq Settled'
    <3>1. RollupBatch \in [Paths -> SUBSET Keys] /\ Export(RollupBatch, ok)
      BY <1>19, <1>t, RollupBatchType DEF TypeOK, RollupExport
    <3>2. /\ RollupBatch["rollup"] = OfKind(rFetched, rKind)
          /\ RollupBatch["evicted"] = OfKind(rDrained, rKind)
      BY DEF RollupBatch, Paths
    <3> QED
      BY <1>19, <1>t, <3>1, <3>2, ExportSettles DEF TypeOK, RollupExport, Paths
  <2>2. BufferInv'
    BY <1>i, <1>19
       DEF BufferInv, CachedIsReachable, Stored, RollupExport, bufVars
  <2>3. RollupInv'
    BY <1>i, <1>19, <2>1
       DEF RollupInv, RollupPending, Findable, RollupExport, bufVars, OfKind,
           Kind
  <2>4. DecisionInv'
    BY <1>i, <1>19, <2>1 DEF DecisionInv, Findable, RollupExport, bufVars, dVars
  <2>5. LossAccounted'
    BY <1>i, <1>19, <2>1
       DEF LossAccounted, Held, Stored, RollupExport, bufVars, evVars
  <2> QED
    BY <2>2, <2>3, <2>4, <2>5
<1>20. ASSUME UNCHANGED vars PROVE Goal
  BY <1>20, <1>i
     DEF BufferInv, RollupInv, DecisionInv, LossAccounted, CachedIsReachable,
         Stored, Findable, RollupPending, Held, Settled, Exported, vars,
         bufVars, evVars, dVars, rVars, expVars
<1>21. ASSUME Jam PROVE Goal
  <2>1. Settled' = Settled
    BY <1>21 DEF Settled, Exported, Jam, expVars
  <2>2. BufferInv'
    BY <1>i, <1>21 DEF BufferInv, CachedIsReachable, Stored, Jam, bufVars
  <2>3. RollupInv'
    BY <1>i, <1>21, <2>1
       DEF RollupInv, RollupPending, Findable, Jam, bufVars, rVars
  <2>4. DecisionInv'
    BY <1>i, <1>21, <2>1 DEF DecisionInv, Findable, Jam, bufVars, dVars
  <2>5. LossAccounted'
    BY <1>i, <1>21, <2>1
       DEF LossAccounted, Held, Stored, Jam, bufVars, evVars, rVars
  <2> QED
    BY <2>2, <2>3, <2>4, <2>5
<1>22. Goal
  BY <1>1, <1>2, <1>3, <1>4, <1>5, <1>6, <1>7, <1>8, <1>9, <1>10, <1>11, <1>12,
     <1>13, <1>14, <1>15, <1>16, <1>17, <1>18, <1>19, <1>20, <1>21
     DEF Next, Expire, EvictNoSpace, DecisionStep, RollupStep
<1> QED
  BY <1>t, <1>22 DEF IndInv

\* A signal that Store accepted is held, exported, or lost in one of the three
\* known ways.
THEOREM NoSilentLoss == Spec => []LossAccounted
<1>1. IndInv => LossAccounted
  BY DEF IndInv
<1> QED
  BY <1>1, IndInit, IndStep, PTL DEF Spec

\* A cached signal that is indexed can be found by the range reads, whatever the
\* loops and the cache remove meanwhile.
THEOREM Reachability == Spec => []CachedIsReachable
<1>1. IndInv => CachedIsReachable
  BY DEF IndInv, BufferInv
<1> QED
  BY <1>1, IndInit, IndStep, PTL DEF Spec

-----------------------------------------------------------------------------
(* How a step may change what is known of a signal.                        *)

\* An exporter call takes nothing back that was exported, and exports nothing
\* but its batch.
LEMMA ExportAdds ==
    ASSUME NEW batch \in [Paths -> SUBSET Keys], NEW ok, Export(batch, ok),
           exportedBy \in [Paths -> SUBSET Keys]
    PROVE  /\ Exported \subseteq Exported'
           /\ Exported' \subseteq Exported \cup UNION {batch[p] : p \in Paths}
<1>1. CASE ok
  BY <1>1 DEF Export, Exported
<1>2. CASE ~ok
  BY <1>2 DEF Export, Exported
<1> QED
  BY <1>1, <1>2

\* How one step may change what is known of signal k: Store goes on with it,
\* nothing that was exported is taken back, and nothing comes back that was not
\* held.
Advances(k) ==
    /\ \/ phase'[k] = phase[k]
       \/ phase[k] = "new" /\ phase'[k] = "rejected"
       \/ phase[k] = "new" /\ phase'[k] = "set" /\ k \in cache'
       \/ phase[k] = "set" /\ phase'[k] = "indexed"
    /\ k \in Exported => k \in Exported'
    /\ k \in Exported' => k \in Exported \/ Stored(k)
    /\ k \in Held' => k \in Held \/ (phase[k] = "new" /\ phase'[k] = "set")

\* Every step advances every signal in this sense, and touches accepted signals
\* only.
LEMMA StepAdvances ==
    ASSUME TypeOK, AcceptedFirst, [Next]_vars
    PROVE  AcceptedFirst' /\ \A k \in Keys : Advances(k)
<1> DEFINE Goal == AcceptedFirst' /\ \A k \in Keys : Advances(k)
<1> USE DEF Advances, AcceptedFirst, Held, Stored, TypeOK, Phases
<1>0. (UNCHANGED expVars) => Exported' = Exported
  BY DEF Exported, expVars
<1>1. ASSUME Tick PROVE Goal
  BY <1>0, <1>1 DEF Tick, evVars, dVars, rVars
<1>2. ASSUME NEW j \in Keys, NEW t \in 0..now, StoreSet(j, t) PROVE Goal
  BY <1>0, <1>2 DEF StoreSet, evVars, dVars, rVars
<1>3. ASSUME NEW j \in Keys, StoreReject(j) PROVE Goal
  BY <1>0, <1>3 DEF StoreReject, evVars, dVars, rVars
<1>4. ASSUME NEW j \in Keys, StoreIndex(j) PROVE Goal
  BY <1>0, <1>4 DEF StoreIndex, evVars, dVars, rVars
<1>5. ASSUME NEW j \in Keys, Evict(j) PROVE Goal
  BY <1>0, <1>5 DEF Evict, dVars, rVars
<1>6. ASSUME NEW j \in Keys, ConsumeEvicted(j) PROVE Goal
  BY <1>0, <1>6 DEF ConsumeEvicted, bufVars, dVars, rVars
<1>7. ASSUME NEW span \in EventSpans, DecisionBegin(span) PROVE Goal
  BY <1>0, <1>7 DEF DecisionBegin, bufVars, evVars, rVars
<1>8. ASSUME DecisionGet PROVE Goal
  BY <1>0, <1>8
     DEF DecisionGet, GetInRange, bufVars, evVars, rVars
<1>9. ASSUME DecisionCollect PROVE Goal
  BY <1>0, <1>9 DEF DecisionCollect, bufVars, evVars, rVars
<1>10. ASSUME DecisionNextKind PROVE Goal
  BY <1>0, <1>10 DEF DecisionNextKind, bufVars, evVars, rVars
<1>11. ASSUME NEW j \in Keys, DecisionDelete(j) PROVE Goal
  BY <1>0, <1>11 DEF DecisionDelete, CacheDelete, evVars, rVars
<1>12. ASSUME RollupBegin PROVE Goal
  BY <1>0, <1>12 DEF RollupBegin, bufVars, evVars, dVars
<1>13. ASSUME RollupGet PROVE Goal
  BY <1>0, <1>13 DEF RollupGet, GetInRange, bufVars, evVars, dVars
<1>14. ASSUME RollupDrain PROVE Goal
  BY <1>0, <1>14 DEF RollupDrain, bufVars, dVars
<1>15. ASSUME RollupCollect PROVE Goal
  BY <1>0, <1>15 DEF RollupCollect, bufVars, evVars, dVars
<1>16. ASSUME RollupNextKind PROVE Goal
  BY <1>0, <1>16 DEF RollupNextKind, bufVars, evVars, dVars
<1>17. ASSUME NEW j \in Keys, RollupDelete(j) PROVE Goal
  BY <1>0, <1>17 DEF RollupDelete, CacheDelete, evVars, dVars
<1>18. ASSUME NEW ok \in ExportOutcomes, DecisionExport(ok) PROVE Goal
  <2> DEFINE batch == [p \in Paths |-> IF p = "decision" THEN dFetched ELSE {}]
  <2>1. batch \in [Paths -> SUBSET Keys] /\ Export(batch, ok)
    BY <1>18 DEF DecisionExport
  <2>2. UNION {batch[p] : p \in Paths} \subseteq dFetched
    OBVIOUS
  <2> HIDE DEF batch
  <2>3. /\ Exported \subseteq Exported'
        /\ Exported' \subseteq Exported \cup dFetched
    BY <2>1, <2>2, ExportAdds
  <2> QED
    BY <1>18, <2>3 DEF DecisionExport, bufVars, evVars, rVars
<1>19. ASSUME NEW ok \in ExportOutcomes, RollupExport(ok) PROVE Goal
  <2>1. RollupBatch \in [Paths -> SUBSET Keys] /\ Export(RollupBatch, ok)
    BY <1>19, RollupBatchType DEF RollupExport
  <2>2. UNION {RollupBatch[p] : p \in Paths} \subseteq rFetched \cup rDrained
    BY DEF RollupBatch, OfKind, Paths
  <2>3. /\ Exported \subseteq Exported'
        /\ Exported' \subseteq Exported \cup rFetched \cup rDrained
    BY <2>1, <2>2, ExportAdds
  <2> QED
    BY <1>19, <2>3 DEF RollupExport, bufVars, evVars, dVars
<1>20. ASSUME UNCHANGED vars PROVE Goal
  BY <1>0, <1>20 DEF vars, bufVars, evVars, dVars, rVars
<1>21. ASSUME Jam PROVE Goal
  BY <1>0, <1>21 DEF Jam, bufVars, evVars, dVars, rVars
<1> QED
  BY <1>1, <1>2, <1>3, <1>4, <1>5, <1>6, <1>7, <1>8, <1>9, <1>10, <1>11, <1>12,
     <1>13, <1>14, <1>15, <1>16, <1>17, <1>18, <1>19, <1>20, <1>21
     DEF Next, Expire, EvictNoSpace, DecisionStep, RollupStep

-----------------------------------------------------------------------------
(* At most one export per path.                                            *)

\* An exporter call adds its batch to what the paths have exported, and repeats
\* nothing if no path has exported its part before.
LEMMA ExportPerPath ==
    ASSUME NEW batch \in [Paths -> SUBSET Keys], NEW ok, Export(batch, ok),
           exportedBy \in [Paths -> SUBSET Keys]
    PROVE  /\ \A p \in Paths :
                exportedBy'[p] \subseteq exportedBy[p] \cup batch[p]
           /\ (\A p \in Paths : exportedBy[p] \cap batch[p] = {}) =>
                repeated' = repeated
<1>1. CASE ok
  BY <1>1 DEF Export
<1>2. CASE ~ok
  BY <1>2 DEF Export
<1> QED
  BY <1>1, <1>2

\* What a decision has exported and the cache still has, the removal of the same
\* decision will find or has collected; so no later decision reads it.
DecisionOnce ==
    /\ dFetched \cap exportedBy["decision"] = {}
    /\ \A k \in dFetched :
         /\ dPc = "export" /\ phase[k] = "indexed"
         /\ Kind(k) = dKind /\ dStart <= ts[k] /\ ts[k] <= dEnd
    /\ \A k \in cache \cap exportedBy["decision"] :
         \/ dPc = "collect" /\ Findable(k, dKind, dStart, dEnd)
         \/ dPc = "delete" /\ k \in dTodo

\* The same for what a rollup has read in the buffer.
RollupOnce ==
    /\ rFetched \cap exportedBy["rollup"] = {}
    /\ \A k \in rFetched : /\ RollupPending(Kind(k))
                           /\ phase[k] = "indexed" /\ ts[k] <= rEnd
    /\ \A k \in cache \cap exportedBy["rollup"] :
         \/ rPc = "collect" /\ Findable(k, rKind, ZeroTime, rEnd)
         \/ rPc = "delete" /\ k \in rTodo

\* A signal is handed on from the cache to evictedChan, the consumer loop, the
\* rollup and the exporter, and is at one of them at a time.
EvictedOnce ==
    /\ cache \cap (evictedChan \cup evicted \cup rDrained) = {}
    /\ evictedChan \cap (evicted \cup rDrained) = {}
    /\ evicted \cap rDrained = {}
    /\ exportedBy["evicted"]
         \cap (cache \cup evictedChan \cup evicted \cup rDrained) = {}

\* What a path has exported was accepted by Store.
LEMMA ExportedIsStored ==
    ASSUME AcceptedFirst, NEW p \in Paths, NEW k \in exportedBy[p]
    PROVE  Stored(k)
BY DEF AcceptedFirst, Exported

\* What a decision exports beyond its own path, and what it reads.
LEMMA DecisionExports ==
    ASSUME TypeOK, NEW ok, DecisionExport(ok)
    PROVE  /\ exportedBy'["decision"]
                \subseteq exportedBy["decision"] \cup dFetched
           /\ \A p \in Paths \ {"decision"} :
                exportedBy'[p] \subseteq exportedBy[p]
           /\ dFetched \cap exportedBy["decision"] = {} => repeated' = repeated
<1> DEFINE batch == [p \in Paths |-> IF p = "decision" THEN dFetched ELSE {}]
<1>1. batch \in [Paths -> SUBSET Keys] /\ Export(batch, ok)
  BY DEF TypeOK, DecisionExport
<1>2. /\ batch["decision"] = dFetched
      /\ \A p \in Paths \ {"decision"} : batch[p] = {}
  BY DEF Paths
<1> HIDE DEF batch
<1>3. exportedBy \in [Paths -> SUBSET Keys]
  BY DEF TypeOK
<1> QED
  BY <1>1, <1>2, <1>3, ExportPerPath DEF Paths

\* The two paths of a rollup.
LEMMA RollupExports ==
    ASSUME TypeOK, NEW ok, RollupExport(ok)
    PROVE  /\ exportedBy'["rollup"]
                \subseteq exportedBy["rollup"] \cup OfKind(rFetched, rKind)
           /\ exportedBy'["evicted"]
                \subseteq exportedBy["evicted"] \cup OfKind(rDrained, rKind)
           /\ exportedBy'["decision"] \subseteq exportedBy["decision"]
           /\ /\ rFetched \cap exportedBy["rollup"] = {}
              /\ rDrained \cap exportedBy["evicted"] = {}
              => repeated' = repeated
<1>1. RollupBatch \in [Paths -> SUBSET Keys] /\ Export(RollupBatch, ok)
  BY RollupBatchType DEF TypeOK, RollupExport
<1>2. /\ RollupBatch["rollup"] = OfKind(rFetched, rKind)
      /\ RollupBatch["evicted"] = OfKind(rDrained, rKind)
      /\ RollupBatch["decision"] = {}
  BY DEF RollupBatch, Paths
<1>3. /\ OfKind(rFetched, rKind) \subseteq rFetched
      /\ OfKind(rDrained, rKind) \subseteq rDrained
  BY DEF OfKind
<1>4. exportedBy \in [Paths -> SUBSET Keys]
  BY DEF TypeOK
<1> QED
  BY <1>1, <1>2, <1>3, <1>4, ExportPerPath DEF Paths

\* No decision reads what an earlier one has exported.
LEMMA DecisionOnceStep ==
    IndInv /\ AcceptedFirst /\ DecisionOnce /\ [Next]_vars => DecisionOnce'
<1> SUFFICES ASSUME IndInv, AcceptedFirst, DecisionOnce, [Next]_vars
             PROVE  DecisionOnce'
  OBVIOUS
<1>i. /\ TypeOK /\ BufferInv /\ RollupInv /\ DecisionInv /\ CachedIsReachable
      /\ \A p \in Paths : \A k \in exportedBy[p] : k \in Keys /\ Stored(k)
  BY ExportedIsStored DEF IndInv, BufferInv, TypeOK
<1> USE DEF DecisionOnce, Findable, Paths, TypeOK, BufferInv, Stored,
            CachedIsReachable
<1>1. ASSUME Tick PROVE DecisionOnce'
  BY <1>i, <1>1
     DEF Tick, evVars, dVars, rVars, expVars
<1>2. ASSUME NEW j \in Keys, NEW t \in 0..now, StoreSet(j, t)
      PROVE  DecisionOnce'
  BY <1>i, <1>2
     DEF StoreSet, evVars, dVars, rVars, expVars
<1>3. ASSUME NEW j \in Keys, StoreReject(j) PROVE DecisionOnce'
  BY <1>i, <1>3
     DEF StoreReject, evVars, dVars, rVars, expVars
<1>4. ASSUME NEW j \in Keys, StoreIndex(j) PROVE DecisionOnce'
  BY <1>i, <1>4
     DEF StoreIndex, evVars, dVars, rVars, expVars
<1>5. ASSUME NEW j \in Keys, Evict(j) PROVE DecisionOnce'
  BY <1>i, <1>5
     DEF Evict, dVars, rVars, expVars
<1>6. ASSUME NEW j \in Keys, ConsumeEvicted(j) PROVE DecisionOnce'
  BY <1>i, <1>6
     DEF ConsumeEvicted, bufVars, dVars, rVars, expVars
<1>7. ASSUME NEW span \in EventSpans, DecisionBegin(span) PROVE DecisionOnce'
  BY <1>i, <1>7
     DEF DecisionBegin, bufVars, evVars, rVars, expVars
<1>8. ASSUME DecisionGet PROVE DecisionOnce'
  BY <1>i, <1>8
     DEF DecisionGet, GetInRange, InRange, OfKind, bufVars, evVars, rVars,
         expVars
<1>9. ASSUME DecisionCollect PROVE DecisionOnce'
  BY <1>i, <1>9
     DEF DecisionCollect, InRange, OfKind, bufVars, evVars, rVars, expVars
<1>10. ASSUME DecisionNextKind PROVE DecisionOnce'
  BY <1>i, <1>10
     DEF DecisionNextKind, bufVars, evVars, rVars, expVars
<1>11. ASSUME NEW j \in Keys, DecisionDelete(j) PROVE DecisionOnce'
  BY <1>i, <1>11
     DEF DecisionDelete, CacheDelete, evVars, rVars, expVars
<1>12. ASSUME RollupBegin PROVE DecisionOnce'
  BY <1>i, <1>12
     DEF RollupBegin, bufVars, evVars, dVars, expVars
<1>13. ASSUME RollupGet PROVE DecisionOnce'
  BY <1>i, <1>13
     DEF RollupGet, GetInRange, InRange, OfKind, bufVars, evVars, dVars, expVars
<1>14. ASSUME RollupDrain PROVE DecisionOnce'
  BY <1>i, <1>14
     DEF RollupDrain, bufVars, dVars, expVars
<1>15. ASSUME RollupCollect PROVE DecisionOnce'
  BY <1>i, <1>15
     DEF RollupCollect, InRange, OfKind, bufVars, evVars, dVars, expVars
<1>16. ASSUME RollupNextKind PROVE DecisionOnce'
  BY <1>i, <1>16
     DEF RollupNextKind, bufVars, evVars, dVars, expVars
<1>17. ASSUME NEW j \in Keys, RollupDelete(j) PROVE DecisionOnce'
  BY <1>i, <1>17
     DEF RollupDelete, CacheDelete, evVars, dVars, expVars
<1>18. ASSUME NEW ok \in ExportOutcomes, DecisionExport(ok) PROVE DecisionOnce'
  BY <1>i, <1>18, DecisionExports DEF DecisionExport, bufVars
<1>19. ASSUME NEW ok \in ExportOutcomes, RollupExport(ok) PROVE DecisionOnce'
  BY <1>i, <1>19, RollupExports DEF RollupExport, bufVars, dVars
<1>20. ASSUME UNCHANGED vars PROVE DecisionOnce'
  BY <1>i, <1>20 DEF vars, bufVars, evVars, dVars, rVars, expVars
<1>21. ASSUME Jam PROVE DecisionOnce'
  BY <1>i, <1>21 DEF Jam, bufVars, evVars, dVars, rVars, expVars
<1> QED
  BY <1>1, <1>2, <1>3, <1>4, <1>5, <1>6, <1>7, <1>8, <1>9, <1>10, <1>11, <1>12,
     <1>13, <1>14, <1>15, <1>16, <1>17, <1>18, <1>19, <1>20, <1>21
     DEF Next, Expire, EvictNoSpace, DecisionStep, RollupStep

\* No rollup reads in the buffer what an earlier one has exported.
LEMMA RollupOnceStep ==
    IndInv /\ AcceptedFirst /\ RollupOnce /\ [Next]_vars => RollupOnce'
<1> SUFFICES ASSUME IndInv, AcceptedFirst, RollupOnce, [Next]_vars
             PROVE  RollupOnce'
  OBVIOUS
<1>i. /\ TypeOK /\ BufferInv /\ RollupInv /\ DecisionInv /\ CachedIsReachable
      /\ \A p \in Paths : \A k \in exportedBy[p] : k \in Keys /\ Stored(k)
  BY ExportedIsStored DEF IndInv, BufferInv, TypeOK
<1> USE DEF RollupOnce, RollupInv, RollupPending, Findable, Paths, TypeOK,
            BufferInv, Stored, CachedIsReachable, Kinds, Kind
<1>1. ASSUME Tick PROVE RollupOnce'
  BY <1>i, <1>1, TimesAreNaturals
     DEF Tick, evVars, dVars, rVars, expVars
<1>2. ASSUME NEW j \in Keys, NEW t \in 0..now, StoreSet(j, t) PROVE RollupOnce'
  BY <1>i, <1>2
     DEF StoreSet, evVars, dVars, rVars, expVars
<1>3. ASSUME NEW j \in Keys, StoreReject(j) PROVE RollupOnce'
  BY <1>i, <1>3
     DEF StoreReject, evVars, dVars, rVars, expVars
<1>4. ASSUME NEW j \in Keys, StoreIndex(j) PROVE RollupOnce'
  BY <1>i, <1>4, SetIsYoung
     DEF StoreIndex, evVars, dVars, rVars, expVars
<1>5. ASSUME NEW j \in Keys, Evict(j) PROVE RollupOnce'
  BY <1>i, <1>5
     DEF Evict, dVars, rVars, expVars
<1>6. ASSUME NEW j \in Keys, ConsumeEvicted(j) PROVE RollupOnce'
  BY <1>i, <1>6
     DEF ConsumeEvicted, bufVars, dVars, rVars, expVars
<1>7. ASSUME NEW span \in EventSpans, DecisionBegin(span) PROVE RollupOnce'
  BY <1>i, <1>7
     DEF DecisionBegin, bufVars, evVars, rVars, expVars
<1>8. ASSUME DecisionGet PROVE RollupOnce'
  BY <1>i, <1>8
     DEF DecisionGet, GetInRange, InRange, OfKind, bufVars, evVars, rVars,
         expVars
<1>9. ASSUME DecisionCollect PROVE RollupOnce'
  BY <1>i, <1>9
     DEF DecisionCollect, InRange, OfKind, bufVars, evVars, rVars, expVars
<1>10. ASSUME DecisionNextKind PROVE RollupOnce'
  BY <1>i, <1>10
     DEF DecisionNextKind, bufVars, evVars, rVars, expVars
<1>11. ASSUME NEW j \in Keys, DecisionDelete(j) PROVE RollupOnce'
  BY <1>i, <1>11
     DEF DecisionDelete, CacheDelete, evVars, rVars, expVars
<1>12. ASSUME RollupBegin PROVE RollupOnce'
  BY <1>i, <1>12
     DEF RollupBegin, bufVars, evVars, dVars, expVars
<1>13. ASSUME RollupGet PROVE RollupOnce'
  BY <1>i, <1>13
     DEF RollupGet, GetInRange, InRange, OfKind, bufVars, evVars, dVars, expVars
<1>14. ASSUME RollupDrain PROVE RollupOnce'
  BY <1>i, <1>14
     DEF RollupDrain, bufVars, dVars, expVars
<1>15. ASSUME RollupCollect PROVE RollupOnce'
  BY <1>i, <1>15
     DEF RollupCollect, InRange, OfKind, bufVars, evVars, dVars, expVars
<1>16. ASSUME RollupNextKind PROVE RollupOnce'
  BY <1>i, <1>16
     DEF RollupNextKind, OfKind, bufVars, evVars, dVars, expVars
<1>17. ASSUME NEW j \in Keys, RollupDelete(j) PROVE RollupOnce'
  BY <1>i, <1>17
     DEF RollupDelete, CacheDelete, evVars, dVars, expVars
<1>18. ASSUME NEW ok \in ExportOutcomes, DecisionExport(ok) PROVE RollupOnce'
  BY <1>i, <1>18, DecisionExports DEF DecisionExport, bufVars, rVars
<1>19. ASSUME NEW ok \in ExportOutcomes, RollupExport(ok) PROVE RollupOnce'
  <2>1. exportedBy'["rollup"]
          \subseteq exportedBy["rollup"] \cup OfKind(rFetched, rKind)
    BY <1>i, <1>19, RollupExports
  <2>2. /\ rPc = "export" /\ rPc' = "collect"
        /\ rFetched' = rFetched \ OfKind(rFetched, rKind)
        /\ UNCHANGED <<phase, ts, cache, index, rKind, rEnd>>
    BY <1>19 DEF RollupExport, bufVars
  <2>3. rFetched' \cap exportedBy'["rollup"] = {}
    BY <2>1, <2>2
  <2>4. ASSUME NEW k \in rFetched'
        PROVE  RollupPending(Kind(k))' /\ phase'[k] = "indexed"
               /\ ts'[k] <= rEnd'
    BY <1>i, <2>2, <2>4 DEF OfKind
  <2>5. ASSUME NEW k \in cache' \cap exportedBy'["rollup"]
        PROVE  Findable(k, rKind, ZeroTime, rEnd)'
    <3>1. k \in OfKind(rFetched, rKind)
      BY <2>1, <2>2, <2>5
    <3>2. k \in Keys /\ Kind(k) = rKind /\ k \in index /\ ts[k] <= rEnd
      BY <1>i, <2>2, <2>5, <3>1 DEF OfKind
    <3>3. ZeroTime <= ts[k]
      BY <1>i, <3>2 DEF ZeroTime
    <3> QED
      BY <2>2, <2>5, <3>2, <3>3
  <2> QED
    BY <2>2, <2>3, <2>4, <2>5
<1>20. ASSUME UNCHANGED vars PROVE RollupOnce'
  BY <1>i, <1>20 DEF vars, bufVars, evVars, dVars, rVars, expVars
<1>21. ASSUME Jam PROVE RollupOnce'
  BY <1>i, <1>21 DEF Jam, bufVars, evVars, dVars, rVars, expVars
<1> QED
  BY <1>1, <1>2, <1>3, <1>4, <1>5, <1>6, <1>7, <1>8, <1>9, <1>10, <1>11, <1>12,
     <1>13, <1>14, <1>15, <1>16, <1>17, <1>18, <1>19, <1>20, <1>21
     DEF Next, Expire, EvictNoSpace, DecisionStep, RollupStep

\* Each hand-over of an evicted signal takes it from where it was.
LEMMA EvictedOnceStep ==
    IndInv /\ AcceptedFirst /\ EvictedOnce /\ [Next]_vars => EvictedOnce'
<1> SUFFICES ASSUME IndInv, AcceptedFirst, EvictedOnce, [Next]_vars
             PROVE  EvictedOnce'
  OBVIOUS
<1>i. /\ TypeOK /\ BufferInv /\ RollupInv
      /\ \A k \in Held \cup exportedBy["evicted"] : Stored(k)
  BY ExportedIsStored DEF IndInv, AcceptedFirst, Paths
<1> USE DEF EvictedOnce, Held, Stored, RollupInv
<1>1. ASSUME Tick PROVE EvictedOnce'
  BY <1>i, <1>1
     DEF Tick, evVars, dVars, rVars, expVars
<1>2. ASSUME NEW j \in Keys, NEW t \in 0..now, StoreSet(j, t) PROVE EvictedOnce'
  BY <1>i, <1>2
     DEF StoreSet, evVars, dVars, rVars, expVars
<1>3. ASSUME NEW j \in Keys, StoreReject(j) PROVE EvictedOnce'
  BY <1>i, <1>3
     DEF StoreReject, evVars, dVars, rVars, expVars
<1>4. ASSUME NEW j \in Keys, StoreIndex(j) PROVE EvictedOnce'
  BY <1>i, <1>4
     DEF StoreIndex, evVars, dVars, rVars, expVars
<1>5. ASSUME NEW j \in Keys, Evict(j) PROVE EvictedOnce'
  BY <1>i, <1>5
     DEF Evict, dVars, rVars, expVars
<1>6. ASSUME NEW j \in Keys, ConsumeEvicted(j) PROVE EvictedOnce'
  BY <1>i, <1>6
     DEF ConsumeEvicted, bufVars, dVars, rVars, expVars
<1>7. ASSUME NEW span \in EventSpans, DecisionBegin(span) PROVE EvictedOnce'
  BY <1>i, <1>7
     DEF DecisionBegin, bufVars, evVars, rVars, expVars
<1>8. ASSUME DecisionGet PROVE EvictedOnce'
  BY <1>i, <1>8
     DEF DecisionGet, GetInRange, InRange, OfKind, bufVars, evVars, rVars,
         expVars
<1>9. ASSUME DecisionCollect PROVE EvictedOnce'
  BY <1>i, <1>9
     DEF DecisionCollect, InRange, OfKind, bufVars, evVars, rVars, expVars
<1>10. ASSUME DecisionNextKind PROVE EvictedOnce'
  BY <1>i, <1>10
     DEF DecisionNextKind, bufVars, evVars, rVars, expVars
<1>11. ASSUME NEW j \in Keys, DecisionDelete(j) PROVE EvictedOnce'
  BY <1>i, <1>11
     DEF DecisionDelete, CacheDelete, evVars, rVars, expVars
<1>12. ASSUME RollupBegin PROVE EvictedOnce'
  BY <1>i, <1>12
     DEF RollupBegin, bufVars, evVars, dVars, expVars
<1>13. ASSUME RollupGet PROVE EvictedOnce'
  BY <1>i, <1>13
     DEF RollupGet, GetInRange, InRange, OfKind, bufVars, evVars, dVars, expVars
<1>14. ASSUME RollupDrain PROVE EvictedOnce'
  BY <1>i, <1>14
     DEF RollupDrain, bufVars, dVars, expVars
<1>15. ASSUME RollupCollect PROVE EvictedOnce'
  BY <1>i, <1>15
     DEF RollupCollect, InRange, OfKind, bufVars, evVars, dVars, expVars
<1>16. ASSUME RollupNextKind PROVE EvictedOnce'
  BY <1>i, <1>16
     DEF RollupNextKind, bufVars, evVars, dVars, expVars
<1>17. ASSUME NEW j \in Keys, RollupDelete(j) PROVE EvictedOnce'
  BY <1>i, <1>17
     DEF RollupDelete, CacheDelete, evVars, dVars, expVars
<1>18. ASSUME NEW ok \in ExportOutcomes, DecisionExport(ok) PROVE EvictedOnce'
  BY <1>i, <1>18, DecisionExports
  DEF DecisionExport, Paths, bufVars, evVars, rVars
<1>19. ASSUME NEW ok \in ExportOutcomes, RollupExport(ok) PROVE EvictedOnce'
  BY <1>i, <1>19, RollupExports DEF RollupExport, OfKind, bufVars, evVars
<1>20. ASSUME UNCHANGED vars PROVE EvictedOnce'
  BY <1>i, <1>20 DEF vars, bufVars, evVars, dVars, rVars, expVars
<1>21. ASSUME Jam PROVE EvictedOnce'
  BY <1>i, <1>21 DEF Jam, bufVars, evVars, dVars, rVars, expVars
<1> QED
  BY <1>1, <1>2, <1>3, <1>4, <1>5, <1>6, <1>7, <1>8, <1>9, <1>10, <1>11, <1>12,
     <1>13, <1>14, <1>15, <1>16, <1>17, <1>18, <1>19, <1>20, <1>21
     DEF Next, Expire, EvictNoSpace, DecisionStep, RollupStep

\* What the paths have read and exported, as an inductive invariant.
PathInv == IndInv /\ AcceptedFirst /\ DecisionOnce /\ RollupOnce /\ EvictedOnce

\* At the start nothing is read or exported.
LEMMA PathInit == Init => PathInv
<1> SUFFICES ASSUME Init PROVE PathInv
  OBVIOUS
<1>1. AcceptedFirst
  BY DEF Init, AcceptedFirst, Held, Exported, Paths
<1>2. DecisionOnce /\ RollupOnce /\ EvictedOnce
  BY DEF Init, DecisionOnce, RollupOnce, EvictedOnce, Paths
<1> QED
  BY <1>1, <1>2, IndInit DEF PathInv

\* Every step keeps the invariant of the paths.
LEMMA PathStep == PathInv /\ [Next]_vars => PathInv'
<1> SUFFICES ASSUME PathInv, [Next]_vars PROVE PathInv'
  OBVIOUS
<1>1. IndInv' /\ AcceptedFirst'
  BY IndStep, StepAdvances DEF PathInv, IndInv
<1>2. DecisionOnce' /\ RollupOnce' /\ EvictedOnce'
  BY DecisionOnceStep, RollupOnceStep, EvictedOnceStep DEF PathInv
<1> QED
  BY <1>1, <1>2 DEF PathInv

\* The decision loop, the buffer half and the evicted half of a rollup export a
\* signal at most once each.
THEOREM OncePerPath == Spec => []AtMostOncePerPath
<1> DEFINE Inv == PathInv /\ AtMostOncePerPath
<1>1. Init => Inv
  BY PathInit DEF Init, AtMostOncePerPath
<1>2. Inv /\ [Next]_vars => Inv'
  <2> SUFFICES ASSUME Inv, [Next]_vars PROVE Inv'
    OBVIOUS
  <2>1. repeated' = repeated
    <3>1. ASSUME NEW ok, DecisionExport(ok) PROVE repeated' = repeated
      BY <3>1, DecisionExports DEF PathInv, IndInv, DecisionOnce
    <3>2. ASSUME NEW ok, RollupExport(ok) PROVE repeated' = repeated
      BY <3>2, RollupExports DEF PathInv, IndInv, RollupOnce, EvictedOnce
    <3> QED
      BY <3>1, <3>2
         DEF Next, vars, expVars, Tick, StoreSet, StoreReject, StoreIndex,
             Expire, EvictNoSpace, Evict, ConsumeEvicted, DecisionBegin,
             DecisionStep, DecisionGet, DecisionCollect, DecisionNextKind,
             DecisionDelete, RollupStep, RollupBegin, RollupGet, RollupDrain,
             RollupCollect, RollupNextKind, RollupDelete, Jam
  <2> QED
    BY <2>1, PathStep DEF AtMostOncePerPath
<1>3. Inv => AtMostOncePerPath
  OBVIOUS
<1> QED
  BY <1>1, <1>2, <1>3, PTL DEF Spec

-----------------------------------------------------------------------------
(* The refinement of SignalLedger.                                         *)

Lost == failed \cup overflowed \cup raced

\* One step as the ledger sees it: what the paths read, send and lose.
Reads ==
    /\ dFetched' \subseteq dFetched \cup (cache \ exportedBy["decision"])
    /\ rFetched' \subseteq rFetched \cup (cache \ exportedBy["rollup"])
    /\ rDrained' \subseteq rDrained \cup (evicted \ exportedBy["evicted"])

Sends ==
    \A p \in Paths : /\ exportedBy[p] \subseteq exportedBy'[p]
                     /\ exportedBy'[p] \subseteq exportedBy[p] \cup CopiesOf(p)

Loses ==
    /\ Lost \subseteq Lost'
    /\ Lost' \subseteq Lost \cup cache \cup dFetched \cup rFetched
                       \cup rDrained

\* An exporter call that fails loses nothing but its batch, and one that
\* succeeds takes nothing back.
LEMMA ExportLoses ==
    ASSUME NEW batch \in [Paths -> SUBSET Keys], NEW ok, Export(batch, ok),
           exportedBy \in [Paths -> SUBSET Keys]
    PROVE  /\ \A p \in Paths : exportedBy[p] \subseteq exportedBy'[p]
           /\ failed \subseteq failed'
           /\ failed' \subseteq failed \cup UNION {batch[p] : p \in Paths}
<1>1. CASE ok
  BY <1>1 DEF Export
<1>2. CASE ~ok
  BY <1>2 DEF Export
<1> QED
  BY <1>1, <1>2

\* A decision that exports.
LEMMA DecisionExportSeen ==
    ASSUME TypeOK, NEW ok, DecisionExport(ok)
    PROVE  Reads /\ Sends /\ Loses
<1> DEFINE batch == [p \in Paths |-> IF p = "decision" THEN dFetched ELSE {}]
<1>1. batch \in [Paths -> SUBSET Keys] /\ Export(batch, ok)
  BY DEF TypeOK, DecisionExport
<1>2. UNION {batch[p] : p \in Paths} \subseteq dFetched
  OBVIOUS
<1> HIDE DEF batch
<1>3. exportedBy \in [Paths -> SUBSET Keys]
  BY DEF TypeOK
<1>4. Reads
  BY DEF Reads, DecisionExport, rVars
<1>5. Sends
  BY <1>1, <1>3, ExportLoses, DecisionExports DEF Sends, CopiesOf, Paths
<1>6. failed \subseteq failed' /\ failed' \subseteq failed \cup dFetched
  BY <1>1, <1>2, <1>3, ExportLoses
<1>7. Loses
  BY <1>6 DEF Loses, Lost, DecisionExport
<1> QED
  BY <1>4, <1>5, <1>7

\* A rollup that exports.
LEMMA RollupExportSeen ==
    ASSUME TypeOK, NEW ok, RollupExport(ok)
    PROVE  Reads /\ Sends /\ Loses
<1>1. RollupBatch \in [Paths -> SUBSET Keys] /\ Export(RollupBatch, ok)
  BY RollupBatchType DEF TypeOK, RollupExport
<1>2. UNION {RollupBatch[p] : p \in Paths} \subseteq rFetched \cup rDrained
  BY DEF RollupBatch, OfKind, Paths
<1>3. exportedBy \in [Paths -> SUBSET Keys]
  BY DEF TypeOK
<1>4. Reads
  BY DEF Reads, RollupExport, dVars
<1>5. /\ OfKind(rFetched, rKind) \subseteq rFetched
      /\ OfKind(rDrained, rKind) \subseteq rDrained
  BY DEF OfKind
<1>6. \A p \in Paths : exportedBy[p] \subseteq exportedBy'[p]
  BY <1>1, <1>3, ExportLoses
<1>7. Sends
  BY <1>5, <1>6, RollupExports DEF Sends, CopiesOf, Paths
<1>8. /\ failed \subseteq failed'
      /\ failed' \subseteq failed \cup rFetched \cup rDrained
  BY <1>1, <1>2, <1>3, ExportLoses
<1>9. Loses
  BY <1>8 DEF Loses, Lost, RollupExport
<1> QED
  BY <1>4, <1>7, <1>9

\* Every step reads, sends and loses as the ledger allows: a loop that reads has
\* removed what it exported before.
LEMMA StepSeen ==
    ASSUME PathInv, [Next]_vars
    PROVE  Reads /\ Sends /\ Loses
<1> DEFINE Goal == Reads /\ Sends /\ Loses
<1>t. TypeOK
  BY DEF PathInv, IndInv
<1>1. ASSUME UNCHANGED <<dFetched, rFetched, rDrained, expVars, overflowed,
                         raced>>
      PROVE  Goal
  BY <1>1 DEF Reads, Sends, Loses, Lost, expVars
<1>2. ASSUME NEW k \in Keys, StoreIndex(k) PROVE Goal
  <2>1. raced \subseteq raced' /\ raced' \subseteq raced \cup cache
    BY <1>2 DEF StoreIndex, InOpenWindow
  <2> QED
    BY <1>2, <2>1
       DEF StoreIndex, Reads, Sends, Loses, Lost, dVars, rVars, expVars
<1>3. ASSUME NEW k \in Keys, Evict(k) PROVE Goal
  <2>1. /\ overflowed \subseteq overflowed'
        /\ overflowed' \subseteq overflowed \cup cache
    BY <1>3 DEF Evict
  <2> QED
    BY <1>3, <2>1 DEF Evict, Reads, Sends, Loses, Lost, dVars, rVars, expVars
<1>4. ASSUME DecisionGet PROVE Goal
  <2>1. cache \cap exportedBy["decision"] = {}
    BY <1>4 DEF PathInv, DecisionOnce, DecisionGet
  <2>2. dFetched' \subseteq cache
    BY <1>4 DEF DecisionGet, GetInRange
  <2> QED
    BY <1>4, <2>1, <2>2
       DEF DecisionGet, Reads, Sends, Loses, Lost, rVars, expVars
<1>5. ASSUME RollupGet PROVE Goal
  <2>1. cache \cap exportedBy["rollup"] = {}
    BY <1>5 DEF PathInv, RollupOnce, RollupGet
  <2>2. rFetched' \subseteq rFetched \cup cache
    BY <1>5 DEF RollupGet, GetInRange
  <2> QED
    BY <1>5, <2>1, <2>2
       DEF RollupGet, Reads, Sends, Loses, Lost, dVars, expVars
<1>6. ASSUME RollupDrain PROVE Goal
  <2>1. evicted \cap exportedBy["evicted"] = {}
    BY DEF PathInv, EvictedOnce
  <2> QED
    BY <1>6, <2>1 DEF RollupDrain, Reads, Sends, Loses, Lost, dVars, expVars
<1>7. ASSUME NEW ok, DecisionExport(ok) \/ RollupExport(ok) PROVE Goal
  BY <1>t, <1>7, DecisionExportSeen, RollupExportSeen
<1> DEFINE Quiet == UNCHANGED <<dFetched, rFetched, rDrained, expVars,
                                overflowed, raced>>
<1>8. ASSUME NEW k \in Keys,
             \/ \E t \in 0..now : StoreSet(k, t)
             \/ StoreReject(k) \/ ConsumeEvicted(k)
             \/ DecisionDelete(k) \/ RollupDelete(k)
      PROVE  Quiet
  BY <1>8 DEF dVars, rVars, StoreSet, StoreReject, ConsumeEvicted,
              DecisionDelete, RollupDelete
<1>9. ASSUME \/ Tick \/ Jam \/ UNCHANGED vars
             \/ DecisionCollect \/ DecisionNextKind
             \/ RollupBegin \/ RollupCollect \/ RollupNextKind
      PROVE  Quiet
  BY <1>9 DEF vars, dVars, rVars, Tick, Jam, DecisionCollect, DecisionNextKind,
              RollupBegin, RollupCollect, RollupNextKind
<1>10. ASSUME NEW span, DecisionBegin(span) PROVE Quiet
  BY <1>10 DEF DecisionBegin, rVars
<1>11. Quiet => Goal
  BY <1>1
<1> HIDE DEF Goal, Quiet
<1>12. Goal
  BY <1>2, <1>3, <1>4, <1>5, <1>6, <1>7, <1>8, <1>9, <1>10, <1>11
     DEF Next, DecisionStep, RollupStep, Expire, EvictNoSpace
<1> QED
  BY <1>12 DEF Goal

\* What each custody stands for.
CustodyOK(k) ==
    /\ phase[k] = "new" <=> Custody(k) = "new"
    /\ phase[k] = "rejected" <=> Custody(k) = "dropped"
    /\ Stored(k) /\ k \in Held <=> Custody(k) = "held"
    /\ Stored(k) /\ k \notin Held <=> Custody(k) = "released"
    /\ Custody(k) \in Ledger!Custodies

CustodiesOK == \A k \in Keys : CustodyOK(k)

\* Who has a signal, case by case.
LEMMA CustodyCases == TypeOK => CustodiesOK
<1> SUFFICES ASSUME TypeOK, NEW k \in Keys PROVE CustodyOK(k)
  BY DEF CustodiesOK
<1> USE DEF CustodyOK
<1>1. phase[k] \in {"new", "set", "indexed", "rejected"}
  BY DEF TypeOK, Phases
<1>2. CASE phase[k] = "new"
  BY <1>2 DEF Custody, Stored, Ledger!Custodies
<1>3. CASE phase[k] = "rejected"
  BY <1>3 DEF Custody, Stored, Ledger!Custodies
<1>4. CASE Stored(k) /\ k \in Held
  BY <1>1, <1>4 DEF Custody, Stored, Ledger!Custodies
<1>5. CASE Stored(k) /\ k \notin Held
  BY <1>1, <1>5 DEF Custody, Stored, Ledger!Custodies
<1> QED
  BY <1>1, <1>2, <1>3, <1>4, <1>5 DEF Stored

\* The same after a step.
LEMMA CustodyCasesNext == TypeOK' => CustodiesOK'
BY CustodyCases, PTL

\* An advance is a move of the ledger: a signal leaves the node with an export
\* or a known loss only, and never comes back.
LEMMA AdvanceMoves ==
    ASSUME TypeOK, TypeOK', LossAccounted', NEW k \in Keys, Advances(k)
    PROVE  /\ \/ Custody(k)' = Custody(k)
              \/ <<Custody(k), Custody(k)'>> \in Ledger!Moves
           /\ Custody(k) = "held" /\ Custody(k)' = "released"
                => k \in Exported' \/ k \in Lost'
<1>1. CustodyOK(k)
  BY CustodyCases DEF CustodiesOK
<1>2. CustodyOK(k)'
  BY CustodyCasesNext DEF CustodiesOK
<1>3. Stored(k)' /\ k \notin Held' => k \in Exported' \/ k \in Lost'
  BY DEF LossAccounted, Settled, Lost
<1>4. /\ \/ phase'[k] = phase[k]
         \/ phase[k] = "new" /\ phase'[k] = "rejected"
         \/ phase[k] = "new" /\ phase'[k] = "set" /\ k \in cache'
         \/ phase[k] = "set" /\ phase'[k] = "indexed"
      /\ k \in Held' => k \in Held \/ phase[k] = "new"
  BY DEF Advances
<1>5. k \in cache' => k \in Held'
  BY DEF Held
<1> QED
  BY <1>1, <1>2, <1>3, <1>4, <1>5
     DEF CustodyOK, Stored, Ledger!Moves, Ledger!Custodies

\* Buffer, cache, handlers and loops keep the promise of the ledger: what left
\* the node stays away, and each path exports what it has read and not sent.
THEOREM Refinement == Spec => ImplementsLedger
<1>1. Init => Ledger!Init
  <2> SUFFICES ASSUME Init PROVE Ledger!Init
    OBVIOUS
  <2>1. \A k \in Keys : Custody(k) = "new"
    BY DEF Init, Custody, Stored
  <2>2. \A p \in Paths : CopiesOf(p) = {}
    BY DEF Init, CopiesOf, Paths
  <2> QED
    BY <2>1, <2>2 DEF Init, Ledger!Init
<1>2. PathInv /\ PathInv' /\ [Next]_vars => Ledger!Next
  <2> SUFFICES ASSUME PathInv, PathInv', [Next]_vars PROVE Ledger!Next
    OBVIOUS
  <2>1. /\ TypeOK /\ TypeOK' /\ LossAccounted' /\ AcceptedFirst
        /\ \A k \in Keys : Advances(k)
    BY StepAdvances DEF PathInv, IndInv
  <2>2. Reads /\ Sends /\ Loses
    BY StepSeen
  <2>3. \A k \in Keys : Custody(k)' \in Ledger!Custodies
    BY <2>1, CustodyCasesNext DEF CustodiesOK, CustodyOK
  <2>4. \A p \in Paths : CopiesOf(p)' \in SUBSET Keys
    BY <2>1 DEF TypeOK, CopiesOf, Paths
  <2>5. exportedBy' \in [Paths -> SUBSET Keys]
    BY <2>1 DEF TypeOK
  <2>6. Ledger!Sent' = Exported' /\ Lost' = (failed \cup overflowed \cup raced)'
    BY DEF Ledger!Sent, Exported, Lost
  <2>7. \A k \in Keys : Ledger!Move(k)
    BY <2>1, <2>6, AdvanceMoves DEF Ledger!Move
  <2>8. cache \cup evicted \subseteq Ledger!Holding
    BY <2>1, CustodyCases
       DEF CustodiesOK, CustodyOK, Ledger!Holding, AcceptedFirst, Held, TypeOK
  <2>9. \A p \in Paths : Ledger!Send(p)
    BY <2>2, <2>8 DEF Ledger!Send, Reads, Sends, CopiesOf, Paths
  <2>10. dFetched \cup rFetched \cup rDrained \subseteq Ledger!Copied
    BY DEF Ledger!Copied, CopiesOf, Paths
  <2>11. /\ Lost \subseteq Lost'
         /\ Lost' \subseteq Lost \cup Ledger!Holding \cup Ledger!Copied
    BY <2>2, <2>8, <2>10 DEF Loses
  <2> QED
    BY <2>3, <2>4, <2>5, <2>7, <2>9, <2>11 DEF Ledger!Next, Lost
<1> QED
  BY <1>1, <1>2, PathInit, PathStep, PTL DEF Spec, ImplementsLedger, Ledger!Spec

-----------------------------------------------------------------------------
(* Index entries whose payload is gone.                                    *)

\* An evicted signal is handed on, exported or lost, and never forgotten.
LEMMA EvictedEverGrows ==
    ASSUME TypeOK, RollupInv, [Next]_vars
    PROVE  EvictedEver \subseteq EvictedEver'
<1> DEFINE Goal == EvictedEver \subseteq EvictedEver'
           Quiet == UNCHANGED <<evictedChan, evicted, rDrained, exportedBy,
                                failed, overflowed>>
<1>1. ASSUME NEW k, Evict(k) \/ ConsumeEvicted(k) PROVE Goal
  BY <1>1 DEF EvictedEver, Evict, ConsumeEvicted, rVars, expVars
<1>2. ASSUME RollupDrain PROVE Goal
  <2>1. rDrained = {}
    BY <1>2 DEF RollupInv, RollupDrain
  <2> QED
    BY <1>2, <2>1 DEF EvictedEver, RollupDrain, expVars
<1>3. ASSUME NEW ok, DecisionExport(ok) PROVE Goal
  <2>1. exportedBy["evicted"] \subseteq exportedBy'["evicted"]
    BY <1>3, DecisionExportSeen DEF Sends, Paths
  <2>2. failed \subseteq failed'
    BY <1>3 DEF DecisionExport, Export
  <2> QED
    BY <1>3, <2>1, <2>2 DEF EvictedEver, DecisionExport, evVars, rVars
<1>4. ASSUME NEW ok, RollupExport(ok) PROVE Goal
  <2>1. exportedBy["evicted"] \subseteq exportedBy'["evicted"]
    BY <1>4, RollupExportSeen DEF Sends, Paths
  <2>2. RollupBatch["evicted"] = OfKind(rDrained, rKind)
    BY DEF RollupBatch, Paths
  <2>3. /\ failed \subseteq failed'
        /\ OfKind(rDrained, rKind) \subseteq exportedBy'["evicted"] \cup failed'
    <3>1. CASE ok
      BY <1>4, <2>2, <3>1 DEF RollupExport, Export, Paths
    <3>2. CASE ~ok
      BY <1>4, <2>2, <3>2 DEF RollupExport, Export, Paths
    <3> QED
      BY <3>1, <3>2
  <2>4. rDrained \subseteq rDrained' \cup OfKind(rDrained, rKind)
    BY <1>4 DEF RollupExport
  <2> QED
    BY <1>4, <2>1, <2>3, <2>4 DEF EvictedEver, RollupExport, evVars
<1>5. Quiet => Goal
  BY DEF EvictedEver
<1>6. ASSUME NEW k \in Keys,
             \/ \E t \in 0..now : StoreSet(k, t)
             \/ StoreReject(k) \/ StoreIndex(k)
             \/ DecisionDelete(k) \/ RollupDelete(k)
      PROVE  Quiet
  BY <1>6 DEF evVars, rVars, expVars, StoreSet, StoreReject, StoreIndex,
              DecisionDelete, RollupDelete
<1>7. ASSUME \/ Tick \/ Jam \/ UNCHANGED vars
             \/ DecisionGet \/ DecisionCollect \/ DecisionNextKind
             \/ RollupBegin \/ RollupGet \/ RollupCollect \/ RollupNextKind
      PROVE  Quiet
  BY <1>7 DEF vars, evVars, rVars, expVars, Tick, Jam, DecisionGet,
              DecisionCollect, DecisionNextKind, RollupBegin, RollupGet,
              RollupCollect, RollupNextKind
<1>8. ASSUME NEW span, DecisionBegin(span) PROVE Quiet
  BY <1>8 DEF DecisionBegin, evVars, rVars, expVars
<1> HIDE DEF Goal, Quiet
<1>9. Goal
  BY <1>1, <1>2, <1>3, <1>4, <1>5, <1>6, <1>7, <1>8
     DEF Next, DecisionStep, RollupStep, Expire, EvictNoSpace
<1> QED
  BY <1>9 DEF Goal

\* Only an eviction takes the payload of a signal that is not indexed yet.
LEMMA StaleStep == IndInv /\ StaleInv /\ [Next]_vars => StaleInv'
<1> SUFFICES ASSUME IndInv, StaleInv, [Next]_vars PROVE StaleInv'
  OBVIOUS
<1>t. TypeOK /\ DecisionInv /\ RollupInv
  BY DEF IndInv
<1>g. EvictedEver \subseteq EvictedEver'
  BY <1>t, EvictedEverGrows
<1> DEFINE Quiet == UNCHANGED <<cache, index, phase>>
<1>1. ASSUME NEW k \in Keys, NEW t, StoreSet(k, t) PROVE StaleInv'
  BY <1>t, <1>g, <1>1 DEF StaleInv, StoreSet, TypeOK
<1>2. ASSUME NEW k \in Keys, StoreReject(k) PROVE StaleInv'
  BY <1>t, <1>g, <1>2 DEF StaleInv, StoreReject, TypeOK
<1>3. ASSUME NEW k \in Keys, StoreIndex(k) PROVE StaleInv'
  BY <1>t, <1>g, <1>3 DEF StaleInv, StoreIndex, TypeOK
<1>4. ASSUME NEW k \in Keys, Evict(k) PROVE StaleInv'
  <2>1. k \in EvictedEver'
    BY <1>4 DEF Evict, EvictedEver
  <2> QED
    BY <1>g, <1>4, <2>1 DEF StaleInv, Evict
<1>5. ASSUME NEW k \in Keys, DecisionDelete(k) \/ RollupDelete(k)
      PROVE  StaleInv'
  <2>1. CacheDelete(k) /\ phase' = phase /\ phase[k] = "indexed"
    BY <1>t, <1>5 DEF DecisionDelete, RollupDelete, DecisionInv, RollupInv
  <2> QED
    BY <1>g, <2>1 DEF StaleInv, CacheDelete
<1>6. Quiet => StaleInv'
  BY <1>g DEF StaleInv
<1>7. ASSUME NEW k, NEW ok,
             ConsumeEvicted(k) \/ DecisionExport(ok) \/ RollupExport(ok)
      PROVE  Quiet
  BY <1>7 DEF bufVars, ConsumeEvicted, DecisionExport, RollupExport
<1>8. ASSUME \/ Tick \/ Jam \/ UNCHANGED vars
             \/ DecisionGet \/ DecisionCollect \/ DecisionNextKind
             \/ RollupBegin \/ RollupGet \/ RollupDrain \/ RollupCollect
             \/ RollupNextKind
      PROVE  Quiet
  BY <1>8 DEF vars, bufVars, Tick, Jam, DecisionGet, DecisionCollect,
              DecisionNextKind, RollupBegin, RollupGet, RollupDrain,
              RollupCollect, RollupNextKind
<1>9. ASSUME NEW span, DecisionBegin(span) PROVE Quiet
  BY <1>9 DEF DecisionBegin, bufVars
<1> HIDE DEF Quiet
<1> QED
  BY <1>1, <1>2, <1>3, <1>4, <1>5, <1>6, <1>7, <1>8, <1>9
     DEF Next, DecisionStep, RollupStep, Expire, EvictNoSpace

\* An index entry without a payload belongs to a signal that the cache evicted:
\* the removals of both loops leave none behind.
THEOREM NoStaleEntryByRemoval == Spec => []StaleEntryWasEvicted
<1> DEFINE Inv == IndInv /\ StaleInv
<1>1. Init => Inv
  BY IndInit DEF Init, StaleInv
<1>2. Inv /\ [Next]_vars => Inv'
  BY IndStep, StaleStep
<1>3. Inv => StaleEntryWasEvicted
  BY DEF IndInv, TypeOK, StaleInv, StaleEntryWasEvicted
<1> QED
  BY <1>1, <1>2, <1>3, PTL DEF Spec

-----------------------------------------------------------------------------
(* The buffer's part, and the abstract buffer that BufferLocks implements. *)

\* The range reads are left out: the loops read more often than once.
Buffer == INSTANCE AtomicBuffer WITH Readers <- {}, read <- {},
                                     found   <- [r \in {} |-> {}],
                                     pending <- {k \in Keys : phase[k] = "set"}

\* What handlers, evictions and both loops do to cache and index are steps of
\* the abstract buffer, which the locks make atomic: a key is set and then
\* indexed once only, and it leaves cache and index together.
THEOREM BufferSteps == Spec => Buffer!Spec
<1>1. Init => Buffer!Init
  BY DEF Init, Buffer!Init
<1>2. IndInv /\ [Next]_vars => [Buffer!Next]_(Buffer!vars)
  <2> DEFINE Pending == {k \in Keys : phase[k] = "set"}
             Simulated == [Buffer!Next]_(Buffer!vars)
  <2> SUFFICES ASSUME IndInv, [Next]_vars PROVE Simulated
    OBVIOUS
  <2>1. ASSUME UNCHANGED <<cache, index, Pending>> PROVE Simulated
    BY <2>1 DEF Buffer!vars
  <2>2. ASSUME UNCHANGED <<cache, index, phase>> PROVE Simulated
    BY <2>1, <2>2
  <2>3. ASSUME NEW k \in Keys, NEW t, StoreSet(k, t) PROVE Simulated
    <3>1. phase[k] = "new" /\ phase' = [phase EXCEPT ![k] = "set"]
      BY <2>3 DEF StoreSet
    <3>2. Pending' = Pending \cup {k} /\ k \notin Pending
      BY <3>1 DEF IndInv, TypeOK
    <3>3. k \notin cache /\ k \notin index
      BY <3>1 DEF IndInv, BufferInv, Stored
    <3>4. cache' = cache \cup {k} /\ index' = index
      BY <2>3 DEF StoreSet
    <3> QED
      BY <3>2, <3>3, <3>4 DEF Buffer!Set, Buffer!Next
  <2>4. ASSUME NEW k \in Keys, StoreIndex(k) PROVE Simulated
    <3>1. phase[k] = "set" /\ phase' = [phase EXCEPT ![k] = "indexed"]
      BY <2>4 DEF StoreIndex
    <3>2. Pending' = Pending \ {k} /\ k \in Pending
      BY <3>1 DEF IndInv, TypeOK
    <3> QED
      BY <2>4, <3>2 DEF StoreIndex, Buffer!Index, Buffer!Next
  <2>5. ASSUME NEW k \in Keys, Evict(k) PROVE Simulated
    BY <2>5 DEF Evict, Buffer!Remove, Buffer!Next
  <2>6. ASSUME NEW k \in Keys, StoreReject(k) PROVE Simulated
    <3>1. Pending' = Pending
      BY <2>6 DEF StoreReject, IndInv, TypeOK
    <3> QED
      BY <2>1, <2>6, <3>1 DEF StoreReject
  <2>7. ASSUME NEW k \in Keys, DecisionDelete(k) \/ RollupDelete(k)
        PROVE  Simulated
    <3>1. CacheDelete(k) /\ phase' = phase
      BY <2>7 DEF DecisionDelete, RollupDelete
    <3>2. CASE k \in cache
      BY <3>1, <3>2 DEF CacheDelete, Buffer!Remove, Buffer!Next
    <3>3. CASE k \notin cache
      BY <2>2, <3>1, <3>3 DEF CacheDelete
    <3> QED
      BY <3>2, <3>3
  <2> HIDE DEF Pending, Simulated
  <2>8. CASE \E k \in Keys : \/ \E t \in 0..now : StoreSet(k, t)
                             \/ StoreReject(k) \/ StoreIndex(k)
                             \/ Expire(k) \/ EvictNoSpace(k)
                             \/ DecisionDelete(k) \/ RollupDelete(k)
    BY <2>3, <2>4, <2>5, <2>6, <2>7, <2>8 DEF Expire, EvictNoSpace
  <2> QED
    BY <2>2, <2>8
       DEF Next, vars, bufVars, Tick, ConsumeEvicted, DecisionBegin,
           DecisionStep, DecisionGet, DecisionExport, DecisionCollect,
           DecisionNextKind, RollupStep, RollupBegin, RollupGet, RollupDrain,
           RollupExport, RollupCollect, RollupNextKind, Jam
<1> QED
  BY <1>1, <1>2, IndInit, IndStep, PTL DEF Spec, Buffer!Spec
=============================================================================
