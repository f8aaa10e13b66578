-------------------------- MODULE TraceStoreProofs --------------------------
(***************************************************************************)
(* Proofs about TraceStore, for any number of batches and of decisions:    *)
(* a span batch is lost, or exported a second time, only because handlers  *)
(* of its trace, or a handler and the decision loop, overlapped.           *)
(***************************************************************************)
EXTENDS TraceStore, TLAPS

\* A buffer without the trace has the right types.
LEMMA TypeInit == Init => TypeOK
BY MaxDecisionsAssumption DEF Init, TypeOK

\* Every step of the handlers, the cache and the decision loop keeps the types.
LEMMA TypeStep == TypeOK /\ [Next]_vars => TypeOK'
<1> SUFFICES ASSUME TypeOK, [Next]_vars PROVE TypeOK'
  OBVIOUS
<1> USE DEF TypeOK, handlerVars, loopVars, exportVars, lossVars
<1>1. ASSUME NEW b \in Batches, HandlerGet(b) PROVE TypeOK'
  BY <1>1 DEF HandlerGet
<1>2. ASSUME NEW b \in Batches, HandlerSet(b) PROVE TypeOK'
  BY <1>2 DEF HandlerSet, HandlerEnd
<1>3. ASSUME NEW b \in Batches, HandlerSetTooBig(b) PROVE TypeOK'
  BY <1>3 DEF HandlerSetTooBig, HandlerEnd
<1>4. CASE Evict
  BY <1>4 DEF Evict
<1>5. CASE DecisionBegin
  BY <1>5, MaxDecisionsAssumption DEF DecisionBegin
<1>6. CASE GetTrace
  BY <1>6 DEF GetTrace
<1>7. ASSUME NEW ok \in ExportOutcomes, ExportTrace(ok) PROVE TypeOK'
  BY <1>7 DEF ExportTrace, Export, Batches
<1>8. CASE RemoveTrace
  <2>1. UNION {copy[b] : b \in Between} \subseteq Batches
    BY DEF Between
  <2> QED
    BY <1>8, <2>1 DEF RemoveTrace
<1>9. CASE GetTraceLogs
  BY <1>9 DEF GetTraceLogs
<1>10. ASSUME NEW ok \in ExportOutcomes, ExportLogs(ok) PROVE TypeOK'
  BY <1>10 DEF ExportLogs, Export, Batches
<1>11. CASE UNCHANGED vars
  BY <1>11 DEF vars
<1> QED
  BY <1>1, <1>2, <1>3, <1>4, <1>5, <1>6, <1>7, <1>8, <1>9, <1>10, <1>11 DEF Next

\* The entry, the copies and the decision loop hold batches of this trace, and
\* the loop holds spans and logs only while it is to export them.
THEOREM TypeCorrect == Spec => []TypeOK
BY TypeInit, TypeStep, PTL DEF Spec

-----------------------------------------------------------------------------
(* No loss without an overlap.                                             *)

\* A span batch that nothing has happened to yet: it was merged while no other
\* handler and no export was under way, and has neither been exported nor been
\* removed by the cache.
Secure(b) ==
    /\ Done(b)
    /\ b \notin overlapped \cup raced
    /\ b \notin exported \cup failed \cup evicted \cup refused

\* Such a batch is in the entry and in every copy of it that is about to be
\* written back; an export in progress includes it, so that none is left when
\* the entry is removed.
LossInv ==
    \A b \in SpanBatches : Secure(b) =>
      /\ b \in entry
      /\ \A c \in Between : b \in copy[c]
      /\ dPc = "export" => b \in dSpans
      /\ dPc # "remove"

\* No step takes a secure batch out of the entry or out of a copy.
LEMMA LossStep == TypeOK /\ LossInv /\ [Next]_vars => LossInv'
<1> SUFFICES ASSUME TypeOK, LossInv, [Next]_vars, NEW a \in SpanBatches,
                    Secure(a)'
             PROVE  /\ a \in entry'
                    /\ \A c \in Between' : a \in copy'[c]
                    /\ dPc' = "export" => a \in dSpans'
                    /\ dPc' # "remove"
  BY DEF LossInv
<1> DEFINE Goal == /\ a \in entry'
                   /\ \A c \in Between' : a \in copy'[c]
                   /\ dPc' = "export" => a \in dSpans'
                   /\ dPc' # "remove"
<1>a. a \in Batches
  BY DEF Batches
<1> USE <1>a DEF TypeOK, LossInv, Secure, Done, Between, handlerVars, loopVars,
                 exportVars, lossVars
<1>1. ASSUME NEW b \in Batches, HandlerGet(b) PROVE Goal
  BY <1>1 DEF HandlerGet
<1>2. ASSUME NEW b \in Batches, HandlerSet(b) PROVE Goal
  <2>1. CASE a = b
    <3>1. a \notin overlapped' /\ a \notin raced'
      OBVIOUS
    <3>2. Between = {b}
      BY <1>2, <2>1, <3>1 DEF HandlerSet
    <3>3. dPc \notin {"export", "remove"}
      BY <1>2, <2>1, <3>1 DEF HandlerSet
    <3>4. Between' = {}
      BY <1>2, <3>2 DEF HandlerSet, HandlerEnd
    <3> QED
      BY <1>2, <2>1, <3>3, <3>4 DEF HandlerSet
  <2>2. CASE a # b
    BY <1>2, <2>2 DEF HandlerSet, HandlerEnd
  <2> QED
    BY <2>1, <2>2
<1>3. ASSUME NEW b \in Batches, HandlerSetTooBig(b) PROVE Goal
  BY <1>3 DEF HandlerSetTooBig, HandlerEnd
<1>4. CASE Evict
  BY <1>4 DEF Evict
<1>5. CASE DecisionBegin
  BY <1>5 DEF DecisionBegin
<1>6. CASE GetTrace
  BY <1>6 DEF GetTrace
<1>7. ASSUME NEW ok \in ExportOutcomes, ExportTrace(ok) PROVE Goal
  BY <1>7 DEF ExportTrace, Export
<1>8. CASE RemoveTrace
  BY <1>8 DEF RemoveTrace
<1>9. CASE GetTraceLogs
  BY <1>9 DEF GetTraceLogs
<1>10. ASSUME NEW ok \in ExportOutcomes, ExportLogs(ok) PROVE Goal
  BY <1>10 DEF ExportLogs, Export
<1>11. CASE UNCHANGED vars
  BY <1>11 DEF vars
<1> QED
  BY <1>1, <1>2, <1>3, <1>4, <1>5, <1>6, <1>7, <1>8, <1>9, <1>10, <1>11 DEF Next

\* A span batch that Store accepted is in the entry until it is exported or the
\* cache removes it, except where a merge overlapped another or an export.
THEOREM NoOtherLoss == Spec => []SpanLossNeedsOverlap
<1>1. Init => LossInv
  BY DEF Init, LossInv, Secure, Done, Batches
<1>2. LossInv => SpanLossNeedsOverlap
  BY DEF LossInv, SpanLossNeedsOverlap, Secure, Settled
<1> QED
  BY <1>1, <1>2, TypeInit, TypeStep, LossStep, PTL DEF Spec

-----------------------------------------------------------------------------
(* No second export without a revival.                                     *)

\* Everything that is held anywhere was merged by a handler that has returned.
HeldIsDone ==
    /\ \A b \in entry \cup dSpans \cup dLogs \cup exported : Done(b)
    /\ \A c \in Between : \A b \in copy[c] : Done(b)

\* Spans that were exported are in the entry, or in a copy of it that may be
\* written back, only until the removal that follows, or because a handler held
\* a copy over that removal.
RevivalInv ==
    /\ dPc # "remove" =>
         /\ \A b \in entry \cap exported \cap SpanBatches : b \in revived
         /\ \A c \in Between : copy[c] \cap exported \cap SpanBatches
                                 \subseteq revived
    /\ dSpans \cap exported \subseteq revived
    /\ SecondExportNeedsRevival

\* A handler adds its own batch as it returns; all else is passed on.
LEMMA HeldStep == TypeOK /\ HeldIsDone /\ [Next]_vars => HeldIsDone'
<1> SUFFICES ASSUME TypeOK, HeldIsDone, [Next]_vars PROVE HeldIsDone'
  OBVIOUS
<1> USE DEF TypeOK, HeldIsDone, Done, Between, handlerVars, loopVars,
            exportVars, lossVars
<1>1. ASSUME NEW b \in Batches, HandlerGet(b) PROVE HeldIsDone'
  BY <1>1 DEF HandlerGet
<1>2. ASSUME NEW b \in Batches, HandlerSet(b) PROVE HeldIsDone'
  BY <1>2 DEF HandlerSet, HandlerEnd
<1>3. ASSUME NEW b \in Batches, HandlerSetTooBig(b) PROVE HeldIsDone'
  BY <1>3 DEF HandlerSetTooBig, HandlerEnd
<1>4. CASE Evict
  BY <1>4 DEF Evict
<1>5. CASE DecisionBegin
  BY <1>5 DEF DecisionBegin
<1>6. CASE GetTrace
  BY <1>6 DEF GetTrace
<1>7. ASSUME NEW ok \in ExportOutcomes, ExportTrace(ok) PROVE HeldIsDone'
  BY <1>7 DEF ExportTrace, Export
<1>8. CASE RemoveTrace
  BY <1>8 DEF RemoveTrace
<1>9. CASE GetTraceLogs
  BY <1>9 DEF GetTraceLogs
<1>10. ASSUME NEW ok \in ExportOutcomes, ExportLogs(ok) PROVE HeldIsDone'
  BY <1>10 DEF ExportLogs, Export
<1>11. CASE UNCHANGED vars
  BY <1>11 DEF vars
<1> QED
  BY <1>1, <1>2, <1>3, <1>4, <1>5, <1>6, <1>7, <1>8, <1>9, <1>10, <1>11 DEF Next

\* An exported span batch survives the removal in a handler's copy only.
LEMMA RevivalStep ==
    TypeOK /\ HeldIsDone /\ RevivalInv /\ [Next]_vars => RevivalInv'
<1> SUFFICES ASSUME TypeOK, HeldIsDone, RevivalInv, [Next]_vars
             PROVE  RevivalInv'
  OBVIOUS
<1> USE DEF TypeOK, RevivalInv, SecondExportNeedsRevival, Between, handlerVars,
            loopVars, exportVars, lossVars
<1>1. ASSUME NEW b \in Batches, HandlerGet(b) PROVE RevivalInv'
  BY <1>1 DEF HandlerGet
<1>2. ASSUME NEW b \in Batches, HandlerSet(b) PROVE RevivalInv'
  <2>1. b \notin exported
    BY <1>2 DEF HandlerSet, HeldIsDone, Done
  <2> QED
    BY <1>2, <2>1 DEF HandlerSet, HandlerEnd
<1>3. ASSUME NEW b \in Batches, HandlerSetTooBig(b) PROVE RevivalInv'
  BY <1>3 DEF HandlerSetTooBig, HandlerEnd
<1>4. CASE Evict
  BY <1>4 DEF Evict
<1>5. CASE DecisionBegin
  BY <1>5 DEF DecisionBegin
<1>6. CASE GetTrace
  BY <1>6 DEF GetTrace
<1>7. ASSUME NEW ok \in ExportOutcomes, ExportTrace(ok) PROVE RevivalInv'
  BY <1>7 DEF ExportTrace, Export
<1>8. CASE RemoveTrace
  BY <1>8 DEF RemoveTrace
<1>9. CASE GetTraceLogs
  BY <1>9 DEF GetTraceLogs
<1>10. ASSUME NEW ok \in ExportOutcomes, ExportLogs(ok) PROVE RevivalInv'
  BY <1>10, BatchesDisjoint DEF ExportLogs, Export
<1>11. CASE UNCHANGED vars
  BY <1>11 DEF vars
<1> QED
  BY <1>1, <1>2, <1>3, <1>4, <1>5, <1>6, <1>7, <1>8, <1>9, <1>10, <1>11 DEF Next

\* A span batch goes out a second time only if a handler held a copy of it while
\* RemoveTrace deleted the entry.
THEOREM NoOtherRepeat == Spec => []SecondExportNeedsRevival
<1>1. Init => HeldIsDone /\ RevivalInv
  BY DEF Init, HeldIsDone, RevivalInv, SecondExportNeedsRevival, Between
<1>2. RevivalInv => SecondExportNeedsRevival
  BY DEF RevivalInv
<1> QED
  BY <1>1, <1>2, TypeInit, TypeStep, HeldStep, RevivalStep, PTL DEF Spec
=============================================================================
