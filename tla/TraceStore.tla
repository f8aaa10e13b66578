----------------------------- MODULE TraceStore -----------------------------
(***************************************************************************)
(* The entry of one trace in the buffer (internal/buffer/buffer.go): span  *)
(* batches and trace-bound log batches of concurrent handlers are merged   *)
(* into it by a cache.Get and a later cache.Set, with no lock over both,   *)
(* while processDecision (internal/processor/processor.go) reads, exports  *)
(* and deletes it.  Entries of different traces share nothing but the      *)
(* space of the cache, so one trace is enough.                             *)
(***************************************************************************)
EXTENDS Naturals, FiniteSets

CONSTANTS
    SpanBatches, LogBatches,    \* the batches of the trace that may arrive
    ExportOutcomes,             \* how exporter calls may end
    MaxDecisions                \* bound on the decisions for this trace

ASSUME BatchesDisjoint == SpanBatches \cap LogBatches = {}
ASSUME MaxDecisionsAssumption == MaxDecisions \in Nat
ASSUME ExportOutcomesAssumption == ExportOutcomes \subseteq BOOLEAN

Batches == SpanBatches \cup LogBatches

VARIABLES
    entry,      \* StoredTraceData: the batches merged into it; {} if none
    pc, copy,   \* per handler, its progress and the entry it has read
    dPc,        \* the decision loop
    dSpans,     \* what GetTrace returned: the spans
    dLogs,      \* what GetTraceLogs returned: the logs
    decisions,  \* how many decisions have been received
    \* history, read by the properties only:
    exported, twice, failed,
    evicted,    \* batches in the entry when the cache evicted it
    refused,    \* batches in an entry that the cache found too big
    overlapped, \* batches written while another handler was between Get and Set
    raced,      \* span batches written between GetTrace and RemoveTrace
    revived,    \* batches a handler held a copy of when RemoveTrace ran
    dropped     \* log batches that RemoveTrace deleted

handlerVars == <<pc, copy>>
loopVars == <<dPc, dSpans, dLogs, decisions>>
exportVars == <<exported, twice, failed>>
lossVars == <<evicted, refused, overlapped, raced, revived, dropped>>
vars == <<entry, handlerVars, loopVars, exportVars, lossVars>>

Init ==
    /\ entry = {}
    /\ pc = [b \in Batches |-> "new"]
    /\ copy = [b \in Batches |-> {}]
    /\ dPc = "idle" /\ dSpans = {} /\ dLogs = {} /\ decisions = 0
    /\ exported = {} /\ twice = {} /\ failed = {}
    /\ evicted = {} /\ refused = {} /\ overlapped = {} /\ raced = {}
    /\ revived = {} /\ dropped = {}

-----------------------------------------------------------------------------
(* storeTraces and storeSplitLogs, for this trace.                         *)

HandlerGet(b) ==
    /\ pc[b] = "new"
    /\ pc' = [pc EXCEPT ![b] = "read"]
    /\ copy' = [copy EXCEPT ![b] = entry]
    /\ UNCHANGED <<entry, loopVars, exportVars, lossVars>>

Between == {b \in Batches : pc[b] = "read"}

\* The handler returns, and its copy is gone.
HandlerEnd(b) ==
    /\ pc' = [pc EXCEPT ![b] = "done"]
    /\ copy' = [copy EXCEPT ![b] = {}]

\* A merge that starts from an empty entry instead of the one it has read.
HandlerSet_Replace(b) ==
    /\ pc[b] = "read"
    /\ entry' = {b}
    /\ overlapped' = IF Between # {b} THEN overlapped \cup {b} ELSE overlapped
    /\ raced' = IF dPc \in {"export", "remove"} THEN raced \cup {b} ELSE raced
    /\ HandlerEnd(b)
    /\ UNCHANGED <<loopVars, exportVars, evicted, refused, revived, dropped>>

\* The merged entry replaces whatever the cache holds by now.
HandlerSet(b) ==
    /\ pc[b] = "read"
    /\ entry' = copy[b] \cup {b}
    /\ overlapped' = IF Between # {b} THEN overlapped \cup {b} ELSE overlapped
    /\ raced' = IF dPc \in {"export", "remove"} THEN raced \cup {b} ELSE raced
    /\ HandlerEnd(b)
    /\ UNCHANGED <<loopVars, exportVars, evicted, refused, revived, dropped>>

\* The merged entry is bigger than a shard: Set gives the old one up and fails,
\* and nobody looks at its error.
HandlerSetTooBig(b) ==
    /\ pc[b] = "read"
    /\ refused' = refused \cup entry \cup copy[b] \cup {b}
    /\ entry' = {}
    /\ HandlerEnd(b)
    /\ UNCHANGED <<loopVars, exportVars, evicted, overlapped, raced, revived,
                   dropped>>

\* Expiry or lack of space.  The callback does nothing for a trace.
Evict ==
    /\ entry # {}
    /\ evicted' = evicted \cup entry
    /\ entry' = {}
    /\ UNCHANGED <<handlerVars, loopVars, exportVars, refused, overlapped,
                   raced, revived, dropped>>

-----------------------------------------------------------------------------
(* processDecision, steps 1 and 2.                                         *)

Export(batch, ok) ==
    IF ok
      THEN /\ exported' = exported \cup batch
           /\ twice' = twice \cup (exported \cap batch)
           /\ UNCHANGED failed
      ELSE failed' = failed \cup batch /\ UNCHANGED <<exported, twice>>

DecisionBegin ==
    /\ dPc = "idle"
    /\ decisions < MaxDecisions
    /\ decisions' = decisions + 1
    /\ dPc' = "get"
    /\ UNCHANGED <<entry, handlerVars, dSpans, dLogs, exportVars, lossVars>>

\* A GetTrace that returns an entry although it holds logs only.
GetTrace_LogsFound ==
    /\ dPc = "get"
    /\ dSpans' = entry \cap SpanBatches
    /\ dPc' = IF entry = {} THEN "getLogs" ELSE "export"
    /\ UNCHANGED <<entry, handlerVars, dLogs, decisions, exportVars, lossVars>>

\* An entry without spans counts as not found.
GetTrace ==
    /\ dPc = "get"
    /\ dSpans' = entry \cap SpanBatches
    /\ dPc' = IF dSpans' = {} THEN "getLogs" ELSE "export"
    /\ UNCHANGED <<entry, handlerVars, dLogs, decisions, exportVars, lossVars>>

ExportTrace(ok) ==
    /\ dPc = "export"
    /\ Export(dSpans, ok)
    /\ dSpans' = {}
    /\ dPc' = "remove"
    /\ UNCHANGED <<entry, handlerVars, dLogs, decisions, lossVars>>

\* A loop that exports the trace and forgets to delete it.
RemoveTrace_Missing ==
    /\ dPc = "remove"
    /\ dPc' = "getLogs"
    /\ UNCHANGED <<entry, handlerVars, dSpans, dLogs, decisions, exportVars,
                   lossVars>>

\* The whole entry is deleted, with its logs, and also what was merged into it
\* since GetTrace.
RemoveTrace ==
    /\ dPc = "remove"
    /\ entry' = {}
    /\ dropped' = dropped \cup (entry \cap LogBatches)
    /\ revived' = revived \cup UNION {copy[b] : b \in Between}
    /\ dPc' = "getLogs"
    /\ UNCHANGED <<handlerVars, dSpans, dLogs, decisions, exportVars, evicted,
                   refused, overlapped, raced>>

GetTraceLogs ==
    /\ dPc = "getLogs"
    /\ dLogs' = entry \cap LogBatches
    /\ dPc' = IF dLogs' = {} THEN "idle" ELSE "exportLogs"
    /\ UNCHANGED <<entry, handlerVars, dSpans, decisions, exportVars, lossVars>>

\* The logs stay in the entry.
ExportLogs(ok) ==
    /\ dPc = "exportLogs"
    /\ Export(dLogs, ok)
    /\ dLogs' = {}
    /\ dPc' = "idle"
    /\ UNCHANGED <<entry, handlerVars, dSpans, decisions, lossVars>>

-----------------------------------------------------------------------------

Next ==
    \/ \E b \in Batches : HandlerGet(b) \/ HandlerSet(b) \/ HandlerSetTooBig(b)
    \/ Evict
    \/ DecisionBegin \/ GetTrace \/ RemoveTrace \/ GetTraceLogs
    \/ \E ok \in ExportOutcomes : ExportTrace(ok) \/ ExportLogs(ok)

Spec == Init /\ [][Next]_vars

-----------------------------------------------------------------------------
(* Properties.                                                             *)

\* The types of the state; the decision loop holds spans only while it is to
\* export them, and logs likewise.
TypeOK ==
    /\ entry \subseteq Batches
    /\ pc \in [Batches -> {"new", "read", "done"}]
    /\ copy \in [Batches -> SUBSET Batches]
    /\ dPc \in {"idle", "get", "export", "remove", "getLogs", "exportLogs"}
    /\ dSpans \subseteq SpanBatches /\ (dSpans # {} <=> dPc = "export")
    /\ dLogs \subseteq LogBatches /\ (dLogs # {} <=> dPc = "exportLogs")
    /\ decisions \in 0..MaxDecisions
    /\ exported \subseteq Batches /\ twice \subseteq Batches
    /\ failed \subseteq Batches /\ evicted \subseteq Batches
    /\ refused \subseteq Batches /\ overlapped \subseteq Batches
    /\ raced \subseteq Batches /\ revived \subseteq Batches
    /\ dropped \subseteq Batches

Done(b) == pc[b] = "done"

\* The ways out of the entry that do not depend on how goroutines interleave.
Settled(b) == b \in entry \cup exported \cup failed \cup evicted \cup refused

\* A span batch that Store accepted stays in the entry until it is exported or
\* the cache removes it, unless handlers of the trace overlapped as it was
\* merged, or it was merged while a decision was exporting the trace.
SpanLossNeedsOverlap ==
    \A b \in SpanBatches : Done(b) => Settled(b) \/ b \in overlapped \cup raced

\* A span batch is exported a second time only if some handler held a copy of it
\* over the removal that follows an export, and merged it back.
SecondExportNeedsRevival == twice \cap SpanBatches \subseteq revived

\* docs/index.md: the entire trace is captured along with its associated logs.
\* So the logs stored with a trace that is exported are not deleted unexported.
LogsGoWithTrace == dropped \subseteq exported \cup failed
=============================================================================
