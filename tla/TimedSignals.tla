---------------------------- MODULE TimedSignals ----------------------------
(***************************************************************************)
(* The life of a time-bound signal (a metric batch, or a log batch without *)
(* a trace id) on one node: from internal/buffer/buffer.go, which keeps    *)
(* its payload in a bigcache and its key in a time index, to               *)
(* internal/processor/processor.go, whose decision loop exports the        *)
(* signals of a sampled window as they are, and whose rollup loop exports  *)
(* the others aggregated.                                                  *)
(*                                                                         *)
(* Goroutines: any number of handlers inside Store, the cleaner of the     *)
(* cache, the decision loop, the rollup loop, and the loop that consumes   *)
(* what the cache evicts.  Every step below is one critical section, or    *)
(* one call into the cache or the exporter.  A range read is one step:     *)
(* BufferLocks checks that it returns what it would return if it ran at    *)
(* the instant it takes its lock.                                          *)
(***************************************************************************)
EXTENDS Integers, FiniteSets

CONSTANTS
    Metrics, Logs,  \* the signals that may arrive; a signal is its cache key
    EvictedCap,     \* capacity of evictedChan (1000)
    RollupLag,      \* a rollup leaves the youngest signals alone (10 s)
    WindowPad,      \* how far a decision widens its event window (5 s)
    TTL,            \* life of a cache entry (30 s by default)
    StoreSlack,     \* longest time from a signal's timestamp to its indexing
    ExportOutcomes, \* how exporter calls may end: TRUE if without an error
    EventSpans,     \* <<first, last>> event times that decisions carry
    LastStore,      \* bound: no signal arrives after this time
    MaxTime         \* bound: the clock stops here

ASSUME KindsDisjoint == Metrics \cap Logs = {}
ASSUME TimesAreNaturals == /\ RollupLag \in Nat /\ WindowPad \in Nat
                           /\ TTL \in Nat /\ StoreSlack \in Nat
                           /\ LastStore \in Nat /\ MaxTime \in Nat
ASSUME CapIsNatural == EvictedCap \in Nat
ASSUME OutcomesAreBooleans == ExportOutcomes \subseteq BOOLEAN
ASSUME EventSpansAreTimes == EventSpans \subseteq Int \X Int
\* A handler is not held up between time.Now() and the index insert for as
\* long as the margin that performRollup keeps.
ASSUME StoresAreQuick == StoreSlack < RollupLag

VARIABLES
    now,            \* the node's clock
    phase,          \* how far Store has come with each signal
    ts,             \* the timestamp Store gave it
    cache,          \* keys whose payload is in the cache
    index,          \* keys in metricTimeIndex and logTimeIndex (and key maps)
    evictedChan,    \* evicted signals the consumer loop has not taken
    evicted,        \* p.evictedMetrics and p.evictedLogs
    dPc, dKind, dStart, dEnd, dFetched, dTodo,          \* decision loop
    rPc, rKind, rEnd, rFetched, rDrained, rTodo,        \* rollup loop
    jammed,         \* a range read and a removal wait for each other, for ever
    \* history, read by the properties only:
    exportedBy,     \* per path, the signals an exporter call succeeded for
    repeated,       \* signals exported twice by the same path
    failed,         \* signals in a batch whose exporter call failed
    overflowed,     \* signals evicted while evictedChan was full
    raced           \* signals indexed in a window after it was read

bufVars == <<now, phase, ts, cache, index>>
evVars  == <<evictedChan, evicted>>
dVars   == <<dPc, dKind, dStart, dEnd, dFetched, dTodo>>
rVars   == <<rPc, rKind, rEnd, rFetched, rDrained, rTodo>>
expVars == <<exportedBy, repeated, failed>>
vars    == <<bufVars, evVars, dVars, rVars, expVars, overflowed, raced, jammed>>

Keys    == Metrics \cup Logs
Kinds   == {"metric", "log"}
Kind(k) == IF k \in Metrics THEN "metric" ELSE "log"
OfKind(S, kind) == {k \in S : Kind(k) = kind}

Phases == {"new", "set", "indexed", "rejected"}
Paths  == {"decision", "rollup", "evicted"}

\* time.Time{}.UnixNano() overflows to a negative number, below every timestamp.
ZeroTime == -1

Init ==
    /\ now = 0
    /\ phase = [k \in Keys |-> "new"]
    /\ ts = [k \in Keys |-> 0]
    /\ cache = {} /\ index = {}
    /\ evictedChan = {} /\ evicted = {}
    /\ dPc = "idle" /\ dKind = "metric" /\ dStart = 0 /\ dEnd = 0
    /\ dFetched = {} /\ dTodo = {}
    /\ rPc = "idle" /\ rKind = "metric" /\ rEnd = 0
    /\ rFetched = {} /\ rDrained = {} /\ rTodo = {}
    /\ exportedBy = [p \in Paths |-> {}]
    /\ repeated = {} /\ failed = {} /\ overflowed = {} /\ raced = {}
    /\ jammed = FALSE

-----------------------------------------------------------------------------
(* The clock.                                                              *)

Tick ==
    /\ now < MaxTime
    /\ \A k \in Keys :
         phase[k] = "set" => now + 1 - ts[k] <= StoreSlack \/ jammed
    /\ now' = now + 1
    /\ UNCHANGED <<phase, ts, cache, index, evVars, dVars, rVars, expVars,
                   overflowed, raced, jammed>>

-----------------------------------------------------------------------------
(* Store: the signal is stamped and marshalled, its payload set in the     *)
(* cache, and then, under mu, its key indexed.                             *)

\* cache.Set succeeds.  The stamp t may be older than the Set.
StoreSet(k, t) ==
    /\ phase[k] = "new"
    /\ now <= LastStore
    /\ 0 <= t /\ t <= now /\ now - t <= StoreSlack
    /\ phase' = [phase EXCEPT ![k] = "set"]
    /\ ts' = [ts EXCEPT ![k] = t]
    /\ cache' = cache \cup {k}
    /\ UNCHANGED <<now, index, evVars, dVars, rVars, expVars, overflowed,
                   raced, jammed>>

\* cache.Set fails: the payload does not fit its shard.  Store returns nil.
StoreReject(k) ==
    /\ phase[k] = "new"
    /\ now <= LastStore
    /\ phase' = [phase EXCEPT ![k] = "rejected"]
    /\ UNCHANGED <<now, ts, cache, index, evVars, dVars, rVars, expVars,
                   overflowed, raced, jammed>>

\* The decision loop has read the window that k's timestamp is in and found
\* signals there, and has not yet collected the keys to remove from it: k will
\* be removed with them, unless the cache evicts it first.
InOpenWindow(k) ==
    /\ k \in cache
    /\ (dPc = "export" /\ dFetched # {}) \/ dPc = "collect"
    /\ dKind = Kind(k)
    /\ dStart <= ts[k] /\ ts[k] <= dEnd

\* A timestamp alone as the index key: an equal one replaces its entry.
StoreIndex_StampIsKey(k) ==
    /\ ~jammed /\ phase[k] = "set"
    /\ phase' = [phase EXCEPT ![k] = "indexed"]
    /\ index' = {j \in index : Kind(j) # Kind(k) \/ ts[j] # ts[k]} \cup {k}
    /\ raced' = IF InOpenWindow(k) THEN raced \cup {k} ELSE raced
    /\ UNCHANGED <<now, ts, cache, evVars, dVars, rVars, expVars, overflowed,
                   jammed>>

\* An indexing that sets the payload again, lest it be gone by then.
StoreIndex_SetAgain(k) ==
    /\ ~jammed /\ phase[k] = "set"
    /\ phase' = [phase EXCEPT ![k] = "indexed"]
    /\ index' = index \cup {k}
    /\ cache' = cache \cup {k}
    /\ raced' = IF InOpenWindow(k) THEN raced \cup {k} ELSE raced
    /\ UNCHANGED <<now, ts, evVars, dVars, rVars, expVars, overflowed,
                   jammed>>

\* The index insert does not look whether the payload is still in the cache.
StoreIndex(k) ==
    /\ ~jammed /\ phase[k] = "set"
    /\ phase' = [phase EXCEPT ![k] = "indexed"]
    /\ index' = index \cup {k}
    /\ raced' = IF InOpenWindow(k) THEN raced \cup {k} ELSE raced
    /\ UNCHANGED <<now, ts, cache, evVars, dVars, rVars, expVars, overflowed,
                   jammed>>

-----------------------------------------------------------------------------
(* The cache removes entries by itself.                                    *)

\* A hand-over that admits one signal too many.
Evict_OneTooMany(k) ==
    /\ ~jammed /\ k \in cache
    /\ cache' = cache \ {k}
    /\ index' = index \ {k}
    /\ IF Cardinality(evictedChan) <= EvictedCap
         THEN evictedChan' = evictedChan \cup {k} /\ UNCHANGED overflowed
         ELSE overflowed' = overflowed \cup {k} /\ UNCHANGED evictedChan
    /\ UNCHANGED <<now, phase, ts, evicted, dVars, rVars, expVars, raced,
                   jammed>>

\* The entry goes, and onCacheEvictionWithReason cleans the index up and hands
\* the payload over unless the channel is full.
Evict(k) ==
    /\ ~jammed /\ k \in cache
    /\ cache' = cache \ {k}
    /\ index' = index \ {k}
    /\ IF Cardinality(evictedChan) < EvictedCap
         THEN evictedChan' = evictedChan \cup {k} /\ UNCHANGED overflowed
         ELSE overflowed' = overflowed \cup {k} /\ UNCHANGED evictedChan
    /\ UNCHANGED <<now, phase, ts, evicted, dVars, rVars, expVars, raced,
                   jammed>>

Expired(k) == now - ts[k] > TTL

\* The cleaner, or a Set in the same shard, finds the entry expired.
Expire(k) == Expired(k) /\ Evict(k)

\* A Set, of any key in the same shard, finds no space.
EvictNoSpace(k) == ~Expired(k) /\ Evict(k)

\* A callback that cleans the index up for evictions only.
CacheDelete_KeepIndex(k) ==
    /\ jammed => k \notin cache
    /\ cache' = cache \ {k}
    /\ UNCHANGED index

\* cache.Delete: a key that is not in the cache is left alone, and so is its
\* index entry, because the callback only runs for an entry that was removed.
CacheDelete(k) ==
    /\ jammed => k \notin cache
    /\ cache' = cache \ {k}
    /\ index' = IF k \in cache THEN index \ {k} ELSE index

\* handleEvictedSignal, for a signal the consumer loop received.
ConsumeEvicted(k) ==
    /\ k \in evictedChan
    /\ evictedChan' = evictedChan \ {k}
    /\ evicted' = evicted \cup {k}
    /\ UNCHANGED <<bufVars, dVars, rVars, expVars, overflowed, raced, jammed>>

-----------------------------------------------------------------------------
(* What both loops use.                                                    *)

\* Keys that AscendRange visits: both ends are included.
InRange(kind, from, to) ==
    {k \in OfKind(index, kind) : from <= ts[k] /\ ts[k] <= to}

\* GetMetricsInRange and GetLogsInRange skip a key whose payload is gone.
GetInRange(kind, from, to) == InRange(kind, from, to) \cap cache

\* One exporter call for a batch, batch[p] being what came along path p.  Its
\* error is not looked at.
Export(batch, ok) ==
    IF ok
      THEN /\ exportedBy' = [p \in Paths |-> exportedBy[p] \cup batch[p]]
           /\ repeated' = repeated \cup
                            UNION {exportedBy[p] \cap batch[p] : p \in Paths}
           /\ UNCHANGED failed
      ELSE /\ failed' = failed \cup UNION {batch[p] : p \in Paths}
           /\ UNCHANGED <<exportedBy, repeated>>

\* A range read holds mu and asks for the shard of one of its keys, while a
\* removal of some entry in that shard holds the shard and its callback asks for
\* mu (BufferLocks shows how).  From here on nobody gets mu: no key is indexed,
\* removed, read or collected any more.
Jam ==
    /\ ~jammed
    /\ cache # {}
    /\ \/ dPc = "get" /\ InRange(dKind, dStart, dEnd) # {}
       \/ rPc = "get" /\ InRange(rKind, ZeroTime, rEnd) # {}
    /\ jammed' = TRUE
    /\ UNCHANGED <<bufVars, evVars, dVars, rVars, expVars, overflowed, raced>>

-----------------------------------------------------------------------------
(* processDecision, step 3: the signals of the decision's window, metrics  *)
(* first and then logs.                                                    *)

DecisionBegin(span) ==
    /\ dPc = "idle"
    /\ dPc' = "get"
    /\ dStart' = span[1] - WindowPad
    /\ dEnd' = span[2] + WindowPad
    /\ UNCHANGED <<bufVars, evVars, dKind, dFetched, dTodo, rVars, expVars,
                   overflowed, raced, jammed>>

DecisionGet ==
    /\ ~jammed /\ dPc = "get"
    /\ dFetched' = GetInRange(dKind, dStart, dEnd)
    /\ dPc' = "export"
    /\ UNCHANGED <<bufVars, evVars, dKind, dStart, dEnd, dTodo, rVars, expVars,
                   overflowed, raced, jammed>>

DecisionExport(ok) ==
    /\ dPc = "export"
    /\ dFetched # {}
    /\ Export([p \in Paths |-> IF p = "decision" THEN dFetched ELSE {}], ok)
    /\ dFetched' = {}
    /\ dPc' = "collect"
    /\ UNCHANGED <<bufVars, evVars, dKind, dStart, dEnd, dTodo, rVars,
                   overflowed, raced, jammed>>

\* A removal that stops short of the window's last instant.
DecisionCollect_ExclusiveEnd ==
    /\ ~jammed /\ dPc = "collect"
    /\ dTodo' = InRange(dKind, dStart, dEnd - 1)
    /\ dPc' = "delete"
    /\ UNCHANGED <<bufVars, evVars, dKind, dStart, dEnd, dFetched, rVars,
                   expVars, overflowed, raced, jammed>>

\* RemoveMetricsInRange and RemoveLogsInRange read the index again ...
DecisionCollect ==
    /\ ~jammed /\ dPc = "collect"
    /\ dTodo' = InRange(dKind, dStart, dEnd)
    /\ dPc' = "delete"
    /\ UNCHANGED <<bufVars, evVars, dKind, dStart, dEnd, dFetched, rVars,
                   expVars, overflowed, raced, jammed>>

\* ... and delete key after key, with no lock held in between.
DecisionDelete(k) ==
    /\ dPc = "delete"
    /\ k \in dTodo
    /\ dTodo' = dTodo \ {k}
    /\ CacheDelete(k)
    /\ UNCHANGED <<now, phase, ts, evVars, dPc, dKind, dStart, dEnd, dFetched,
                   rVars, expVars, overflowed, raced, jammed>>

DecisionNextKind ==
    /\ \/ dPc = "export" /\ dFetched = {}
       \/ dPc = "delete" /\ dTodo = {}
    /\ IF dKind = "metric"
         THEN dPc' = "get" /\ dKind' = "log" /\ UNCHANGED <<dStart, dEnd>>
         ELSE dPc' = "idle" /\ dKind' = "metric" /\ dStart' = 0 /\ dEnd' = 0
    /\ UNCHANGED <<bufVars, evVars, dFetched, dTodo, rVars, expVars,
                   overflowed, raced, jammed>>

-----------------------------------------------------------------------------
(* performRollup: reads both kinds, takes over what was evicted, then      *)
(* aggregates, exports and removes the metrics, and then the logs.         *)

\* A rollup that keeps no margin to the clock.
RollupBegin_NoLag ==
    /\ rPc = "idle"
    /\ rPc' = "get"
    /\ rEnd' = now
    /\ UNCHANGED <<bufVars, evVars, dVars, rKind, rFetched, rDrained, rTodo,
                   expVars, overflowed, raced, jammed>>

RollupBegin ==
    /\ rPc = "idle"
    /\ rPc' = "get"
    /\ rEnd' = now - RollupLag
    /\ UNCHANGED <<bufVars, evVars, dVars, rKind, rFetched, rDrained, rTodo,
                   expVars, overflowed, raced, jammed>>

RollupGet ==
    /\ ~jammed /\ rPc = "get"
    /\ rFetched' = rFetched \cup GetInRange(rKind, ZeroTime, rEnd)
    /\ rPc' = IF rKind = "metric" THEN "get" ELSE "drain"
    /\ rKind' = IF rKind = "metric" THEN "log" ELSE "metric"
    /\ UNCHANGED <<bufVars, evVars, dVars, rEnd, rDrained, rTodo, expVars,
                   overflowed, raced, jammed>>

\* A rollup that looks at the evicted signals only when the buffer had some.
RollupDrain_OnlyWithFetched ==
    /\ rPc = "drain"
    /\ rDrained' = IF rFetched = {} THEN {} ELSE evicted
    /\ evicted' = IF rFetched = {} THEN evicted ELSE {}
    /\ rPc' = "export"
    /\ UNCHANGED <<bufVars, evictedChan, dVars, rKind, rEnd, rFetched, rTodo,
                   expVars, overflowed, raced, jammed>>

RollupDrain ==
    /\ rPc = "drain"
    /\ rDrained' = evicted
    /\ evicted' = {}
    /\ rPc' = "export"
    /\ UNCHANGED <<bufVars, evictedChan, dVars, rKind, rEnd, rFetched, rTodo,
                   expVars, overflowed, raced, jammed>>

\* allMetrics, allLogs: a signal read from the buffer and evicted before the
\* drain is in the batch twice.
RollupBatch ==
    [p \in Paths |-> CASE p = "rollup"   -> OfKind(rFetched, rKind)
                       [] p = "evicted"  -> OfKind(rDrained, rKind)
                       [] p = "decision" -> {}]

RollupExport(ok) ==
    /\ rPc = "export"
    /\ OfKind(rFetched \cup rDrained, rKind) # {}
    /\ Export(RollupBatch, ok)
    /\ rFetched' = rFetched \ OfKind(rFetched, rKind)
    /\ rDrained' = rDrained \ OfKind(rDrained, rKind)
    /\ rPc' = "collect"
    /\ UNCHANGED <<bufVars, evVars, dVars, rKind, rEnd, rTodo, overflowed,
                   raced, jammed>>

RollupCollect ==
    /\ ~jammed /\ rPc = "collect"
    /\ rTodo' = InRange(rKind, ZeroTime, rEnd)
    /\ rPc' = "delete"
    /\ UNCHANGED <<bufVars, evVars, dVars, rKind, rEnd, rFetched, rDrained,
                   expVars, overflowed, raced, jammed>>

RollupDelete(k) ==
    /\ rPc = "delete"
    /\ k \in rTodo
    /\ rTodo' = rTodo \ {k}
    /\ CacheDelete(k)
    /\ UNCHANGED <<now, phase, ts, evVars, dVars, rPc, rKind, rEnd, rFetched,
                   rDrained, expVars, overflowed, raced, jammed>>

RollupNextKind ==
    /\ \/ rPc = "export" /\ OfKind(rFetched \cup rDrained, rKind) = {}
       \/ rPc = "delete" /\ rTodo = {}
    /\ IF rKind = "metric"
         THEN rPc' = "export" /\ rKind' = "log" /\ UNCHANGED rEnd
         ELSE rPc' = "idle" /\ rKind' = "metric" /\ rEnd' = 0
    /\ UNCHANGED <<bufVars, evVars, dVars, rFetched, rDrained, rTodo, expVars,
                   overflowed, raced, jammed>>

-----------------------------------------------------------------------------

DecisionStep ==
    \/ DecisionGet \/ DecisionCollect \/ DecisionNextKind
    \/ \E ok \in ExportOutcomes : DecisionExport(ok)
    \/ \E k \in Keys : DecisionDelete(k)

RollupStep ==
    \/ RollupBegin \/ RollupGet \/ RollupDrain
    \/ RollupCollect \/ RollupNextKind
    \/ \E ok \in ExportOutcomes : RollupExport(ok)
    \/ \E k \in Keys : RollupDelete(k)

Next ==
    \/ Tick
    \/ \E k \in Keys : \E t \in 0..now : StoreSet(k, t)
    \/ \E k \in Keys : \/ StoreReject(k) \/ StoreIndex(k)
                       \/ Expire(k) \/ EvictNoSpace(k)
                       \/ ConsumeEvicted(k)
    \/ \E span \in EventSpans : DecisionBegin(span)
    \/ DecisionStep
    \/ RollupStep
    \/ Jam

Spec == Init /\ [][Next]_vars

\* The clock runs, the loops are scheduled, exporter calls return (they have a
\* 10 s timeout), and who waits for mu or a shard gets it in the end as long as
\* no range read and removal wait for each other: after a Jam the steps that
\* need mu are not enabled, and nothing is assumed of them.  Nothing is assumed
\* of arrivals, evictions, decisions or Jam either.
FairSpec ==
    /\ Spec
    /\ WF_vars(Tick)
    /\ \A k \in Keys : WF_vars(StoreIndex(k)) /\ WF_vars(ConsumeEvicted(k))
    /\ WF_vars(DecisionStep)
    /\ WF_vars(RollupStep)

-----------------------------------------------------------------------------
(* Properties.                                                             *)

\* The types of the node's state; evictedChan stays within its capacity.
TypeOK ==
    /\ now \in Nat
    /\ phase \in [Keys -> Phases]
    /\ ts \in [Keys -> Nat]
    /\ cache \subseteq Keys /\ index \subseteq Keys
    /\ evictedChan \subseteq Keys /\ evicted \subseteq Keys
    /\ IsFiniteSet(evictedChan) /\ Cardinality(evictedChan) <= EvictedCap
    /\ dPc \in {"idle", "get", "export", "collect", "delete"}
    /\ dKind \in Kinds /\ dStart \in Int /\ dEnd \in Int
    /\ dFetched \subseteq Keys /\ dTodo \subseteq Keys
    /\ rPc \in {"idle", "get", "drain", "export", "collect", "delete"}
    /\ rKind \in Kinds /\ rEnd \in Int
    /\ rFetched \subseteq Keys /\ rDrained \subseteq Keys
    /\ rTodo \subseteq Keys
    /\ exportedBy \in [Paths -> SUBSET Keys]
    /\ repeated \subseteq Keys /\ failed \subseteq Keys
    /\ overflowed \subseteq Keys /\ raced \subseteq Keys
    /\ jammed \in BOOLEAN

Exported  == UNION {exportedBy[p] : p \in Paths}
Stored(k) == phase[k] \in {"set", "indexed"}

\* What the node still has.
Held == cache \cup evictedChan \cup evicted \cup rDrained

\* What left the node through an exporter, or in one of the ways in which the
\* code gives signals up.
Settled == Exported \cup failed \cup overflowed \cup raced

\* No signal disappears silently: whatever the order of handlers, evictions,
\* both loops and their removals by range, a signal whose payload got into the
\* cache is still held, or was exported, or was lost in one of three known ways:
\* the exporter call failed and its error was ignored, evictedChan was full, or
\* the signal was indexed in a decision's window after the window was read.  (A
\* payload that cache.Set refuses is lost at once: StoreReject.)
LossAccounted == \A k \in Keys : Stored(k) => k \in Held \cup Settled

\* A cached signal that is indexed can be found by the range reads, also when
\* others carry its timestamp and while both loops remove by range.
CachedIsReachable == \A k \in cache : phase[k] = "indexed" => k \in index

\* The decision loop, the buffer half of a rollup and its evicted half each
\* export a signal at most once: a removal by range always removes what the read
\* by range before it returned, even though the index is read twice.
AtMostOncePerPath == repeated = {}

\* Where a signal may be that the cache evicted.
EvictedEver == evictedChan \cup evicted \cup rDrained \cup exportedBy["evicted"]
                 \cup failed \cup overflowed

\* An index entry without a payload, which every range read visits again and no
\* removal by range gets rid of, belongs to a signal that the cache evicted (the
\* eviction overtook the handler's indexing); the removals of both loops leave
\* none behind.
StaleEntryWasEvicted == index \ cache \subseteq EvictedEver

\* Unless a range read and a removal come to wait for each other, every signal
\* in the cache leaves the node in the end, exported or lost in a known way: if
\* no decision takes it, a rollup does, from the buffer or out of what the cache
\* evicted; and what was exported is removed as well.
EverySignalSettles ==
    \A k \in Keys : Stored(k) ~> (k \in Settled /\ k \notin Held) \/ jammed

-----------------------------------------------------------------------------
(* The node as a ledger of its time-bound signals.                         *)

Custody(k) ==
    CASE phase[k] = "new"            -> "new"
      [] phase[k] = "rejected"       -> "dropped"
      [] Stored(k) /\ k \in Held    -> "held"
      [] Stored(k) /\ k \notin Held -> "released"

CopiesOf(p) == CASE p = "decision" -> dFetched
                 [] p = "rollup"   -> rFetched
                 [] p = "evicted"  -> rDrained

Ledger == INSTANCE SignalLedger
            WITH Signals <- Keys,
                 custody <- [k \in Keys |-> Custody(k)],
                 copies  <- [p \in Paths |-> CopiesOf(p)],
                 sent    <- exportedBy,
                 lost    <- failed \cup overflowed \cup raced

\* Buffer, cache and loops together keep the promise of SignalLedger: a signal
\* that left the node is not taken up again by a handler, an eviction or a
\* drain, none leaves without an export or a known loss, no loop reads a signal
\* that it has exported before, and only what was read or drained is exported.
\* An exported signal may be evicted before its removal, and is then exported
\* once more by another path: the ledger has it held until then.
ImplementsLedger == Ledger!Spec

-----------------------------------------------------------------------------
(* Why LossAccounted holds: an inductive invariant.                        *)

\* Cache and index follow the phases of Store, and Store is quick.
BufferInv ==
    /\ \A k \in cache : Stored(k)
    /\ CachedIsReachable
    /\ \A k \in index : phase[k] = "indexed"
    /\ \A k \in Keys :
         phase[k] = "set" => now - ts[k] <= StoreSlack \/ jammed

\* Signals the range reads of a loop find, or would find, up to time `to'.
Findable(k, kind, from, to) ==
    k \in cache /\ k \in index /\ Kind(k) = kind /\ from <= ts[k] /\ ts[k] <= to

\* performRollup has read the signals of this kind and not yet exported them.
RollupPending(kind) ==
    \/ rPc = "get" /\ rKind = "log" /\ kind = "metric"
    \/ rPc = "drain"
    \/ rPc = "export" /\ (rKind = "metric" \/ kind = "log")
    \/ rPc \in {"collect", "delete"} /\ rKind = "metric" /\ kind = "log"

\* Nothing appears in the range of a rollup after the rollup has read it.  What
\* it holds of evicted signals is still to be exported.
RollupInv ==
    /\ rPc \in {"idle", "drain"} => rKind = "metric"
    /\ rPc # "idle" => rEnd <= now - RollupLag
    /\ \A k \in Keys :
         RollupPending(Kind(k)) /\ Findable(k, Kind(k), ZeroTime, rEnd)
           => k \in rFetched
    /\ rPc = "collect" =>
         \A k \in Keys : Findable(k, rKind, ZeroTime, rEnd) => k \in Settled
    /\ rPc = "delete" => \A k \in rTodo \cap cache : k \in Settled
    /\ \A k \in rTodo : phase[k] = "indexed"
    /\ rDrained # {} => rPc \in {"export", "collect", "delete"}
    /\ \A k \in rDrained : RollupPending(Kind(k))

\* What appears in the window of a decision after the decision has read it is
\* in raced.
DecisionInv ==
    /\ dPc = "export" /\ dFetched # {} =>
         \A k \in Keys :
           Findable(k, dKind, dStart, dEnd) => k \in dFetched \cup raced
    /\ dPc = "collect" =>
         \A k \in Keys : Findable(k, dKind, dStart, dEnd) => k \in Settled
    /\ dPc = "delete" => \A k \in dTodo \cap cache : k \in Settled
    /\ \A k \in dTodo : phase[k] = "indexed"

IndInv == TypeOK /\ BufferInv /\ RollupInv /\ DecisionInv /\ LossAccounted

\* Why StaleEntryWasEvicted holds: a signal whose payload is gone and that is
\* not indexed yet, or still is, was evicted.
StaleInv ==
    \A k \in Keys \ cache :
      phase[k] = "set" \/ k \in index => k \in EvictedEver

\* Why ImplementsLedger holds: whatever the node holds, has read or has exported
\* was accepted by Store.
AcceptedFirst ==
    \A k \in Held \cup dFetched \cup rFetched \cup Exported : Stored(k)
=============================================================================
