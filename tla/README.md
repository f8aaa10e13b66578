# TLA+ models of the OTEL Tail Sampler

This directory holds TLA+ models of the sampler's nodes and of the cluster they
form, the TLC runs that check them on small instances, and TLAPS proofs of what
matters most for instances of every size. `PROJECT.json` lists the runs, the
mutants that show each property can fail, the source lines behind each
definition, the findings and the hazards.

Paths below are relative to the repository's root.

## 1. The system

A node receives OTLP batches, logs them, buffers them, and sends onward either
the signals of sampled traces as they are or the rest rolled up. Nodes tell each
other of sampling decisions and of high load.

| Component | State | Operations | Talks to |
|---|---|---|---|
| Receiver `internal/receiver` | none | one gRPC handler per signal kind, many at a time | `Consume` |
| Consumer `cmd/server/main.go` | none | `Consume`: WAL, buffer, evaluation, answer; replay at start-up; truncation loop; load monitor | WAL, buffer, engine, gossip |
| WAL `internal/wal` | a log on disk, one mutex | `Write`, `Replay`, `TruncateBefore` | tidwall/wal |
| Buffer `internal/buffer` | a bigcache of payloads; two B-trees with key maps under `mu`; `evictedChan` (1000) | `Store`, `GetTrace`, `GetTraceLogs`, `RemoveTrace`, `Get…InRange`, `Remove…InRange`, eviction callback | bigcache, processor |
| Decision engine `internal/decision` | none | `EvaluateTrace` over the policies | gossip |
| Gossip `internal/gossip` | member list, broadcast queue, `decisionChan` and `triggerChan` (100 each) | `BroadcastDecision`, `BroadcastTrigger`, `NotifyMsg`, join loop | other nodes, processor |
| Processor `internal/processor` | `evictedMetrics`, `evictedLogs` under `evictedMu` | decision loop, rollup loop, trigger loop, eviction consumer loop | buffer, rollup, exporter |
| Rollup `internal/rollup` | the cardinality level | `RollupMetrics`, `RollupLogs`, `SetLevel` | – |
| Exporter `internal/exporter` | a connection | three exports with a 10 s timeout | back end |
| Discovery `internal/discovery` | none | `GetPeers`: a list, or DNS look-ups | join loop |
| Configuration, telemetry | – | plain data, counters | – |

What is hard here:

* **Concurrency.** Handlers, the cache's cleaner and the processor's four loops
  share the buffer. Its maps have a lock, its trace entries have none (they are
  read, merged and written back), and the cache calls back into the buffer with
  a shard locked.
* **Reading twice.** Both loops read a time range, export, and then remove *the
  range*, which by then may hold other signals.
* **Failure.** A crash loses everything but the log; exporter errors are not
  handled; full channels drop; broadcasts are lost, repeated and late; nodes and
  networks fail.
* **Ordering.** Decisions, spans, logs and evictions of one trace come in any
  order; log records are not in the order of their stamps; what a rollup adds up
  comes in an order that evictions change.

What makes each part correct: the buffer and the processor lose no signal
silently and export none twice along one path; a range read is consistent; no
operation waits for ever; what a client was answered for survives crashes; a
decision reaches the whole trace, on every node, and nothing else; levels follow
the load; sums and counts are right; a node that could have peers has them.

## 2. The modules

| Module | Models | State → code | Actions → code |
|---|---|---|---|
| `TimedSignals` | a metric batch, or a log batch without trace id, from `Store` to the exporter | `cache`, `index` → bigcache, B-tree with key map; `evictedChan`, `evicted` → channel, `p.evicted…`; `d…` / `r…` → locals of `processDecision` / `performRollup` | `Store…` → `storeMetric` and the end of `storeSplitLogs`; `Expire`, `EvictNoSpace` → cache and callback; `Jam` → the deadlock of `BufferLocks`; `Decision…` → `processDecision` step 3; `Rollup…` → `performRollup` |
| `SignalLedger` | what a node promises for a signal, abstractly | `custody` of each signal; per path, the `copies` it has taken and what it has `sent`; `lost` | `Move`: dropped or held, and let go once sent or lost; `Send`: a path copies what is held, and sends its copies |
| `BufferLocks` | the locks behind the buffer | `owner`, `readers` per mutex → `mu` and the shard locks; `victim` → the callback's argument | one action per lock operation of `storeMetric`, `RemoveMetricsInRange`, `GetMetricsInRange`, the cleaner and the callback |
| `AtomicBuffer` | what these locks promise to the rest of the node, abstractly | cache, index and the keys between the two; the range reads that took place and what they return | `Set`, `Index`; `Remove` from cache and index; `Read`, each in one instant |
| `DurableIngest` | ingestion of all signals with the WAL, crash and restart | `wal` → the records on disk; `pc` → each handler's place in `Export`/`Consume`; `decided` → `decisionChan`; `dCopy` → what `processDecision` has read; `handed` → evicted signals that wait for a rollup | `Receive`, `WalWrite`, `Store`, `Evaluate` → handler; `TakeDecision`, `ExportTrace`, `RemoveTrace`, `ExportTraceLogs` → `processDecision` steps 1 and 2; `RollUp…`, `RemoveUnread` → its step 3 and `performRollup`; `Evict` → cache; `TruncateBefore`; `Crash`, `Restart`, `Replay…` → start-up |
| `TraceStore` | the entry of one trace in the buffer | `entry` → `StoredTraceData`; `copy` → what a handler has read | `HandlerGet`, `HandlerSet…` → `storeTraces`, `storeSplitLogs`; `GetTrace` … `ExportLogs` → `processDecision` steps 1 and 2 |
| `Decision` | the policies, as operators on a batch of spans | – | `EvaluateTrace`, `CheckError`, … → methods of the engine |
| `Gossip` | broadcasts of one kind of message | `queue` → `m.broadcasts`; `net` → packets; `chan` → `decisionChan` or `triggerChan` | `Broadcast` → `BroadcastDecision`, `BroadcastTrigger`; `Transmit` → memberlist and `GetBroadcasts`; `NotifyMsg`; `Take` → the processor's receive |
| `Sampling` | tail sampling across nodes: composes `Decision` and `Gossip` with buffers and decision loops | `buffer` → spans of each node; `merging`, `copy` → what a handler has read; `removing` → the trace a decision loop has exported | `StoreGet`, `StoreSet`, `Evaluate` → `Consume`; `Network`; `ProcessDecision`, `RemoveTrace` → decision loop; `Evict` |
| `LoadControl` | load monitors and trigger loops of several nodes: composes `Gossip` | `highLoadActive` → the monitor's local; `level` → `currentLevel` | `Monitor` → `main.go`; `ProcessTrigger` → `processTrigger`, `SetLevel` |
| `Rollup` | the aggregation, as functions of how much of the batch is merged, and one `performRollup` while the level changes | `level` → `currentLevel`; `points`, `records` → the input | `SetLevel`, `RollupMetrics`, `RollupLogs` |
| `Membership` | who knows whom: join loop, discovery, faults | `view`, `gone` → the member list; `joining` → the peers of a `Join` under way | `Start`, `Stop`, `JoinLoop` → `gossip.go`; `GetPeers` → `discovery.go`; the rest → memberlist and the network |

`MC…` modules fix the constants for TLC; `…Proofs` modules hold the proofs about
the module they are named after. `GossipProofs` has no theorems of its own: its
lemmas serve `SamplingProofs` and `LoadControlProofs`, each for its own channel
and messages. Operators
whose name ends in `_Something` are mutated forms of the operator before the
underscore: plausible slips that the properties have to catch. No specification
uses them.

Conventions. A payload is its key: what the models tell apart is which signal is
where. One action is one critical section, one call into the cache, or one
exporter call. Two models that look at other things are coarser in places:
`Store` of `DurableIngest` is one step, and `ProcessDecision` of `Sampling` reads
and exports at once (what is merged in between is removed by `RemoveTrace`
either way). Variables under "history" record what
happened for the properties; no guard reads them.

External code is modelled by what the repository relies on.

* *bigcache* v3.1: `Set`, `Delete` and the cleaner hold the shard's lock while
  they run the callback; a `Set` may evict other entries of its shard; a `Set`
  of an entry that is too big first drops the old one and then fails; `Delete`
  of a missing key runs no callback; `Get` also returns an entry that has
  expired and was not cleaned yet.
* *tidwall/wal* v1.2: a write is synced; `TruncateFront` beyond the last record
  is an error.
* *sync.RWMutex*: a waiting writer shuts new readers out.
* *memberlist*: a queued broadcast is sent `RetransmitMult * ceil(log10(n+1))`
  times in all, to peers picked at random, in packets that may be lost, repeated
  or overtaken; a node does not pass on what it hears. A contact makes two lists
  one; members that do not answer are given up; gossip to one that was given up
  may bring it back.
* *pdata*: reading a number of the other kind gives zero; `Sum()` of a metric
  that is no sum is an invalid value, and its use a nil dereference.

Abstractions worth knowing:

* `TimedSignals` makes a range read one step, and the removal of an entry from
  cache and index another. `BufferLocks` justifies that: it implements
  `AtomicBuffer`, which has just these steps (`ImplementsAtomicBuffer`), and the
  theorem `BufferSteps` says that the buffer of `TimedSignals` takes no others.
* `TimedSignals` bounds the time between a signal's stamp and its indexing by
  `StoreSlack`, assumed below `RollupLag` (10 s in the code). Go gives no such
  guarantee; a handler suspended for 10 s could lose its signal to a rollup, and
  the mutant `RollupBegin_NoLag` shows that loss.
* After a `Jam` nobody gets `mu` in `TimedSignals`: nothing is indexed, removed,
  read or collected any more, while arrivals, the consumer loop and exporter
  calls go on. It stands for the deadlock that `BufferLocks` finds and the run
  `locks_deadlock` exhibits, and may happen whenever a range read has a key to
  look at and the cache an entry to remove.
* `StoreReject` is the case that `cache.Set` refuses the entry. `Store` returns
  nil then and the client is answered, so that this is a loss too, before the
  signal was ever held; the ledger calls it dropped.
* `DurableIngest` has three kinds of signals: batches of spans of one trace,
  batches of logs of one trace, and time-bound batches (metrics, logs without
  trace id). The first two share the entry of their trace (`KeyOf`); the
  eviction hook does nothing for it, no rollup looks for it, and `RemoveTrace`
  takes the whole of it. The cache may evict at any time, which covers expiry and
  lack of space, and may refuse an entry. The policies are the set `Sampled`,
  the decisions are those of this node, and exporter calls may fail. `Store`
  does not return an error: it could only come from the marshaller of metrics
  (`buffer.go:362`), which has just unmarshalled them. A record is either
  readable or not, for replay and truncation alike.
* `TraceStore` has one trace: entries share only the space of the cache. A span
  that was exported may come back with a slow handler, so `TraceStore` does not
  implement `SignalLedger`; `SecondExportNeedsRevival` says when. `Sampling` and
  `DurableIngest` let spans go out again as well (by a revival, a replay, or
  a repeated decision that finds them again), and claim nothing about it.
* A packet of `Gossip` that does not arrive stands for one that is lost and for
  one that goes to a node outside the model. So a decision that no packet
  carries to some node is an ordinary case even without losses: with five or
  more nodes, three transmissions cannot reach everybody.
* `LoadControl` has only the order of fill and threshold. The fill is
  `GetTraceCount`, which counts all entries of the cache, metrics and logs too.
  The medium level is set by tests only, so it occurs in `Rollup` and not here.
* `Rollup` follows the code's keys: scope name and version are joined without a
  separator, attributes count in their order, and histograms after the first are
  dropped. A batch is a sequence of points, so a metric without points is not
  represented, and a histogram is one point. Values are integers: what a float
  loses by rounding, and an integer by overflow, is left out.
* A graceful shutdown is a crash with fewer steps: `main` drains nothing. To
  `Membership` it is `Stop`, which tells the others.

## 3. The runs

All runs together take about seven minutes with two workers.

| Run | Checks | Shows |
|---|---|---|
| `timed` | `TypeOK`, `LossAccounted`, `CachedIsReachable`, `AtMostOncePerPath`, `StaleEntryWasEvicted`, `ImplementsLedger`, `EverySignalSettles` | pass, 394 k states |
| `locks_snapshot` | `TypeOK`, `RangeReadIsSnapshot`, `StopNeedsReadAgainstCallback`, `OnlyReadAgainstCallbackStops`, `ImplementsAtomicBuffer` | pass, 360 k states |
| `durable_recovery` | `TypeOK`, `AckedIsOnDisk`, `SampledDropAccounted`, `TimeBoundSurvivesCrash`, `StoredOncePerLife`, `RestartRecoversAcked` | pass, 2.3 M states |
| `trace_spans` | `TypeOK`, `SpanLossNeedsOverlap`, `SecondExportNeedsRevival` | pass, 0.8 M states |
| `sampling` | `TypeOK`, `InterestingDropAccounted`, `ExportIsJustified`, `DecisionsComeToRest` | pass, 95 k states |
| `load` | `TypeOK`, `LevelFollowsOwnLoad`, `OldNewsAccounted`, `LevelsSettle` | pass, 231 k states |
| `rollup` | `LastRunIsKept`, `PanicIsTypeClash`, `OrderIsImmaterial`, `LogsAreCountedOnce` | pass, 1.1 M states |
| `membership` | `TypeOK`, `ClusterSettles` | pass, 75 k states |
| `locks_deadlock` | `OperationsFinish` | violated: deadlock of a range read with an eviction callback |
| `durable_crash` | `SampledSurvivesCrash` | violated: replayed, not evaluated |
| `trace_logs` | `LogsGoWithTrace` | violated: deleted before they are read |
| `sampling_unheard` | `MatchReachesAllNodes` | violated: nobody tells a node of a match in a trace it holds |

Each violated property states what a document, a comment or a test says; the
`findings` of `PROJECT.json` quote it. The passing invariants bound the damage:
each names the causes of a loss, and its mutant shows that another cause would
be noticed.

* `LossAccounted`, for a signal that got into the cache: a full `evictedChan`, a
  failed export, or `raced`, that is, a signal indexed between a decision's read
  of its window, which found others there, and its removal. (What `cache.Set`
  refuses is lost before, and is outside this property.) The first of them is
  contrary to README.md:12, where evicted data is "rolled up rather than
  dropped".
* `StaleEntryWasEvicted`: an index entry without payload is left by an eviction
  that overtakes the indexing, and by nothing else. Nothing removes it.
* `SpanLossNeedsOverlap`: two handlers that merge into the same trace undo each
  other's merge, or a handler overlaps the decision loop.
* `SampledDropAccounted`: a failed exporter call, a full `decisionChan`, a batch
  that left the buffer before its own decision was taken (refused, evicted, or
  removed with its trace by another decision), a replay, which evaluates nothing.
* `InterestingDropAccounted`, across nodes: a full `decisionChan`, a decision that
  came after the span had gone or before it was put there, a broadcast not heard
  of, a match credited to the first trace of its batch. `sampling_unheard`
  exhibits a node that is never told, for one of these reasons.
* `StopNeedsReadAgainstCallback`: the state in which everybody waits is that of
  a range read and an eviction callback that wait for each other, and no other;
  `OnlyReadAgainstCallbackStops`: nothing else keeps an operation from its end.
* `LevelFollowsOwnLoad`, `OldNewsAccounted`: another node's event, an event
  dropped or overtaken.
* `LastRunIsKept`, `PanicIsTypeClash`: numbers of two kinds in one group, metrics
  of two types under one name, which stop the node.
* `StoredOncePerLife`: the log does not know what was exported, and every restart
  brings it back; within one life of the process a replay doubles nothing, as
  the receiver starts only when it has ended.

More behaviours are visible in the models and have no run of their own: two
paths may both export a signal (a rollup exports what it read although a
decision has exported and removed it since, or a signal is evicted between its
export and its removal and drained by the next rollup), which `SignalLedger`
allows; `TruncateBefore` removes nothing when every record is old, contrary to
its comment, as the log refuses to drop its last record, and leaves an old
record that is behind a younger one; a decision's window covers only the batch
it was taken for; two member lists of several members each never look for each
other, as the join loop runs on lonely nodes only (it takes four nodes).

**Bounds.**

* `timed` has two metrics, a channel for one of them, three instants and a rollup
  margin of two: enough for two signals with the same stamp, one signal in the
  channel while the other overflows, a signal that is indexed an instant after
  its stamp, at the last instant of a decision's window, and a rollup and a
  decision that overlap. With a fourth instant and two instants of arrival (1.2 M
  states up to symmetry) the safety properties hold as well, and so does
  `EverySignalSettles` for a metric and a log.
* `locks_*` has three keys in two shards, so that a read holds `mu` while it
  visits another shard, and one goroutine of each kind.
* `durable_*` has a sampled batch of spans, a batch of logs of the same trace,
  whose record is damaged, and a batch of metrics; one crash, and two instants
  with a retention of 0, so that a record is fresh in the instant of its stamp
  and old in the next, records come out of stamp order and outlive the retention.
  With two sampled batches and one of logs, all of one trace (183 k states, one
  instant), `SampledDropAccounted` holds as well.
* `trace_*` has two or three span batches, one log batch and two decisions, so
  that a second decision finds what a handler brought back.
* `sampling…` has two nodes, three batches of up to two spans, two traces, a
  channel for one decision and two transmissions: a message is lost, comes twice
  or finds the channel full. In the first workload the match is behind another
  trace of its batch; in the second both nodes decide on one trace, one of them
  by a span without trace id; in the third a node decides on a trace that is on
  both nodes, and has two handlers for it.
* `load` has two nodes, three changes of load, a channel for one event and two
  transmissions: a node's load falls, and rises again, while its first event is
  under way.
* `rollup` has all sequences of up to three of seven points, which agree or
  differ in scope, attributes, kind and type, and up to three of four records.
* `membership` has three nodes, one with a static list and two with DNS answers
  that may be partial or fail, and one fault. With two faults (515 k states,
  four minutes) it holds as well.

**Deadlock checking** is on for `Rollup`, whose level may always be set. It is
off elsewhere: in `BufferLocks` every goroutine has one operation and ends (its
deadlocks are the subject of `OnlyReadAgainstCallbackStops`), in `TimedSignals`
everything may stand still after a `Jam`, which is that deadlock, and the others
stop when all inputs, crashes or faults have been handled.

**Fairness.**

* `TimedSignals!FairSpec`: the clock advances, a handler that has set its payload
  indexes it, the consumer loop and both processor loops take their steps. The
  Go scheduler runs every runnable goroutine, the rollup ticker fires every 30 s
  and exporter calls return within 10 s. A step that needs `mu` or a shard gets
  it in the end, unless a range read and a removal wait for each other: that is
  `Jam`, after which those steps are not enabled, and `EverySignalSettles`
  promises nothing. No fairness is assumed for arrivals, decisions, evictions
  or `Jam`.
* `BufferLocks!FairSpec`: every goroutine that can step does.
* `Sampling!FairSpec`, `LoadControl!FairSpec`: handlers return, the monitor's
  ticker fires, memberlist sends what is queued (it gossips every 200 ms) and
  hands packets over, the loops run. That a packet arrives is not assumed.
  Both presume that the loops of a node are not stopped by the deadlock of
  `BufferLocks`: on such a node decisions stay in the channel.
* `Membership!FairSpec`: a node that finds itself alone at ticks without end gets
  a full answer of its discovery some time (strong fairness, as answers may
  fail or be partial in between); `Join` returns; memberlist probes and
  synchronises. That a network heals, or a node starts again, is not assumed.

## 4. The proofs

Every invariant that a run checks, except `TypeOK` of `Membership`, every action
property and both refinements are also theorems, for every value of the
constants: any number of signals, nodes, goroutines, crashes and decisions,
batches of any length, any capacity. A theorem `Spec => []P` is proved from an
invariant that is inductive, with one step per action and under it one per
conjunct that the action can disturb. What follows names the invariants and says
why `P` alone does not do.

`TimedSignalsProofs`

* `TypeCorrect`, `NoSilentLoss` (`LossAccounted`), `Reachability`
  (`CachedIsReachable`). That a removal deletes a signal is harmless only if the
  signal was exported before. `IndInv` adds `BufferInv` (a cached signal that is
  indexed is in the index, and Store is quick), `RollupInv` (what a rollup would
  find in its range it has already read, and after the export it is settled:
  nothing new appears there, because a signal not yet indexed is younger than
  the range, lemma `SetIsYoung`) and `DecisionInv` (what appears in a decision's
  window after its read is in `raced`).
* `Refinement`: the node implements `SignalLedger`, whose custody of a signal is
  `Custody`, whose copies are the locals of the loops and whose record of what
  was sent is `exportedBy`. A signal that was exported counts as held until it
  has left cache, channel and lists, so that an eviction before its removal is a
  step of the ledger and a return after it is none. It uses `PathInv`, that is,
  `IndInv` with `AcceptedFirst` (what is held, read or exported was accepted) and
  with what `OncePerPath` says of the paths; `StepAdvances` and
  `StepSeen` show, action by action, how a step may move a signal and what it
  may read, send and lose; `LossAccounted` says that what was let go was sent or
  lost.
* `NoStaleEntryByRemoval` (`StaleEntryWasEvicted`) from `StaleInv`: a signal whose
  payload is gone was evicted if it is still to be indexed, too. A deletion
  cannot come between Set and indexing, as the loops delete what they found in
  the index.
* `OncePerPath` (`AtMostOncePerPath`): `DecisionOnce`, `RollupOnce` and
  `EvictedOnce` say, for each path, that what the path has exported it cannot
  find again: what the cache still has of it, the removal that follows will
  find; and an evicted signal is at one place at a time on its way to the
  exporter.
* `BufferSteps`: the cache and the index of `TimedSignals`, without its reads,
  behave as those of `AtomicBuffer`: `BufferInv` gives that a payload is set
  when its key is in neither. No run states it, as it relates
  two models and not a model to the code.

`DurableIngestProofs`

* `TypeCorrect`, `Durability` (`AckedIsOnDisk`), `Recovery`
  (`RestartRecoversAcked`, an action property). They rest on `OnDisk` (from its
  write on, a fresh readable signal is in the log) and `ReplayInv` (a replay has
  put back what it has passed, and no decision is under way meanwhile).
  `TruncateKeepsFresh` is the heart of the first: truncation drops a prefix
  whose readable records are all older, although the records are not in stamp
  order.
* `OneStoreInEachLife` (`StoredOncePerLife`) from `WrittenInv` (only signals that
  were written are in the log) and `StoresInv`: no two records of the log are of the same signal (lemmas
  `WriteKeepsApart`, `TruncateKeepsApart`), a handler that has not come to its
  Store has stored nothing, and a replay has stored nothing that is still ahead
  of it.
* `DropsAccounted` (`SampledDropAccounted`) from `SampledInv`: a sampled batch in
  the buffer is excused already, ahead of its decision, or in the hands of the
  decision loop.
* `TimeBoundRecovery` (`TimeBoundSurvivesCrash`) from `TimeBoundInv`, which starts
  at Store and not at the answer, and from `ReplayInv`. It uses `KeysAssumption`:
  a time-bound batch shares its entry with no other, so that neither a removal
  of a trace nor a refused entry takes it along.

`TraceStoreProofs`

* `TypeCorrect`; `NoOtherLoss` (`SpanLossNeedsOverlap`) from `LossInv`: a batch
  with no excuse for its loss is in the entry, in every copy that a handler will
  write back, and in an export under way.
* `NoOtherRepeat` (`SecondExportNeedsRevival`) from `RevivalInv`: outside the
  moment between export and removal, exported spans are in the entry or in a
  handler's copy only if they were revived.

`BufferLocksProofs`

* `TypeCorrect`: locks are exclusive; a callback's shard is its caller's.
* `ReadsAreSnapshots` (`RangeReadIsSnapshot`). The interesting case is an entry
  that leaves the cache while the read is on its way to it. `LockInv` and
  `StoreInv` say who has which lock where, and that a key is indexed only after
  its payload is set; `ReadInv` says that a key of the snapshot that the read has
  not seen is in the cache, or is being removed by a goroutine that keeps its
  shard until its callback has had `mu`, which the read holds.
* `OnlyOneDeadlock` (`StopNeedsReadAgainstCallback`). `HolderInv` says that
  whoever has a mutex is at a place where it gives it back; `EverybodyWaits`
  follows the wait from holder to holder and finds that it closes only between
  a read and a callback. There is no fairness in it, so that it is within reach
  of the prover, unlike `OnlyReadAgainstCallbackStops`.
* `Atomicity` (`ImplementsAtomicBuffer`). A removal takes place as the entry
  leaves the cache: an entry whose callback still waits for `mu` counts as gone
  from the index (`index \ Victims`), and a key that its handler indexes only
  then is never seen there. A range read takes place as it locks `mu`,
  and `ReadInv` makes its result that of this instant. `VictimInv` says that an
  entry is with one callback at most, and that its key is not set anew before
  the callback has run; `AtomicStep` maps every step, action by action.

`SamplingProofs`, with `GossipProofs`

* `TypeCorrect` needs `Budget`: for each node, what is left to send of a message
  and what is under way to the node are within the limit together.
* `DropsAccounted` (`InterestingDropAccounted`) from `PlaceInv` (a span is in the
  buffer of its own node, or in a copy that a handler of this node will write
  back, and nowhere else), `NewsInv` (a decision has reached the channel of its
  own node or was dropped there) and `MissInv` (a decision about a buffered span
  that is not exported was processed before the span was put there, or not at
  all). `LeaveStep` is what eviction, `RemoveTrace` and an overwriting
  `StoreSet` have in common. The lemmas `MatchingSpan` and `Decided` carry the
  policies: whichever policy matches, some span of the batch matches it, and a
  batch with such a span is decided.
* `JustifiedExports` (`ExportIsJustified`) from `CauseInv` and the lemmas about
  the window (`LeastInteger`, `GreatestInteger`, `Bounded`).

`LoadControlProofs`, with `GossipProofs`

* `TypeCorrect`; `OwnLoad` (`LevelFollowsOwnLoad`); `OldNews`
  (`OldNewsAccounted`). `SentInv` ties the monitor's flag to its last event,
  `KnownInv` keeps unsent events off the network and a node's own events from
  coming back to it, `LevelInv` ties the level to the last event followed,
  `OrderInv` keeps a node's own events in order through its channel, and
  `LatestInv` says where the latest of them is.

`RollupProofs`

* `RecordsCounted` (`LogsAreCountedOnce`), `PanicsAreClashes`
  (`PanicIsTypeClash`), `RunsAreKept` (`LastRunIsKept`), `OrderDoesNotMatter`
  (`OrderIsImmaterial`). The state invariant only says which batch and which
  level the outputs come from; the work is an induction over the batch, whose
  hypotheses are `TypesKept` (the type of a metric is that of its first point, or
  a panic from the first clash on) and `MetricsRight` with `GroupsRight` (after
  `i` points a group has the total and the kind of its last run among them).
  The last theorem is about every order of the batch: `TotalInAnyOrder` shows
  that a total does not depend on the order, by taking out the point that comes
  last (`OneFewer`) and changing a single place of a sequence
  (`TotalChanges`). No theorem of the library gives
  induction in a form the provers can use here, so it is a lemma, `Induction`,
  about sets: a set that holds 0 and with each number the next has no least
  missing number. `LeastNatural` gets that from the well-foundedness of the
  naturals. Each recursive function has a lemma that it exists.

The assumptions are the `ASSUME`s of the modules, which TLC evaluates in the
runs. Worth knowing: `StoresAreQuick` (section 2); `KeysAssumption` (the keys of
time-bound entries hold a fresh UUID); `OneOperationEach`, as a
goroutine of `BufferLocks` performs one operation; `WorkloadsAssumption`, that a
batch is a sequence of spans with numbers for times; `PointsAssumption`, that
"empty" and "panic" are no types of points, that a value is an integer, and that
a point without a number counts as zero.

Only model-checked: the liveness properties `EverySignalSettles`,
`OnlyReadAgainstCallbackStops`, `DecisionsComeToRest`, `LevelsSettle` and
`ClusterSettles`, as fairness is beyond the prover; and `TypeOK` of `Membership`,
that is, its types with the fact that a list keeps no member it has given up:
all else that module is for is liveness.

## 5. Not modelled, and the plan

Not modelled for good: configuration, telemetry, signal types, generated code,
the encoding of messages, gRPC, Helm and the test harness (no state of their own
that matters). `ClearMetrics` and `ClearLogs` are called by tests only. The
labels that `addProcessingLabel…` puts on exported data, and the reason and
decider in a decision, are read by nobody here. Two things are only described:
that nobody consumes `evictedChan` during a replay, and that a gossip interval
of zero panics in `time.NewTicker` before it is replaced. A `Store` that returns
an error (section 2) is left out of `DurableIngest`.

What remains: a proof of `TypeOK` of `Membership`, and the two things above that
are only described. Two differences between documents and code (a full
`evictedChan` against README.md:12, a log of old records against the comment of
`TruncateBefore`) have no run of their own: section 3.
