---------------------------- MODULE DurableIngest ----------------------------
(***************************************************************************)
(* Ingestion with the write-ahead log: the three receivers and             *)
(* mainConsumer.Consume (stamp, WAL, buffer, policies, answer), the log of *)
(* internal/wal/manager.go with its truncation, and what cmd/server/main.go*)
(* does at a restart: replay the log into an empty buffer.                 *)
(*                                                                         *)
(* A signal is a batch of spans of one trace, a batch of logs that carry   *)
(* the trace's id, or a time-bound batch: metrics, or logs without a trace *)
(* id.  Spans and logs of a trace share one cache entry, a time-bound      *)
(* batch has an entry of its own.  Handlers, cache and loops run           *)
(* concurrently; Store is one step, as handlers that overlap inside it are *)
(* the subject of TraceStore and TimedSignals.  The decisions are those of *)
(* this node; Sampling is about a cluster.                                 *)
(* The node crashes at any point; what the log has taken is on disk (it is *)
(* synced with every write), everything else is gone.                      *)
(***************************************************************************)
EXTENDS Integers, Sequences

CONSTANTS
    Signals,
    Spans,          \* the signals that are spans
    TraceLogs,      \* the signals that are logs with a trace id
    KeyOf,          \* the key of each signal's cache entry
    Sampled,        \* the signals that match a policy
    Unreadable,     \* the signals whose log record cannot be read back
    Retention,      \* how long a record is kept (10 min)
    MaxTime,        \* bound on the clock
    MaxCrashes      \* bound on the number of crashes

TimeBound == Signals \ (Spans \cup TraceLogs)

ASSUME SignalsAssumption == /\ Spans \subseteq Signals
                            /\ TraceLogs \subseteq Signals \ Spans
                            /\ Sampled \subseteq Spans
                            /\ Unreadable \subseteq Signals
\* The key of a time-bound entry holds a fresh UUID.
ASSUME KeysAssumption ==
    \A s \in TimeBound : \A r \in Signals : KeyOf[r] = KeyOf[s] => r = s
ASSUME BoundsAssumption == /\ Retention \in Nat
                           /\ MaxTime \in Nat /\ MaxCrashes \in Nat

VARIABLES
    now,
    node,       \* "up", "down" or "replaying"
    pc,         \* how far each signal's handler has come
    stamp,      \* ReceivedAt
    wal,        \* the records on disk, oldest first
    replayPos,  \* the record that Replay reads next
    buffer,     \* signals in the buffer
    handed,     \* evicted time-bound signals that wait for a rollup
    decided,    \* signals with a sampling decision in decisionChan
    deciding,   \* the one whose decision is being processed, if any
    dPc,        \* how far processDecision has come with it
    dCopy,      \* the spans it has read
    toRemove,   \* time-bound signals that were exported and are to be removed
    exported,
    crashes,
    \* history, read by the properties only:
    givenUp,    \* signals lost on their way since the last restart
    late,       \* sampled ones refused, or gone before their decision was taken
    failed,     \* signals in a batch whose exporter call failed
    unheard,    \* signals whose decision found decisionChan full
    replayed,   \* signals that were put back into the buffer by a replay
    stores      \* how often each was put into the buffer since the restart

dVars == <<deciding, dPc, dCopy>>
memVars == <<buffer, handed, decided, dVars, toRemove>>
histVars == <<givenUp, late, failed, unheard, replayed, stores>>
vars == <<now, node, pc, stamp, wal, replayPos, memVars, exported,
          crashes, histVars>>

Readable(s) == s \notin Unreadable

Init ==
    /\ now = 0 /\ node = "up"
    /\ pc = [s \in Signals |-> "new"]
    /\ stamp = [s \in Signals |-> 0]
    /\ wal = <<>> /\ replayPos = 1
    /\ buffer = {} /\ handed = {} /\ decided = {}
    /\ deciding = {} /\ dPc = "idle" /\ dCopy = {} /\ toRemove = {}
    /\ exported = {} /\ crashes = 0
    /\ givenUp = {} /\ late = {} /\ failed = {} /\ unheard = {}
    /\ replayed = {} /\ stores = [s \in Signals |-> 0]

Tick ==
    /\ now < MaxTime
    /\ now' = now + 1
    /\ UNCHANGED <<node, pc, stamp, wal, replayPos, memVars,
                   exported, crashes, histVars>>

-----------------------------------------------------------------------------
(* Export of the receiver, and Consume.                                    *)

Goto(s, label) == pc' = [pc EXCEPT ![s] = label]

\* A receiver that serves before the replay has ended.
Receive_DuringReplay(s) ==
    /\ node # "down" /\ pc[s] = "new"
    /\ stamp' = [stamp EXCEPT ![s] = now]
    /\ Goto(s, "received")
    /\ UNCHANGED <<now, node, wal, replayPos, memVars, exported,
                   crashes, histVars>>

\* The stamp is taken before the log's mutex.
Receive(s) ==
    /\ node = "up" /\ pc[s] = "new"
    /\ stamp' = [stamp EXCEPT ![s] = now]
    /\ Goto(s, "received")
    /\ UNCHANGED <<now, node, wal, replayPos, memVars, exported,
                   crashes, histVars>>

\* A write that is tried again after it has reached the log.
WalWrite_Retried(s) ==
    /\ pc[s] = "received"
    /\ wal' = wal \o <<s, s>>
    /\ Goto(s, "written")
    /\ UNCHANGED <<now, node, stamp, replayPos, memVars, exported,
                   crashes, histVars>>

\* Write, at LastIndex+1, under the log's mutex.
WalWrite(s) ==
    /\ pc[s] = "received"
    /\ wal' = Append(wal, s)
    /\ Goto(s, "written")
    /\ UNCHANGED <<now, node, stamp, replayPos, memVars, exported,
                   crashes, histVars>>

\* Write fails; the client gets the error.
WalError(s) ==
    /\ pc[s] = "received"
    /\ Goto(s, "refused")
    /\ UNCHANGED <<now, node, stamp, wal, replayPos, memVars,
                   exported, crashes, histVars>>

\* The signals in the cache entries of S.
EntriesOf(S) == {r \in Signals : \E s \in S : KeyOf[r] = KeyOf[s]}

\* Signals leave the buffer, or do not get into it, and nobody exports them.
GiveUp(S) ==
    /\ givenUp' = givenUp \cup S
    /\ late' = late \cup {r \in S \cap Sampled :
                            pc[r] \in {"written", "stored"} \/ r \in decided}

\* The cache refuses the entry of s as too big and gives up what it held of it.
Refuse(s) ==
    LET lost == {s} \cup (buffer \cap EntriesOf({s})) IN
    /\ buffer' = buffer \ lost
    /\ givenUp' = givenUp \cup lost
    /\ late' = late \cup (lost \cap Sampled)

\* buffer.Store, which does not report a refused entry.
IntoBuffer(s, fits) ==
    IF fits
      THEN buffer' = buffer \cup {s} /\ UNCHANGED <<givenUp, late>>
      ELSE Refuse(s)

CountStore(s) == stores' = [stores EXCEPT ![s] = @ + 1]

Store(s, fits) ==
    /\ pc[s] = "written"
    /\ IntoBuffer(s, fits) /\ CountStore(s)
    /\ Goto(s, "stored")
    /\ UNCHANGED <<now, node, stamp, wal, replayPos, handed, decided, dVars,
                   toRemove, exported, crashes, failed, unheard, replayed>>

\* A BroadcastDecision that only tells the other nodes.
DeliverLocally_Missing(s, room) == UNCHANGED <<decided, unheard>>

\* BroadcastDecision, this node's part: the decision is dropped if the channel
\* is full, which the decisions of others help to fill.
DeliverLocally(s, room) ==
    IF room
      THEN decided' = decided \cup {s} /\ UNCHANGED unheard
      ELSE unheard' = unheard \cup {s} /\ UNCHANGED decided

\* EvaluateTrace, of spans only, takes a decision if a policy matches.  The
\* client is answered.
Evaluate(s, room) ==
    /\ pc[s] = "stored"
    /\ IF s \in Sampled
         THEN DeliverLocally(s, room)
         ELSE UNCHANGED <<decided, unheard>>
    /\ Goto(s, "acked")
    /\ UNCHANGED <<now, node, stamp, wal, replayPos, buffer, handed, dVars,
                   toRemove, exported, crashes, givenUp, late, failed, replayed,
                   stores>>

-----------------------------------------------------------------------------
(* processDecision.                                                        *)

\* An exporter call for a batch.  Its error is logged at most.
Export(batch, ok) ==
    IF ok
      THEN exported' = exported \cup batch /\ UNCHANGED <<failed, givenUp>>
      ELSE /\ failed' = failed \cup batch
           /\ givenUp' = givenUp \cup batch
           /\ UNCHANGED exported

\* GetTrace finds an entry that has spans.
TakeDecision(s) ==
    /\ dPc = "idle" /\ s \in decided
    /\ decided' = decided \ {s}
    /\ deciding' = {s}
    /\ dCopy' = EntriesOf({s}) \cap buffer \cap Spans
    /\ dPc' = IF dCopy' = {} THEN "logs" ELSE "export"
    /\ UNCHANGED <<now, node, pc, stamp, wal, replayPos, buffer, handed,
                   toRemove, exported, crashes, histVars>>

ExportTrace(ok) ==
    /\ dPc = "export"
    /\ Export(dCopy, ok)
    /\ dPc' = "remove"
    /\ UNCHANGED <<now, node, pc, stamp, wal, replayPos, buffer, handed,
                   decided, deciding, dCopy, toRemove, crashes, late, unheard,
                   replayed, stores>>

\* RemoveTrace: the whole entry goes, with its logs and with what was stored
\* since GetTrace.
RemoveTrace ==
    /\ dPc = "remove"
    /\ buffer' = buffer \ EntriesOf(deciding)
    /\ GiveUp((buffer \cap EntriesOf(deciding)) \ dCopy)
    /\ dPc' = "logs" /\ dCopy' = {}
    /\ UNCHANGED <<now, node, pc, stamp, wal, replayPos, handed, decided,
                   deciding, toRemove, exported, crashes, failed, unheard,
                   replayed, stores>>

\* GetTraceLogs and ExportLogs, of what is in the entry now; it stays there.
ExportTraceLogs(ok) ==
    /\ dPc = "logs"
    /\ Export(EntriesOf(deciding) \cap buffer \cap TraceLogs, ok)
    /\ dPc' = "idle" /\ deciding' = {}
    /\ UNCHANGED <<now, node, pc, stamp, wal, replayPos, buffer, handed,
                   decided, dCopy, toRemove, crashes, late, unheard, replayed,
                   stores>>

-----------------------------------------------------------------------------
(* Time-bound signals, which TimedSignals models in detail, and what the   *)
(* cache removes by itself.                                                *)

\* A rollup, or a decision whose window s is in, exports s.
RollUpExport(s, ok) ==
    /\ node = "up"
    /\ s \in (buffer \cup handed) \cap TimeBound
    /\ Export({s}, ok)
    /\ handed' = handed \ {s}
    /\ toRemove' = toRemove \cup ({s} \cap buffer)
    /\ UNCHANGED <<now, node, pc, stamp, wal, replayPos, buffer, decided, dVars,
                   crashes, late, unheard, replayed, stores>>

\* The removal by range that follows.
RollUpRemove(s) ==
    /\ s \in toRemove
    /\ toRemove' = toRemove \ {s}
    /\ buffer' = buffer \ {s}
    /\ UNCHANGED <<now, node, pc, stamp, wal, replayPos, handed, decided, dVars,
                   exported, crashes, histVars>>

\* A decision's removal by range takes s along, which was indexed in its window
\* after the read.
RemoveUnread(s) ==
    /\ node = "up"
    /\ s \in buffer \cap TimeBound
    /\ buffer' = buffer \ {s}
    /\ GiveUp({s})
    /\ UNCHANGED <<now, node, pc, stamp, wal, replayPos, handed, decided, dVars,
                   toRemove, exported, crashes, failed, unheard, replayed,
                   stores>>

\* An eviction hook that drops what it should hand over.
Evict_NotHanded(s, room) ==
    /\ s \in buffer
    /\ buffer' = buffer \ EntriesOf({s})
    /\ UNCHANGED <<now, node, pc, stamp, wal, replayPos, handed, decided, dVars,
                   toRemove, exported, crashes, histVars>>

\* The entry of s has expired, or its space is needed.  The eviction hook hands
\* a time-bound one over if evictedChan has room, and does nothing for a trace.
Evict(s, room) ==
    /\ s \in buffer
    /\ buffer' = buffer \ EntriesOf({s})
    /\ IF s \in TimeBound /\ room
         THEN handed' = handed \cup {s} /\ UNCHANGED <<givenUp, late>>
         ELSE GiveUp(buffer \cap EntriesOf({s})) /\ UNCHANGED handed
    /\ UNCHANGED <<now, node, pc, stamp, wal, replayPos, decided, dVars,
                   toRemove, exported, crashes, failed, unheard, replayed,
                   stores>>

-----------------------------------------------------------------------------
(* The truncation loop.                                                    *)

Cutoff == now - Retention

Older(s) == stamp[s] < Cutoff

\* The scan passes records it cannot read and stops at the first readable one
\* that is not older; truncateIndex is the last readable one it has passed.
Passed(i) == \A j \in 1..i : Readable(wal[j]) => Older(wal[j])
Passable  == {i \in DOMAIN wal : Passed(i) /\ Readable(wal[i])}

\* TruncateFront(truncateIndex+1): the log refuses to drop its last record, and
\* the truncation loop only logs the error.
TruncateFront(i) ==
    wal' = IF i < Len(wal) THEN SubSeq(wal, i + 1, Len(wal)) ELSE wal

\* A scan that does not stop at a record that is not older.
TruncateBefore_NoBreak ==
    /\ node = "up"
    /\ \E i \in DOMAIN wal :
        /\ Readable(wal[i]) /\ Older(wal[i])
        /\ \A j \in DOMAIN wal : Readable(wal[j]) /\ Older(wal[j]) => j <= i
        /\ TruncateFront(i)
    /\ UNCHANGED <<now, node, pc, stamp, replayPos, memVars, exported, crashes,
                   histVars>>

TruncateBefore ==
    /\ node = "up"
    /\ \E i \in Passable :
        /\ \A j \in Passable : j <= i
        /\ TruncateFront(i)
    /\ UNCHANGED <<now, node, pc, stamp, replayPos, memVars, exported, crashes,
                   histVars>>

-----------------------------------------------------------------------------
(* Crash and restart.                                                      *)

InProgress == {"received", "written", "stored"}

Crash ==
    /\ node # "down"
    /\ crashes < MaxCrashes
    /\ crashes' = crashes + 1
    /\ node' = "down"
    /\ pc' = [s \in Signals |-> IF pc[s] \in InProgress THEN "cut" ELSE pc[s]]
    /\ buffer' = {} /\ handed' = {} /\ decided' = {}
    /\ deciding' = {} /\ dPc' = "idle" /\ dCopy' = {} /\ toRemove' = {}
    /\ givenUp' = {} /\ stores' = [s \in Signals |-> 0]
    /\ UNCHANGED <<now, stamp, wal, replayPos, exported, late, failed,
                   unheard, replayed>>

Restart ==
    /\ node = "down"
    /\ node' = "replaying"
    /\ replayPos' = 1
    /\ UNCHANGED <<now, pc, stamp, wal, memVars, exported, crashes,
                   histVars>>

\* Replay stores the signal again and does not evaluate it.
ReplayRecord(fits) ==
    /\ node = "replaying"
    /\ replayPos <= Len(wal)
    /\ LET s == wal[replayPos] IN
        IF Readable(s)
          THEN /\ IntoBuffer(s, fits) /\ CountStore(s)
               /\ replayed' = replayed \cup {s}
          ELSE UNCHANGED <<buffer, givenUp, late, replayed, stores>>
    /\ replayPos' = replayPos + 1
    /\ UNCHANGED <<now, node, pc, stamp, wal, handed, decided, dVars, toRemove,
                   exported, crashes, failed, unheard>>

\* A replay that stops before the last record.
ReplayEnd_OneShort ==
    /\ node = "replaying"
    /\ replayPos >= Len(wal)
    /\ node' = "up"
    /\ UNCHANGED <<now, pc, stamp, wal, replayPos, memVars, exported,
                   crashes, histVars>>

ReplayEnd ==
    /\ node = "replaying"
    /\ replayPos > Len(wal)
    /\ node' = "up"
    /\ UNCHANGED <<now, pc, stamp, wal, replayPos, memVars, exported,
                   crashes, histVars>>

-----------------------------------------------------------------------------

Next ==
    \/ Tick \/ TruncateBefore
    \/ Crash \/ Restart \/ ReplayEnd
    \/ \E fits \in BOOLEAN : ReplayRecord(fits)
    \/ RemoveTrace
    \/ \E ok \in BOOLEAN : ExportTrace(ok) \/ ExportTraceLogs(ok)
    \/ \E s \in Signals :
        \/ Receive(s) \/ WalWrite(s) \/ WalError(s)
        \/ TakeDecision(s) \/ RollUpRemove(s) \/ RemoveUnread(s)
        \/ \E fits \in BOOLEAN : Store(s, fits)
        \/ \E room \in BOOLEAN : Evaluate(s, room) \/ Evict(s, room)
        \/ \E ok \in BOOLEAN : RollUpExport(s, ok)

Spec == Init /\ [][Next]_vars

-----------------------------------------------------------------------------
(* Properties.                                                             *)

NodeStates == {"up", "down", "replaying"}
Stages == {"new", "received", "written", "stored", "acked", "refused", "cut"}

\* The types of the state; only a running node has handlers in progress.
TypeOK ==
    /\ now \in Nat /\ node \in NodeStates /\ crashes \in Nat
    /\ pc \in [Signals -> Stages]
    /\ stamp \in [Signals -> Nat]
    /\ wal \in Seq(Signals) /\ replayPos \in Nat \ {0}
    /\ buffer \subseteq Signals /\ handed \subseteq Signals
    /\ decided \subseteq Signals /\ deciding \subseteq Signals
    /\ dPc \in {"idle", "export", "remove", "logs"}
    /\ dCopy \subseteq Spans /\ toRemove \subseteq TimeBound
    /\ exported \subseteq Signals /\ givenUp \subseteq Signals
    /\ late \subseteq Signals /\ failed \subseteq Signals
    /\ unheard \subseteq Signals /\ replayed \subseteq Signals
    /\ stores \in [Signals -> Nat]
    /\ node # "up" => \A s \in Signals : pc[s] \notin InProgress

InWal(s) == \E i \in DOMAIN wal : wal[i] = s

Fresh(s) == stamp[s] >= Cutoff

\* A signal whose client has been answered, and whose record is not damaged, is
\* on disk for as long as the retention promises, whatever the order in which
\* concurrent handlers reach the log, however often it is truncated, and across
\* crashes.
AckedIsOnDisk ==
    \A s \in Signals : pc[s] = "acked" /\ Fresh(s) /\ Readable(s) => InWal(s)

\* When a restart has replayed the log, every answered signal that is fresh and
\* whose record is readable is in the buffer again, or handed over for a rollup,
\* unless the cache has given it up anew.
RestartRecoversAcked ==
    [][node = "replaying" /\ node' = "up" =>
          \A s \in Signals : pc[s] = "acked" /\ Fresh(s) /\ Readable(s) =>
                                s \in buffer' \cup handed' \cup givenUp]_vars

\* Why AckedIsOnDisk and RestartRecoversAcked hold.  From its write on, a signal
\* stays in the log while it is fresh.
OnDisk ==
    \A s \in Signals :
      pc[s] \in {"written", "stored", "acked"} /\ Fresh(s) /\ Readable(s)
        => InWal(s)

\* A replay has put back what it has passed; nobody else changes the log, or
\* takes decisions, until it has ended.
ReplayInv ==
    /\ node # "up" => decided = {} /\ dPc = "idle" /\ toRemove = {}
    /\ node = "replaying" =>
         \A i \in DOMAIN wal : i < replayPos /\ Readable(wal[i]) =>
                                 wal[i] \in buffer \cup handed \cup givenUp

IndInv == TypeOK /\ OnDisk /\ ReplayInv

\* A sampled batch of spans that leaves the node unexported is dropped for one
\* of four reasons: the exporter call failed, decisionChan was full, the batch
\* left the buffer before its own decision was taken (the cache refused or
\* evicted it, or the decision of another batch removed it unread), or a replay
\* had put it into the buffer, where no decision looks for it.
SampledDropAccounted ==
    \A s \in Sampled :
      s \in givenUp =>
        s \in exported \cup dCopy \cup failed \cup unheard \cup late
                \cup replayed

\* Time-bound signals survive crashes: on a running node, an answered one that
\* is fresh and whose record is readable has been exported, or waits for a
\* rollup, or was lost anew since the last restart, in a way that TimedSignals
\* names.  (Logs with a trace id do not: no rollup looks for them.)
TimeBoundSurvivesCrash ==
    \A s \in TimeBound :
      node = "up" /\ pc[s] = "acked" /\ Fresh(s) /\ Readable(s) =>
        s \in buffer \cup handed \cup exported \cup givenUp

\* However handlers, truncations, crashes and replays fall together, a signal is
\* put into the buffer once in each life of the process at most: by its handler
\* or by the replay, and never by both, so that Store appends no batch of a
\* trace, and adds no point of a metric, a second time.
StoredOncePerLife == \A s \in Signals : stores[s] <= 1

\* docs/index.md: with the write-ahead log the data is safe from crashes.  So a
\* sampled trace that was answered is exported after a crash as it would have
\* been without one.
SampledSurvivesCrash ==
    \A s \in Sampled :
      pc[s] = "acked" /\ s \in givenUp =>
        s \in exported \cup dCopy \cup failed \cup unheard \cup late
=============================================================================
