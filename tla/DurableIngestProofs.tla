------------------------ MODULE DurableIngestProofs ------------------------
(***************************************************************************)
(* Proofs about DurableIngest, for every value of its constants: what has  *)
(* been acknowledged stays on disk while the retention lasts, a restart    *)
(* brings it back, and what is lost on the way is accounted for.           *)
(***************************************************************************)
EXTENDS DurableIngest, TLAPS

\* A fresh node has the right types.
LEMMA TypeInit == Init => TypeOK
<1> SUFFICES ASSUME Init PROVE TypeOK
  OBVIOUS
<1>1. wal \in Seq(Signals)
  BY DEF Init
<1> QED
  BY <1>1 DEF Init, TypeOK, NodeStates, Stages, InProgress

\* Every step of handlers, truncation, crash and replay keeps the types.
LEMMA TypeStep == TypeOK /\ [Next]_vars => TypeOK'
<1> SUFFICES ASSUME TypeOK, [Next]_vars PROVE TypeOK'
  OBVIOUS
<1> USE DEF TypeOK, NodeStates, Stages, InProgress, memVars, dVars,
           histVars
<1>1. CASE Tick
  BY <1>1 DEF Tick
<1>2. CASE TruncateBefore
  <2>1. PICK i \in Passable : TruncateFront(i)
    BY <1>2 DEF TruncateBefore
  <2>2. i \in 1..Len(wal)
    BY <2>1 DEF Passable
  <2>3. wal' \in Seq(Signals)
    BY <2>1, <2>2 DEF TruncateFront
  <2> QED
    BY <1>2, <2>3 DEF TruncateBefore
<1>3. CASE Crash
  BY <1>3, BoundsAssumption DEF Crash
<1>4. CASE Restart
  BY <1>4 DEF Restart
<1>5. ASSUME NEW fits \in BOOLEAN, ReplayRecord(fits) PROVE TypeOK'
  <2>1. PICK s \in Signals : s = wal[replayPos]
    BY <1>5 DEF ReplayRecord
  <2>2. CASE Readable(s)
    <3>1. IntoBuffer(s, fits) /\ CountStore(s) /\ replayed' = replayed \cup {s}
      BY <1>5, <2>1, <2>2 DEF ReplayRecord
    <3>2. stores' \in [Signals -> Nat]
      BY <3>1 DEF CountStore
    <3>3. /\ buffer' \subseteq Signals /\ givenUp' \subseteq Signals
          /\ late' \subseteq Signals /\ replayed' \subseteq Signals
      BY <3>1 DEF IntoBuffer, Refuse
    <3>4. /\ replayPos' \in Nat \ {0} /\ node' # "up" /\ node' = node
          /\ UNCHANGED <<now, pc, stamp, wal, handed, decided, dVars,
                         toRemove, exported, crashes, failed, unheard>>
      BY <1>5 DEF ReplayRecord
    <3> QED
      BY <3>2, <3>3, <3>4
  <2>3. CASE ~Readable(s)
    BY <1>5, <2>1, <2>3 DEF ReplayRecord
  <2> QED
    BY <2>2, <2>3
<1>6. CASE ReplayEnd
  BY <1>6 DEF ReplayEnd
<1>7. ASSUME NEW s \in Signals, Receive(s) PROVE TypeOK'
  BY <1>7 DEF Receive, Goto
<1>8. ASSUME NEW s \in Signals, WalWrite(s) PROVE TypeOK'
  BY <1>8 DEF WalWrite, Goto
<1>9. ASSUME NEW s \in Signals, WalError(s) PROVE TypeOK'
  BY <1>9 DEF WalError, Goto
<1>10. ASSUME NEW s \in Signals, NEW fits \in BOOLEAN, Store(s, fits)
       PROVE  TypeOK'
  BY <1>10 DEF Store, IntoBuffer, Refuse, CountStore, Goto
<1>11. ASSUME NEW s \in Signals, NEW room \in BOOLEAN, Evaluate(s, room)
       PROVE  TypeOK'
  BY <1>11 DEF Evaluate, DeliverLocally, Goto
<1>12. ASSUME NEW s \in Signals, TakeDecision(s) PROVE TypeOK'
  BY <1>12 DEF TakeDecision
<1>13. ASSUME NEW ok \in BOOLEAN, ExportTrace(ok) PROVE TypeOK'
  BY <1>13, SignalsAssumption DEF ExportTrace, Export
<1>14. CASE RemoveTrace
  BY <1>14 DEF RemoveTrace, GiveUp
<1>15. ASSUME NEW ok \in BOOLEAN, ExportTraceLogs(ok) PROVE TypeOK'
  BY <1>15 DEF ExportTraceLogs, Export
<1>16. ASSUME NEW s \in Signals, NEW ok \in BOOLEAN, RollUpExport(s, ok)
       PROVE  TypeOK'
  BY <1>16 DEF RollUpExport, Export
<1>17. ASSUME NEW s \in Signals, RollUpRemove(s) PROVE TypeOK'
  BY <1>17 DEF RollUpRemove
<1>18. ASSUME NEW s \in Signals, RemoveUnread(s) PROVE TypeOK'
  BY <1>18 DEF RemoveUnread, GiveUp
<1>19. ASSUME NEW s \in Signals, NEW room \in BOOLEAN, Evict(s, room)
       PROVE  TypeOK'
  BY <1>19 DEF Evict, GiveUp
<1>20. CASE UNCHANGED vars
  BY <1>20 DEF vars
<1> QED
  BY <1>1, <1>2, <1>3, <1>4, <1>5, <1>6, <1>7, <1>8, <1>9, <1>10, <1>11,
     <1>12, <1>13, <1>14, <1>15, <1>16, <1>17, <1>18, <1>19, <1>20 DEF Next

-----------------------------------------------------------------------------

\* A write at LastIndex+1 keeps every record and adds its own.
LEMMA WriteKeeps ==
    ASSUME wal \in Seq(Signals), NEW s \in Signals, wal' = Append(wal, s)
    PROVE  InWal(s)' /\ \A r \in Signals : InWal(r) => InWal(r)'
<1>1. Len(wal) \in Nat /\ DOMAIN wal = 1..Len(wal)
  OBVIOUS
<1>2. DOMAIN wal' = 1..(Len(wal) + 1)
  OBVIOUS
<1>3. wal'[Len(wal) + 1] = s
  OBVIOUS
<1>4. \A i \in 1..Len(wal) : wal'[i] = wal[i]
  OBVIOUS
<1>5. Len(wal) + 1 \in DOMAIN wal' /\ \A i \in DOMAIN wal : i \in DOMAIN wal'
  BY <1>1, <1>2
<1>6. InWal(s)'
  BY <1>3, <1>5 DEF InWal
<1>7. ASSUME NEW r \in Signals, InWal(r) PROVE InWal(r)'
  BY <1>1, <1>4, <1>5, <1>7 DEF InWal
<1> QED
  BY <1>6, <1>7

\* Truncation keeps every readable record that is fresh.
LEMMA TruncateKeepsFresh ==
    ASSUME TypeOK, TruncateBefore,
           NEW s \in Signals, InWal(s), Fresh(s), Readable(s)
    PROVE  InWal(s)'
<1>1. PICK i \in Passable : TruncateFront(i)
  BY DEF TruncateBefore
<1>2. i \in 1..Len(wal) /\ Passed(i) /\ wal \in Seq(Signals)
  BY <1>1 DEF Passable, TypeOK
<1>3. PICK j \in 1..Len(wal) : wal[j] = s
  BY <1>2 DEF InWal
<1>4. ~Older(s)
  BY BoundsAssumption DEF Fresh, Older, Cutoff, TypeOK
<1>5. i < j
  BY <1>2, <1>3, <1>4 DEF Passed
<1>6. wal' = SubSeq(wal, i + 1, Len(wal))
  BY <1>1, <1>2, <1>3, <1>5 DEF TruncateFront
<1>7. j - i \in DOMAIN wal' /\ wal'[j - i] = s
  BY <1>2, <1>3, <1>5, <1>6
<1> QED
  BY <1>7 DEF InWal

\* No step takes a fresh readable signal out of the log.
LEMMA OnDiskStep == TypeOK /\ TypeOK' /\ OnDisk /\ [Next]_vars => OnDisk'
<1> SUFFICES ASSUME TypeOK, TypeOK', OnDisk, [Next]_vars PROVE OnDisk'
  OBVIOUS
<1> USE BoundsAssumption DEF OnDisk, Fresh, Cutoff, Readable, InWal, TypeOK
<1>1. CASE Tick
  <2>1. \A s \in Signals : Fresh(s)' => Fresh(s)
    BY <1>1 DEF Tick
  <2> QED
    BY <1>1, <2>1 DEF Tick
<1>2. CASE TruncateBefore
  BY <1>2, TruncateKeepsFresh DEF TruncateBefore
<1>3. CASE Crash
  BY <1>3 DEF Crash, InProgress
<1>4. CASE Restart
  BY <1>4 DEF Restart
<1>5. ASSUME NEW fits \in BOOLEAN, ReplayRecord(fits) PROVE OnDisk'
  BY <1>5 DEF ReplayRecord
<1>6. CASE ReplayEnd
  BY <1>6 DEF ReplayEnd
<1>7. ASSUME NEW s \in Signals, Receive(s) PROVE OnDisk'
  BY <1>7 DEF Receive, Goto
<1>8. ASSUME NEW s \in Signals, WalWrite(s) PROVE OnDisk'
  <2>1. wal' = Append(wal, s) /\ pc' = [pc EXCEPT ![s] = "written"]
    BY <1>8 DEF WalWrite, Goto
  <2>2. InWal(s)' /\ \A r \in Signals : InWal(r) => InWal(r)'
    BY <2>1, WriteKeeps
  <2> HIDE DEF InWal
  <2> QED
    BY <1>8, <2>1, <2>2 DEF WalWrite
<1>9. ASSUME NEW s \in Signals, WalError(s) PROVE OnDisk'
  BY <1>9 DEF WalError, Goto
<1>10. ASSUME NEW s \in Signals, NEW fits \in BOOLEAN, Store(s, fits)
       PROVE  OnDisk'
  BY <1>10 DEF Store, Goto
<1>11. ASSUME NEW s \in Signals, NEW room \in BOOLEAN, Evaluate(s, room)
       PROVE  OnDisk'
  BY <1>11 DEF Evaluate, Goto
<1>12. ASSUME NEW s \in Signals, TakeDecision(s) PROVE OnDisk'
  BY <1>12 DEF TakeDecision
<1>13. ASSUME NEW ok \in BOOLEAN, ExportTrace(ok) PROVE OnDisk'
  BY <1>13 DEF ExportTrace
<1>14. CASE RemoveTrace
  BY <1>14 DEF RemoveTrace
<1>15. ASSUME NEW ok \in BOOLEAN, ExportTraceLogs(ok) PROVE OnDisk'
  BY <1>15 DEF ExportTraceLogs
<1>16. ASSUME NEW s \in Signals, NEW ok \in BOOLEAN, RollUpExport(s, ok)
       PROVE  OnDisk'
  BY <1>16 DEF RollUpExport
<1>17. ASSUME NEW s \in Signals, RollUpRemove(s) PROVE OnDisk'
  BY <1>17 DEF RollUpRemove
<1>18. ASSUME NEW s \in Signals, RemoveUnread(s) PROVE OnDisk'
  BY <1>18 DEF RemoveUnread
<1>19. ASSUME NEW s \in Signals, NEW room \in BOOLEAN, Evict(s, room)
       PROVE  OnDisk'
  BY <1>19 DEF Evict
<1>20. CASE UNCHANGED vars
  BY <1>20 DEF vars
<1> HIDE DEF OnDisk, Fresh, Cutoff, Readable, InWal, TypeOK
<1> QED
  BY <1>1, <1>2, <1>3, <1>4, <1>5, <1>6, <1>7, <1>8, <1>9, <1>10, <1>11,
     <1>12, <1>13, <1>14, <1>15, <1>16, <1>17, <1>18, <1>19, <1>20 DEF Next

\* A replay keeps what it has put back, as nobody else changes the log.
LEMMA ReplayStep == TypeOK /\ ReplayInv /\ [Next]_vars => ReplayInv'
<1> SUFFICES ASSUME TypeOK, ReplayInv, [Next]_vars PROVE ReplayInv'
  OBVIOUS
<1> USE DEF ReplayInv, Readable, TypeOK, memVars, dVars, histVars
<1>1. CASE Tick
  BY <1>1 DEF Tick
<1>2. CASE TruncateBefore
  BY <1>2 DEF TruncateBefore
<1>3. CASE Crash
  BY <1>3 DEF Crash
<1>4. CASE Restart
  BY <1>4 DEF Restart
<1>5. ASSUME NEW fits \in BOOLEAN, ReplayRecord(fits) PROVE ReplayInv'
  <2>1. /\ node = "replaying" /\ replayPos' = replayPos + 1
        /\ UNCHANGED <<node, wal, handed, decided, dPc, toRemove>>
    BY <1>5 DEF ReplayRecord
  <2>2. PICK s \in Signals : s = wal[replayPos]
    BY <1>5 DEF ReplayRecord
  <2>3. buffer \cup givenUp \subseteq buffer' \cup givenUp'
    BY <1>5 DEF ReplayRecord, IntoBuffer, Refuse
  <2>4. Readable(s) => s \in buffer' \cup givenUp'
    BY <1>5, <2>2 DEF ReplayRecord, IntoBuffer, Refuse
  <2> QED
    BY <2>1, <2>2, <2>3, <2>4
<1>6. CASE ReplayEnd
  BY <1>6 DEF ReplayEnd
<1>7. ASSUME NEW s \in Signals, Receive(s) PROVE ReplayInv'
  BY <1>7 DEF Receive
<1>8. ASSUME NEW s \in Signals, WalWrite(s) PROVE ReplayInv'
  BY <1>8 DEF WalWrite, InProgress
<1>9. ASSUME NEW s \in Signals, WalError(s) PROVE ReplayInv'
  BY <1>9 DEF WalError
<1>10. ASSUME NEW s \in Signals, NEW fits \in BOOLEAN, Store(s, fits)
       PROVE  ReplayInv'
  BY <1>10 DEF Store, InProgress
<1>11. ASSUME NEW s \in Signals, NEW room \in BOOLEAN, Evaluate(s, room)
       PROVE  ReplayInv'
  BY <1>11 DEF Evaluate, InProgress
<1>12. ASSUME NEW s \in Signals, TakeDecision(s) PROVE ReplayInv'
  BY <1>12 DEF TakeDecision
<1>13. ASSUME NEW ok \in BOOLEAN, ExportTrace(ok) PROVE ReplayInv'
  BY <1>13 DEF ExportTrace
<1>14. CASE RemoveTrace
  BY <1>14 DEF RemoveTrace
<1>15. ASSUME NEW ok \in BOOLEAN, ExportTraceLogs(ok) PROVE ReplayInv'
  BY <1>15 DEF ExportTraceLogs
<1>16. ASSUME NEW s \in Signals, NEW ok \in BOOLEAN, RollUpExport(s, ok)
       PROVE  ReplayInv'
  BY <1>16 DEF RollUpExport
<1>17. ASSUME NEW s \in Signals, RollUpRemove(s) PROVE ReplayInv'
  BY <1>17 DEF RollUpRemove
<1>18. ASSUME NEW s \in Signals, RemoveUnread(s) PROVE ReplayInv'
  BY <1>18 DEF RemoveUnread
<1>19. ASSUME NEW s \in Signals, NEW room \in BOOLEAN, Evict(s, room)
       PROVE  ReplayInv'
  <2>1. CASE s \in TimeBound /\ room
    BY <1>19, <2>1, KeysAssumption DEF Evict, EntriesOf
  <2>2. CASE ~(s \in TimeBound /\ room)
    BY <1>19, <2>2 DEF Evict, GiveUp
  <2> QED
    BY <2>1, <2>2
<1>20. CASE UNCHANGED vars
  BY <1>20 DEF vars
<1> QED
  BY <1>1, <1>2, <1>3, <1>4, <1>5, <1>6, <1>7, <1>8, <1>9, <1>10, <1>11,
     <1>12, <1>13, <1>14, <1>15, <1>16, <1>17, <1>18, <1>19, <1>20 DEF Next

\* The invariant holds initially, and every step keeps it.
LEMMA IndInvInductive == (Init => IndInv) /\ (IndInv /\ [Next]_vars => IndInv')
<1>1. Init => IndInv
  BY TypeInit DEF Init, IndInv, OnDisk, ReplayInv
<1>2. IndInv /\ [Next]_vars => IndInv'
  BY TypeStep, OnDiskStep, ReplayStep DEF IndInv
<1> QED
  BY <1>1, <1>2

\* What Consume has acknowledged is in the log for as long as the retention
\* lasts, across concurrent writes, truncations and crashes.
THEOREM Durability == Spec => []AckedIsOnDisk
<1>1. IndInv => AckedIsOnDisk
  BY DEF IndInv, OnDisk, AckedIsOnDisk
<1> QED
  BY <1>1, IndInvInductive, PTL DEF Spec

\* When the replay of a restart ends, what was acknowledged and is fresh is in
\* the buffer again or handed over, or the cache has given it up once more.
THEOREM Recovery == Spec => RestartRecoversAcked
<1>1. ASSUME IndInv, [Next]_vars, node = "replaying", node' = "up",
             NEW s \in Signals, pc[s] = "acked", Fresh(s), Readable(s)
      PROVE  s \in buffer' \cup handed' \cup givenUp
  <2>1. ReplayEnd
    BY <1>1 DEF Next, vars, Tick, TruncateBefore, Crash, Restart, ReplayRecord,
                Receive, WalWrite, WalError, Store, Evaluate, TakeDecision,
                ExportTrace, RemoveTrace, ExportTraceLogs, RollUpExport,
                RollUpRemove, RemoveUnread, Evict
  <2>2. PICK i \in DOMAIN wal : wal[i] = s
    BY <1>1 DEF IndInv, OnDisk, InWal
  <2>3. i < replayPos
    BY <2>1, <2>2, <1>1 DEF ReplayEnd, IndInv, TypeOK
  <2> QED
    BY <1>1, <2>1, <2>2, <2>3 DEF IndInv, ReplayInv, ReplayEnd, memVars
<1>2. IndInv /\ [Next]_vars =>
        [node = "replaying" /\ node' = "up" =>
          \A s \in Signals : pc[s] = "acked" /\ Fresh(s) /\ Readable(s) =>
                                s \in buffer' \cup handed' \cup givenUp]_vars
  BY <1>1
<1> QED
  BY <1>2, IndInvInductive, PTL DEF Spec, RestartRecoversAcked

\* Every reachable state has the right types, and only a running node has
\* handlers in progress.
THEOREM TypeCorrect == Spec => []TypeOK
<1>1. IndInv => TypeOK
  BY DEF IndInv
<1> QED
  BY <1>1, IndInvInductive, PTL DEF Spec

-----------------------------------------------------------------------------
(* Where a signal is, and why it is there.                                 *)

\* Only what a handler has written is in the log.
WrittenInv ==
    \A s \in Signals : InWal(s) => pc[s] \notin {"new", "received", "refused"}

\* A sampled batch in the buffer that was neither exported nor replayed is ahead
\* of its decision, or its decision found the channel full, or processDecision
\* has read it; what that has read is exported before it is removed.
SampledInv ==
    /\ dPc \in {"idle", "logs"} => dCopy = {}
    /\ dPc = "remove" => dCopy \subseteq exported \cup failed
    /\ \A s \in Sampled \cap buffer :
         \/ s \in exported \cup failed \cup unheard \cup replayed
         \/ s \in decided \cup dCopy
         \/ pc[s] = "stored"

\* From its Store on, a time-bound signal of a running node is somewhere, and
\* the removals that are due are of signals that were in an exporter's batch.
TimeBoundInv ==
    /\ toRemove \subseteq exported \cup givenUp
    /\ \A s \in TimeBound :
         node = "up" /\ pc[s] \in {"stored", "acked"}
           /\ Fresh(s) /\ Readable(s)
             => s \in buffer \cup handed \cup exported \cup givenUp

\* Truncation only takes records away.
LEMMA TruncateAddsNothing ==
    ASSUME TypeOK, TruncateBefore, NEW s \in Signals, InWal(s)'
    PROVE  InWal(s)
<1>1. PICK i \in Passable : TruncateFront(i)
  BY DEF TruncateBefore
<1>2. i \in 1..Len(wal) /\ wal \in Seq(Signals)
  BY <1>1 DEF Passable, TypeOK
<1>3. CASE wal' = wal
  BY <1>3 DEF InWal
<1>4. CASE i < Len(wal) /\ wal' = SubSeq(wal, i + 1, Len(wal))
  <2>1. PICK j \in DOMAIN wal' : wal'[j] = s
    BY DEF InWal
  <2>2. j \in 1..(Len(wal) - i) /\ wal[i + j] = s
    BY <1>2, <1>4, <2>1
  <2>3. i + j \in DOMAIN wal
    BY <1>2, <2>2
  <2> QED
    BY <2>2, <2>3 DEF InWal
<1> QED
  BY <1>1, <1>3, <1>4 DEF TruncateFront

\* A write adds its own record only.
LEMMA WriteAddsOne ==
    ASSUME wal \in Seq(Signals), NEW s \in Signals, wal' = Append(wal, s),
           NEW r \in Signals, InWal(r)'
    PROVE  r = s \/ InWal(r)
<1>1. PICK j \in DOMAIN wal' : wal'[j] = r
  BY DEF InWal
<1>2. j \in 1..(Len(wal) + 1) /\ DOMAIN wal = 1..Len(wal) /\ Len(wal) \in Nat
  BY <1>1
<1>3. CASE j = Len(wal) + 1
  BY <1>1, <1>3
<1>4. CASE j \in 1..Len(wal)
  BY <1>1, <1>2, <1>4 DEF InWal
<1> QED
  BY <1>2, <1>3, <1>4

\* No step brings a record of a signal that has not been written.
LEMMA WrittenStep == TypeOK /\ WrittenInv /\ [Next]_vars => WrittenInv'
<1> SUFFICES ASSUME TypeOK, WrittenInv, [Next]_vars PROVE WrittenInv'
  OBVIOUS
<1> DEFINE Kept == wal' = wal => \A s \in Signals : InWal(s)' <=> InWal(s)
<1>0. Kept
  BY DEF InWal
<1> USE <1>0 DEF WrittenInv, TypeOK
<1>1. CASE Tick
  BY <1>1 DEF Tick
<1>2. CASE TruncateBefore
  BY <1>2, TruncateAddsNothing DEF TruncateBefore
<1>3. CASE Crash
  BY <1>3 DEF Crash, InProgress
<1>4. CASE Restart
  BY <1>4 DEF Restart
<1>5. ASSUME NEW fits \in BOOLEAN, ReplayRecord(fits) PROVE WrittenInv'
  BY <1>5 DEF ReplayRecord
<1>6. CASE ReplayEnd
  BY <1>6 DEF ReplayEnd
<1>7. ASSUME NEW s \in Signals, Receive(s) PROVE WrittenInv'
  BY <1>7 DEF Receive, Goto
<1>8. ASSUME NEW s \in Signals, WalWrite(s) PROVE WrittenInv'
  <2>1. \A r \in Signals : InWal(r)' => r = s \/ InWal(r)
    BY <1>8, WriteAddsOne DEF WalWrite
  <2> QED
    BY <1>8, <2>1 DEF WalWrite, Goto
<1>9. ASSUME NEW s \in Signals, WalError(s) PROVE WrittenInv'
  BY <1>9 DEF WalError, Goto
<1>10. ASSUME NEW s \in Signals, NEW fits \in BOOLEAN, Store(s, fits)
       PROVE  WrittenInv'
  BY <1>10 DEF Store, Goto
<1>11. ASSUME NEW s \in Signals, NEW room \in BOOLEAN, Evaluate(s, room)
       PROVE  WrittenInv'
  BY <1>11 DEF Evaluate, Goto
<1>12. ASSUME NEW s \in Signals, TakeDecision(s) PROVE WrittenInv'
  BY <1>12 DEF TakeDecision
<1>13. ASSUME NEW ok \in BOOLEAN, ExportTrace(ok) PROVE WrittenInv'
  BY <1>13 DEF ExportTrace
<1>14. CASE RemoveTrace
  BY <1>14 DEF RemoveTrace
<1>15. ASSUME NEW ok \in BOOLEAN, ExportTraceLogs(ok) PROVE WrittenInv'
  BY <1>15 DEF ExportTraceLogs
<1>16. ASSUME NEW s \in Signals, NEW ok \in BOOLEAN, RollUpExport(s, ok)
       PROVE  WrittenInv'
  BY <1>16 DEF RollUpExport
<1>17. ASSUME NEW s \in Signals, RollUpRemove(s) PROVE WrittenInv'
  BY <1>17 DEF RollUpRemove
<1>18. ASSUME NEW s \in Signals, RemoveUnread(s) PROVE WrittenInv'
  BY <1>18 DEF RemoveUnread
<1>19. ASSUME NEW s \in Signals, NEW room \in BOOLEAN, Evict(s, room)
       PROVE  WrittenInv'
  BY <1>19 DEF Evict
<1>20. CASE UNCHANGED vars
  BY <1>20 DEF vars
<1> QED
  BY <1>1, <1>2, <1>3, <1>4, <1>5, <1>6, <1>7, <1>8, <1>9, <1>10, <1>11,
     <1>12, <1>13, <1>14, <1>15, <1>16, <1>17, <1>18, <1>19, <1>20 DEF Next

\* The log holds a record once.  A handler counts its signal's store when it
\* leaves "written"; a dead node has stored nothing, and a replay has stored
\* only records it has passed.
StoresInv ==
    /\ \A s \in Signals :
         /\ stores[s] <= 1
         /\ pc[s] \in {"new", "received", "written", "refused"} =>
              stores[s] = 0
         /\ node = "down" => stores[s] = 0
    /\ \A i, j \in DOMAIN wal : wal[i] = wal[j] => i = j
    /\ node = "replaying" =>
         \A i \in DOMAIN wal : i >= replayPos => stores[wal[i]] = 0

\* A write of a signal that the log does not hold keeps its records apart.
LEMMA WriteKeepsApart ==
    ASSUME wal \in Seq(Signals), NEW s \in Signals, wal' = Append(wal, s),
           ~InWal(s), \A i, j \in DOMAIN wal : wal[i] = wal[j] => i = j,
           NEW i \in DOMAIN wal', NEW j \in DOMAIN wal', wal'[i] = wal'[j]
    PROVE  i = j
<1>1. Len(wal) \in Nat /\ DOMAIN wal = 1..Len(wal)
  OBVIOUS
<1>2. i \in 1..(Len(wal) + 1) /\ j \in 1..(Len(wal) + 1)
  OBVIOUS
<1>3. wal'[Len(wal) + 1] = s /\ \A k \in 1..Len(wal) : wal'[k] = wal[k]
  OBVIOUS
<1>4. \A k \in 1..Len(wal) : wal[k] # s
  BY <1>1 DEF InWal
<1>5. CASE i \in 1..Len(wal) /\ j \in 1..Len(wal)
  BY <1>1, <1>3, <1>5
<1>6. CASE i = Len(wal) + 1 \/ j = Len(wal) + 1
  BY <1>1, <1>2, <1>3, <1>4, <1>6
<1> QED
  BY <1>1, <1>2, <1>5, <1>6

\* So does a truncation.
LEMMA TruncateKeepsApart ==
    ASSUME TypeOK, TruncateBefore,
           \A i, j \in DOMAIN wal : wal[i] = wal[j] => i = j,
           NEW i \in DOMAIN wal', NEW j \in DOMAIN wal', wal'[i] = wal'[j]
    PROVE  i = j
<1>1. PICK k \in Passable : TruncateFront(k)
  BY DEF TruncateBefore
<1>2. k \in 1..Len(wal) /\ wal \in Seq(Signals)
  BY <1>1 DEF Passable, TypeOK
<1>3. CASE wal' = wal
  BY <1>3
<1>4. CASE k < Len(wal) /\ wal' = SubSeq(wal, k + 1, Len(wal))
  <2>1. i \in 1..(Len(wal) - k) /\ wal'[i] = wal[k + i]
    BY <1>2, <1>4
  <2>2. j \in 1..(Len(wal) - k) /\ wal'[j] = wal[k + j]
    BY <1>2, <1>4
  <2>3. k + i \in DOMAIN wal /\ k + j \in DOMAIN wal
    BY <1>2, <2>1, <2>2
  <2>4. k + i = k + j
    BY <2>1, <2>2, <2>3
  <2> QED
    BY <1>2, <2>1, <2>2, <2>4
<1> QED
  BY <1>1, <1>3, <1>4 DEF TruncateFront

\* No step stores a signal that was stored since the last restart.
LEMMA StoresStep ==
    TypeOK /\ WrittenInv /\ StoresInv /\ [Next]_vars => StoresInv'
<1> SUFFICES ASSUME TypeOK, WrittenInv, StoresInv, [Next]_vars PROVE StoresInv'
  OBVIOUS
<1> USE DEF StoresInv, TypeOK, memVars, histVars
<1>1. CASE UNCHANGED <<node, pc, wal, replayPos, stores>>
  BY <1>1
<1>2. CASE TruncateBefore
  <2>1. \A i, j \in DOMAIN wal' : wal'[i] = wal'[j] => i = j
    BY <1>2, TruncateKeepsApart
  <2>2. node = "up" /\ UNCHANGED <<node, pc, stores>>
    BY <1>2 DEF TruncateBefore
  <2> QED
    BY <2>1, <2>2
<1>3. CASE Crash
  BY <1>3 DEF Crash
<1>4. CASE Restart
  BY <1>4 DEF Restart
<1>5. ASSUME NEW fits \in BOOLEAN, ReplayRecord(fits) PROVE StoresInv'
  <2>1. /\ node = "replaying" /\ replayPos \in DOMAIN wal
        /\ replayPos' = replayPos + 1 /\ UNCHANGED <<node, pc, wal>>
    BY <1>5 DEF ReplayRecord
  <2>2. PICK s \in Signals : s = wal[replayPos]
    BY <2>1
  <2>3. CASE stores' = stores
    BY <2>1, <2>3
  <2>4. CASE stores' = [stores EXCEPT ![s] = @ + 1]
    <3>1. pc[s] \notin {"new", "received", "written", "refused"}
      BY <2>1, <2>2 DEF WrittenInv, InWal, InProgress
    <3>2. stores[s] = 0
      BY <2>1, <2>2
    <3>3. \A i \in DOMAIN wal : i > replayPos => wal[i] # s
      BY <2>1, <2>2
    <3>4. /\ stores'[s] = 1
          /\ \A r \in Signals \ {s} : stores'[r] = stores[r]
      BY <2>4, <3>2
    <3>5. ASSUME NEW i \in DOMAIN wal, i >= replayPos'
          PROVE  stores'[wal[i]] = 0
      <4>1. i > replayPos /\ wal[i] \in Signals
        BY <2>1, <3>5
      <4>2. stores[wal[i]] = 0
        BY <2>1, <4>1
      <4>3. wal[i] # s
        BY <3>3, <4>1
      <4> HIDE DEF TypeOK, StoresInv
      <4> QED
        BY <3>4, <4>1, <4>2, <4>3
    <3>6. ASSUME NEW r \in Signals PROVE stores'[r] <= 1
      <4>1. stores[r] <= 1
        OBVIOUS
      <4> HIDE DEF TypeOK, StoresInv
      <4> QED
        BY <3>4, <4>1
    <3>7. ASSUME NEW r \in Signals,
                 pc[r] \in {"new", "received", "written", "refused"}
          PROVE  stores'[r] = 0
      <4>1. stores[r] = 0 /\ r # s
        BY <3>1, <3>7
      <4> QED
        BY <3>4, <4>1
    <3> HIDE DEF TypeOK
    <3> QED
      BY <2>1, <3>5, <3>6, <3>7
  <2> QED
    BY <1>5, <2>2, <2>3, <2>4 DEF ReplayRecord, CountStore
<1>6. CASE ReplayEnd
  BY <1>6 DEF ReplayEnd
<1>7. ASSUME NEW s \in Signals, Receive(s) PROVE StoresInv'
  BY <1>7 DEF Receive, Goto
<1>8. ASSUME NEW s \in Signals, WalWrite(s) PROVE StoresInv'
  <2>1. /\ pc[s] = "received" /\ pc' = [pc EXCEPT ![s] = "written"]
        /\ node = "up" /\ UNCHANGED <<node, stores>>
        /\ wal' = Append(wal, s)
    BY <1>8 DEF WalWrite, Goto, InProgress
  <2>2. ~InWal(s)
    BY <2>1 DEF WrittenInv
  <2>3. \A i, j \in DOMAIN wal' : wal'[i] = wal'[j] => i = j
    BY <2>1, <2>2, WriteKeepsApart
  <2> QED
    BY <2>1, <2>3
<1>9. ASSUME NEW s \in Signals, WalError(s) PROVE StoresInv'
  BY <1>9 DEF WalError, Goto
<1>10. ASSUME NEW s \in Signals, NEW fits \in BOOLEAN, Store(s, fits)
       PROVE  StoresInv'
  <2>1. /\ pc[s] = "written" /\ pc' = [pc EXCEPT ![s] = "stored"]
        /\ node = "up" /\ UNCHANGED <<node, wal>>
        /\ stores' = [stores EXCEPT ![s] = @ + 1]
    BY <1>10 DEF Store, CountStore, Goto, InProgress
  <2>2. stores[s] = 0
    BY <2>1
  <2> QED
    BY <2>1, <2>2
<1>11. ASSUME NEW s \in Signals, NEW room \in BOOLEAN, Evaluate(s, room)
       PROVE  StoresInv'
  BY <1>11 DEF Evaluate, Goto
<1>12. ASSUME NEW s \in Signals, TakeDecision(s) PROVE StoresInv'
  BY <1>12, <1>1 DEF TakeDecision
<1>13. ASSUME NEW ok \in BOOLEAN, ExportTrace(ok) PROVE StoresInv'
  BY <1>13, <1>1 DEF ExportTrace
<1>14. CASE RemoveTrace
  BY <1>14, <1>1 DEF RemoveTrace
<1>15. ASSUME NEW ok \in BOOLEAN, ExportTraceLogs(ok) PROVE StoresInv'
  BY <1>15, <1>1 DEF ExportTraceLogs
<1>16. ASSUME NEW s \in Signals, NEW ok \in BOOLEAN, RollUpExport(s, ok)
       PROVE  StoresInv'
  BY <1>16, <1>1 DEF RollUpExport
<1>17. ASSUME NEW s \in Signals, RollUpRemove(s) PROVE StoresInv'
  BY <1>17, <1>1 DEF RollUpRemove
<1>18. ASSUME NEW s \in Signals, RemoveUnread(s) PROVE StoresInv'
  BY <1>18, <1>1 DEF RemoveUnread
<1>19. ASSUME NEW s \in Signals, NEW room \in BOOLEAN, Evict(s, room)
       PROVE  StoresInv'
  BY <1>19, <1>1 DEF Evict
<1>20. CASE Tick \/ UNCHANGED vars
  BY <1>1, <1>20 DEF Tick, vars
<1> QED
  BY <1>1, <1>2, <1>3, <1>4, <1>5, <1>6, <1>7, <1>8, <1>9, <1>10, <1>11,
     <1>12, <1>13, <1>14, <1>15, <1>16, <1>17, <1>18, <1>19, <1>20 DEF Next

\* A signal is stored at most once in each life of the process, by its handler
\* or by the replay.
THEOREM OneStoreInEachLife == Spec => []StoredOncePerLife
<1>1. Init => WrittenInv /\ StoresInv
  BY DEF Init, WrittenInv, StoresInv, InWal
<1>2. StoresInv => StoredOncePerLife
  BY DEF StoresInv, StoredOncePerLife
<1> QED
  BY <1>1, <1>2, IndInvInductive, WrittenStep, StoresStep, PTL DEF Spec, IndInv

\* A sampled batch leaves the buffer without an export only with its reason on
\* record.
LEMMA SampledStep ==
    TypeOK /\ SampledInv /\ SampledDropAccounted /\ [Next]_vars =>
      SampledInv' /\ SampledDropAccounted'
<1> DEFINE Goal == SampledInv' /\ SampledDropAccounted'
<1> SUFFICES ASSUME TypeOK, SampledInv, SampledDropAccounted, [Next]_vars
             PROVE  Goal
  OBVIOUS
<1> USE SignalsAssumption
    DEF SampledInv, SampledDropAccounted, TypeOK, memVars, dVars,
        histVars
<1>1. CASE Tick
  BY <1>1 DEF Tick
<1>2. CASE TruncateBefore
  BY <1>2 DEF TruncateBefore
<1>3. CASE Crash
  BY <1>3 DEF Crash
<1>4. CASE Restart
  BY <1>4 DEF Restart
<1>5. ASSUME NEW fits \in BOOLEAN, ReplayRecord(fits) PROVE Goal
  BY <1>5 DEF ReplayRecord, IntoBuffer, Refuse
<1>6. CASE ReplayEnd
  BY <1>6 DEF ReplayEnd
<1>7. ASSUME NEW s \in Signals, Receive(s) PROVE Goal
  BY <1>7 DEF Receive, Goto
<1>8. ASSUME NEW s \in Signals, WalWrite(s) PROVE Goal
  BY <1>8 DEF WalWrite, Goto
<1>9. ASSUME NEW s \in Signals, WalError(s) PROVE Goal
  BY <1>9 DEF WalError, Goto
<1>10. ASSUME NEW s \in Signals, NEW fits \in BOOLEAN, Store(s, fits) PROVE Goal
  BY <1>10 DEF Store, IntoBuffer, Refuse, CountStore, Goto
<1>11. ASSUME NEW s \in Signals, NEW room \in BOOLEAN, Evaluate(s, room)
       PROVE  Goal
  BY <1>11 DEF Evaluate, DeliverLocally, Goto
<1>12. ASSUME NEW s \in Signals, TakeDecision(s) PROVE Goal
  BY <1>12 DEF TakeDecision, EntriesOf
<1>13. ASSUME NEW ok \in BOOLEAN, ExportTrace(ok) PROVE Goal
  BY <1>13 DEF ExportTrace, Export
<1>14. CASE RemoveTrace
  BY <1>14 DEF RemoveTrace, GiveUp
<1>15. ASSUME NEW ok \in BOOLEAN, ExportTraceLogs(ok) PROVE Goal
  BY <1>15 DEF ExportTraceLogs, Export
<1>16. ASSUME NEW s \in Signals, NEW ok \in BOOLEAN, RollUpExport(s, ok)
       PROVE  Goal
  BY <1>16 DEF RollUpExport, Export
<1>17. ASSUME NEW s \in Signals, RollUpRemove(s) PROVE Goal
  BY <1>17 DEF RollUpRemove
<1>18. ASSUME NEW s \in Signals, RemoveUnread(s) PROVE Goal
  BY <1>18 DEF RemoveUnread, GiveUp, TimeBound
<1>19. ASSUME NEW s \in Signals, NEW room \in BOOLEAN, Evict(s, room) PROVE Goal
  BY <1>19 DEF Evict, GiveUp
<1>20. CASE UNCHANGED vars
  BY <1>20 DEF vars
<1> QED
  BY <1>1, <1>2, <1>3, <1>4, <1>5, <1>6, <1>7, <1>8, <1>9, <1>10, <1>11,
     <1>12, <1>13, <1>14, <1>15, <1>16, <1>17, <1>18, <1>19, <1>20 DEF Next

\* A sampled batch that is given up unexported was in a failed exporter call,
\* unheard, late or replayed: there is no fifth way to lose it.
THEOREM DropsAccounted == Spec => []SampledDropAccounted
<1>1. Init => SampledInv /\ SampledDropAccounted
  BY DEF Init, SampledInv, SampledDropAccounted
<1> QED
  BY <1>1, IndInvInductive, SampledStep, PTL DEF Spec, IndInv

\* A running node keeps every time-bound signal it has stored, and the end of a
\* replay has every answered one again.
LEMMA TimeBoundStep ==
    IndInv /\ TimeBoundInv /\ [Next]_vars => TimeBoundInv'
<1> SUFFICES ASSUME IndInv, TimeBoundInv, [Next]_vars PROVE TimeBoundInv'
  OBVIOUS
<1> USE BoundsAssumption
    DEF IndInv, TimeBoundInv, Fresh, Cutoff, TypeOK, memVars,
        dVars, histVars
<1>1. CASE Tick
  <2>1. \A s \in Signals : Fresh(s)' => Fresh(s)
    BY <1>1 DEF Tick
  <2> QED
    BY <1>1, <2>1 DEF Tick, TimeBound
<1>2. CASE TruncateBefore
  BY <1>2 DEF TruncateBefore
<1>3. CASE Crash
  BY <1>3 DEF Crash
<1>4. CASE Restart
  BY <1>4 DEF Restart
<1>5. ASSUME NEW fits \in BOOLEAN, ReplayRecord(fits) PROVE TimeBoundInv'
  BY <1>5 DEF ReplayRecord, ReplayInv
<1>6. CASE ReplayEnd
  <2>0. toRemove' \subseteq exported' \cup givenUp'
    BY <1>6 DEF ReplayEnd
  <2> SUFFICES ASSUME NEW s \in TimeBound,
                      pc'[s] \in {"stored", "acked"}, Fresh(s)', Readable(s)
               PROVE  s \in (buffer \cup handed \cup exported \cup givenUp)'
    BY <2>0 DEF Readable
  <2>1. s \in Signals /\ pc[s] = "acked" /\ Fresh(s)
    BY <1>6 DEF ReplayEnd, InProgress, TimeBound
  <2>2. PICK i \in DOMAIN wal : wal[i] = s
    BY <2>1 DEF OnDisk, InWal
  <2>3. i < replayPos
    BY <1>6, <2>2 DEF ReplayEnd
  <2>4. s \in buffer \cup handed \cup givenUp
    BY <1>6, <2>2, <2>3 DEF ReplayInv, ReplayEnd
  <2> QED
    BY <1>6, <2>4 DEF ReplayEnd
<1>7. ASSUME NEW s \in Signals, Receive(s) PROVE TimeBoundInv'
  BY <1>7 DEF Receive, Goto
<1>8. ASSUME NEW s \in Signals, WalWrite(s) PROVE TimeBoundInv'
  BY <1>8 DEF WalWrite, Goto
<1>9. ASSUME NEW s \in Signals, WalError(s) PROVE TimeBoundInv'
  BY <1>9 DEF WalError, Goto
<1>10. ASSUME NEW s \in Signals, NEW fits \in BOOLEAN, Store(s, fits)
       PROVE  TimeBoundInv'
  BY <1>10 DEF Store, IntoBuffer, Refuse, Goto, TimeBound
<1>11. ASSUME NEW s \in Signals, NEW room \in BOOLEAN, Evaluate(s, room)
       PROVE  TimeBoundInv'
  BY <1>11 DEF Evaluate, Goto
<1>12. ASSUME NEW s \in Signals, TakeDecision(s) PROVE TimeBoundInv'
  BY <1>12 DEF TakeDecision
<1>13. ASSUME NEW ok \in BOOLEAN, ExportTrace(ok) PROVE TimeBoundInv'
  BY <1>13 DEF ExportTrace, Export
<1>14. CASE RemoveTrace
  BY <1>14, SignalsAssumption DEF RemoveTrace, GiveUp, TimeBound
<1>15. ASSUME NEW ok \in BOOLEAN, ExportTraceLogs(ok) PROVE TimeBoundInv'
  BY <1>15 DEF ExportTraceLogs, Export
<1>16. ASSUME NEW s \in Signals, NEW ok \in BOOLEAN, RollUpExport(s, ok)
       PROVE  TimeBoundInv'
  BY <1>16 DEF RollUpExport, Export
<1>17. ASSUME NEW s \in Signals, RollUpRemove(s) PROVE TimeBoundInv'
  BY <1>17 DEF RollUpRemove
<1>18. ASSUME NEW s \in Signals, RemoveUnread(s) PROVE TimeBoundInv'
  BY <1>18 DEF RemoveUnread, GiveUp
<1>19. ASSUME NEW s \in Signals, NEW room \in BOOLEAN, Evict(s, room)
       PROVE  TimeBoundInv'
  <2>1. CASE s \in TimeBound /\ room
    BY <1>19, <2>1, KeysAssumption DEF Evict, EntriesOf, TimeBound
  <2>2. CASE ~(s \in TimeBound /\ room)
    BY <1>19, <2>2 DEF Evict, GiveUp
  <2> QED
    BY <2>1, <2>2
<1>20. CASE UNCHANGED vars
  BY <1>20 DEF vars
<1> QED
  BY <1>1, <1>2, <1>3, <1>4, <1>5, <1>6, <1>7, <1>8, <1>9, <1>10, <1>11,
     <1>12, <1>13, <1>14, <1>15, <1>16, <1>17, <1>18, <1>19, <1>20 DEF Next

\* An answered metric, or log without a trace id, outlives every crash: on a
\* running node it is in the buffer, handed over, exported, or lost anew since
\* the last restart.
THEOREM TimeBoundRecovery == Spec => []TimeBoundSurvivesCrash
<1>1. Init => TimeBoundInv
  BY DEF Init, TimeBoundInv, TimeBound
<1>2. TimeBoundInv => TimeBoundSurvivesCrash
  BY DEF TimeBoundInv, TimeBoundSurvivesCrash
<1> QED
  BY <1>1, <1>2, IndInvInductive, TimeBoundStep, PTL DEF Spec
=============================================================================
