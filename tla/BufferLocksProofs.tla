-------------------------- MODULE BufferLocksProofs --------------------------
(***************************************************************************)
(* Proofs about BufferLocks, for any number of goroutines, keys and shards *)
(* and any map of keys to shards: a range read returns the state of one    *)
(* instant.                                                                *)
(***************************************************************************)
EXTENDS BufferLocks, TLAPS

\* Where a goroutine has a shard locked, or waits for the shard's readers.
ShardLabels == {"shard", "inShard", "callback", "inCallback"}

\* A goroutine owns one shard at most, and only between the start and the end of
\* its cache operation.  A range read has mu from its start to its end, and a
\* shard during each cache.Get.
LockInv ==
    /\ \A t \in Threads, s \in Shards : owner[s] = t => pc[t] \in ShardLabels
    /\ \A t \in Threads, s \in Shards, u \in Shards :
         owner[s] = t /\ owner[u] = t => s = u
    /\ \A r \in RangeReaders :
         pc[r] \in {"reading", "get"} => r \in readers["mu"]
    /\ \A r \in RangeReaders : pc[r] = "get" =>
         \E k \in Keys : cur[r] = {k} /\ r \in readers[ShardOf[k]]

\* A key is stored by one handler, and indexed only after its payload is set.
StoreInv ==
    /\ \A t \in Storers : pc[t] \in ShardLabels => cur[t] \cap index = {}
    /\ \A t \in Storers, u \in Storers : t # u => cur[t] \cap cur[u] = {}

\* An entry of the cache is being removed: the goroutine that took it out has
\* its shard until the callback has had mu.
BeingRemoved(k) ==
    \E t \in Threads : /\ pc[t] \in {"callback", "inCallback"}
                       /\ k \in victim[t] /\ owner[ShardOf[k]] = t

\* The keys a range read has still to look up.
Ahead(r) == todo[r] \cup (IF pc[r] = "get" THEN cur[r] ELSE {})

\* What a range read finds is what it would have found at its start: a key ahead
\* of it cannot enter the cache, for it is in the index, which nobody changes;
\* and one that leaves the cache is in a shard that stays locked.
ReadInv ==
    \A r \in RangeReaders :
      /\ pc[r] = "start" => result[r] = {}
      /\ pc[r] \in {"reading", "get"} =>
           /\ Ahead(r) \subseteq index
           /\ result[r] \subseteq snapshot[r]
           /\ snapshot[r] \subseteq result[r] \cup Ahead(r)
           /\ \A k \in Ahead(r) \cap cache : k \in snapshot[r]
           /\ \A k \in todo[r] \cap snapshot[r] : k \in cache \/ BeingRemoved(k)
      /\ pc[r] = "get" => cur[r] \cap snapshot[r] \subseteq cache
      /\ pc[r] = "done" => result[r] = snapshot[r]

\* Who can be where, and who can hold what: mu is held by a callback, by a
\* handler that indexes its key or by range reads, and a shard is read only in
\* cache.Get.
HolderInv ==
    /\ \A t \in Threads :
         /\ pc[t] \in {"set", "insert"} => t \in Storers
         /\ pc[t] = "next" => t \in Removers \cup Cleaners
         /\ pc[t] \in {"reading", "get"} => t \in RangeReaders
         /\ pc[t] = "shard" => \E s \in Shards : owner[s] = t
         /\ owner["mu"] = t => pc[t] \in {"inCallback", "insert"}
         /\ todo[t] \subseteq (IF t \in Cleaners THEN Shards ELSE Keys)
    /\ \A r \in readers["mu"] : pc[r] \in {"reading", "get"}
    /\ \A s \in Shards : \A r \in readers[s] : pc[r] = "get"

\* A key is in the cache, with one callback at most or not yet set, and one that
\* is neither in the index nor with a handler can be stored afresh.
VictimInv ==
    /\ \A t \in Threads :
         /\ victim[t] # {} => pc[t] \in {"callback", "inCallback"}
         /\ victim[t] \cap cache = {}
         /\ \A k \in victim[t] :
              k \in index \/ \E u \in Storers : k \in cur[u]
    /\ \A t \in Threads, u \in Threads : t # u => victim[t] \cap victim[u] = {}
    /\ \A k \in cache : k \in index \/ \E u \in Storers : k \in cur[u]
    /\ \A t \in Storers :
         /\ pc[t] = "start" => cur[t] = {}
         /\ pc[t] # "start" => \E k \in Keys : cur[t] = {k}
         /\ pc[t] \in ShardLabels => cur[t] \cap cache = {}
         /\ pc[t] \in ShardLabels =>
              \A u \in Threads : cur[t] \cap victim[u] = {}

-----------------------------------------------------------------------------

\* Every step of the handlers, the removers, the cleaner and the range reads
\* keeps the types.
LEMMA TypeStep ==
    StateTypes /\ [Next]_vars => StateTypes'
<1> SUFFICES ASSUME StateTypes, [Next]_vars PROVE StateTypes'
  OBVIOUS
<1>0. ShardOf \in [Keys -> Shards] /\ \A t \in RangeReaders : t \in Threads
  BY ShardsAssumption DEF Threads
<1> USE <1>0 DEF StateTypes, Labels, Mutexes, Goto, lockVars
<1>1. ASSUME NEW t \in Threads, EnterShard(t) PROVE StateTypes'
  BY <1>1 DEF EnterShard
<1>2. ASSUME NEW t \in Threads, NEW k \in Keys, RemoveEntry(t, k)
      PROVE  StateTypes'
  BY <1>2 DEF RemoveEntry
<1>3. ASSUME NEW t \in Threads, CallbackLock(t) PROVE StateTypes'
  BY <1>3 DEF CallbackLock, Announce, Open
<1>4. ASSUME NEW t \in Threads, CallbackBody(t) PROVE StateTypes'
  BY <1>4 DEF CallbackBody, Unlock
<1>5. ASSUME NEW t \in Threads, NEW k \in Keys, StoreBegin(t, k)
      PROVE  StateTypes'
  BY <1>5 DEF StoreBegin, Announce, Open
<1>6. ASSUME NEW t \in Threads, StoreSet(t) PROVE StateTypes'
  BY <1>6 DEF StoreSet, Unlock
<1>7. ASSUME NEW t \in Threads, StoreLock(t) PROVE StateTypes'
  BY <1>7 DEF StoreLock, Announce, Open
<1>8. ASSUME NEW t \in Threads, StoreInsert(t) PROVE StateTypes'
  BY <1>8 DEF StoreInsert, Unlock
<1>9. ASSUME NEW t \in Threads, RemoveCollect(t) PROVE StateTypes'
  BY <1>9 DEF RemoveCollect
<1>10. ASSUME NEW t \in Threads, NEW k \in Keys, RemoveNext(t, k)
       PROVE  StateTypes'
  BY <1>10 DEF RemoveNext, Announce, Open
<1>11. ASSUME NEW t \in Threads, RemoveLeave(t) PROVE StateTypes'
  BY <1>11 DEF RemoveLeave, Unlock
<1>12. ASSUME NEW t \in Threads, RemoveEnd(t) PROVE StateTypes'
  BY <1>12 DEF RemoveEnd
<1>13. ASSUME NEW t \in Threads, CleanBegin(t) PROVE StateTypes'
  BY <1>13 DEF CleanBegin
<1>14. ASSUME NEW t \in Threads, NEW s \in Shards, CleanNext(t, s)
       PROVE  StateTypes'
  BY <1>14 DEF CleanNext, Announce, Open
<1>15. ASSUME NEW t \in Threads, CleanLeave(t) PROVE StateTypes'
  BY <1>15 DEF CleanLeave, Unlock
<1>16. ASSUME NEW t \in Threads, CleanEnd(t) PROVE StateTypes'
  BY <1>16 DEF CleanEnd
<1>17. ASSUME NEW t \in Threads, ReadBegin(t) PROVE StateTypes'
  BY <1>17 DEF ReadBegin, Open
<1>18. ASSUME NEW t \in Threads, NEW k \in Keys, ReadShard(t, k)
       PROVE  StateTypes'
  BY <1>18 DEF ReadShard, Open
<1>19. ASSUME NEW t \in Threads, ReadGet(t) PROVE StateTypes'
  BY <1>19 DEF ReadGet
<1>20. ASSUME NEW t \in Threads, ReadEnd(t) PROVE StateTypes'
  BY <1>20 DEF ReadEnd
<1>21. ASSUME UNCHANGED vars PROVE StateTypes'
  BY <1>21 DEF vars
<1> QED
  BY <1>1, <1>2, <1>3, <1>4, <1>5, <1>6, <1>7, <1>8, <1>9, <1>10, <1>11, <1>12,
     <1>13, <1>14, <1>15, <1>16, <1>17, <1>18, <1>19, <1>20, <1>21
     DEF Next, Step

\* A goroutine enters a shard when its readers have left, and no reader enters a
\* shard that has an owner.
LEMMA ExclusiveStep ==
    TypeOK /\ LockInv /\ [Next]_vars => ShardsAreExclusive'
<1> DEFINE Inside == {"inShard", "callback", "inCallback"}
<1> SUFFICES ASSUME TypeOK, LockInv, [Next]_vars,
                    NEW a \in Threads, pc'[a] \in Inside
             PROVE  \E s \in Shards : owner'[s] = a /\ readers'[s] = {}
  BY DEF ShardsAreExclusive, InShard, Exclusive
<1> DEFINE Kept == /\ pc[a] \in Inside
                   /\ \A s \in Shards : owner[s] = a /\ readers[s] = {} =>
                                          owner'[s] = a /\ readers'[s] = {}
<1>0. ASSUME Kept PROVE \E s \in Shards : owner'[s] = a /\ readers'[s] = {}
  BY <1>0 DEF TypeOK, ShardsAreExclusive, InShard, Exclusive
<1> USE ShardsAssumption, ThreadsAssumption
    DEF TypeOK, StateTypes, Mutexes, Goto, lockVars
<1>1. ASSUME NEW t \in Threads, EnterShard(t)
      PROVE  \E s \in Shards : owner'[s] = a /\ readers'[s] = {}
  <2>1. CASE a = t
    BY <1>1, <2>1 DEF EnterShard, InShard, Exclusive
  <2>2. CASE a # t
    BY <1>0, <1>1, <2>2 DEF EnterShard
  <2> QED
    BY <2>1, <2>2
<1>2. ASSUME NEW t \in Threads, NEW k \in Keys, RemoveEntry(t, k) PROVE Kept
  BY <1>2 DEF RemoveEntry
<1>3. ASSUME NEW t \in Threads, CallbackLock(t) PROVE Kept
  BY <1>3 DEF CallbackLock, Announce, Open
<1>4. ASSUME NEW t \in Threads, CallbackBody(t) PROVE Kept
  BY <1>4 DEF CallbackBody, Unlock, Exclusive
<1>5. ASSUME NEW t \in Threads, NEW k \in Keys, StoreBegin(t, k) PROVE Kept
  BY <1>5 DEF StoreBegin, Announce, Open
<1>6. ASSUME NEW t \in Threads, StoreSet(t) PROVE Kept
  BY <1>6 DEF StoreSet, Unlock, InShard
<1>7. ASSUME NEW t \in Threads, StoreLock(t) PROVE Kept
  BY <1>7 DEF StoreLock, Announce, Open
<1>8. ASSUME NEW t \in Threads, StoreInsert(t) PROVE Kept
  BY <1>8 DEF StoreInsert, Unlock
<1>9. ASSUME NEW t \in Threads, RemoveCollect(t) PROVE Kept
  BY <1>9 DEF RemoveCollect
<1>10. ASSUME NEW t \in Threads, NEW k \in Keys, RemoveNext(t, k) PROVE Kept
  BY <1>10 DEF RemoveNext, Announce, Open
<1>11. ASSUME NEW t \in Threads, RemoveLeave(t) PROVE Kept
  BY <1>11 DEF RemoveLeave, Unlock, InShard
<1>12. ASSUME NEW t \in Threads, RemoveEnd(t) PROVE Kept
  BY <1>12 DEF RemoveEnd
<1>13. ASSUME NEW t \in Threads, CleanBegin(t) PROVE Kept
  BY <1>13 DEF CleanBegin
<1>14. ASSUME NEW t \in Threads, NEW s \in Shards, CleanNext(t, s) PROVE Kept
  BY <1>14 DEF CleanNext, Announce, Open
<1>15. ASSUME NEW t \in Threads, CleanLeave(t) PROVE Kept
  BY <1>15 DEF CleanLeave, Unlock, InShard
<1>16. ASSUME NEW t \in Threads, CleanEnd(t) PROVE Kept
  BY <1>16 DEF CleanEnd
<1>17. ASSUME NEW t \in Threads, ReadBegin(t) PROVE Kept
  BY <1>17 DEF ReadBegin, Open
<1>18. ASSUME NEW t \in Threads, NEW k \in Keys, ReadShard(t, k) PROVE Kept
  BY <1>18 DEF ReadShard, Open
<1>19. ASSUME NEW t \in Threads, ReadGet(t) PROVE Kept
  <2>1. \A s \in Shards : readers'[s] = readers[s] \ {t}
    BY <1>19 DEF ReadGet
  <2> QED
    BY <1>19, <2>1 DEF ReadGet
<1>20. ASSUME NEW t \in Threads, ReadEnd(t) PROVE Kept
  BY <1>20 DEF ReadEnd
<1>21. ASSUME UNCHANGED vars PROVE Kept
  BY <1>21 DEF vars
<1> QED
  BY <1>0, <1>1, <1>2, <1>3, <1>4, <1>5, <1>6, <1>7, <1>8, <1>9, <1>10, <1>11,
     <1>12, <1>13, <1>14, <1>15, <1>16, <1>17, <1>18, <1>19, <1>20, <1>21
     DEF Next, Step

\* No step gives a goroutine a second shard, or takes mu from a range read.
LEMMA LockStep ==
    TypeOK /\ LockInv /\ [Next]_vars => LockInv'
<1> SUFFICES ASSUME TypeOK, LockInv, [Next]_vars PROVE LockInv'
  OBVIOUS
<1> USE ShardsAssumption, ThreadsAssumption
    DEF TypeOK, StateTypes, ShardsAreExclusive, LockInv, ShardLabels,
        Mutexes, Threads, InShard, Exclusive, Goto, lockVars
<1>1. ASSUME NEW t \in Threads, EnterShard(t) PROVE LockInv'
  BY <1>1 DEF EnterShard
<1>2. ASSUME NEW t \in Threads, NEW k \in Keys, RemoveEntry(t, k)
      PROVE  LockInv'
  BY <1>2 DEF RemoveEntry
<1>3. ASSUME NEW t \in Threads, CallbackLock(t) PROVE LockInv'
  BY <1>3 DEF CallbackLock, Announce, Open
<1>4. ASSUME NEW t \in Threads, CallbackBody(t) PROVE LockInv'
  BY <1>4 DEF CallbackBody, Unlock
<1>5. ASSUME NEW t \in Threads, NEW k \in Keys, StoreBegin(t, k) PROVE LockInv'
  BY <1>5 DEF StoreBegin, Announce, Open
<1>6. ASSUME NEW t \in Threads, StoreSet(t) PROVE LockInv'
  BY <1>6 DEF StoreSet, Unlock
<1>7. ASSUME NEW t \in Threads, StoreLock(t) PROVE LockInv'
  BY <1>7 DEF StoreLock, Announce, Open
<1>8. ASSUME NEW t \in Threads, StoreInsert(t) PROVE LockInv'
  BY <1>8 DEF StoreInsert, Unlock
<1>9. ASSUME NEW t \in Threads, RemoveCollect(t) PROVE LockInv'
  BY <1>9 DEF RemoveCollect
<1>10. ASSUME NEW t \in Threads, NEW k \in Keys, RemoveNext(t, k)
       PROVE  LockInv'
  BY <1>10 DEF RemoveNext, Announce, Open
<1>11. ASSUME NEW t \in Threads, RemoveLeave(t) PROVE LockInv'
  BY <1>11 DEF RemoveLeave, Unlock
<1>12. ASSUME NEW t \in Threads, RemoveEnd(t) PROVE LockInv'
  BY <1>12 DEF RemoveEnd
<1>13. ASSUME NEW t \in Threads, CleanBegin(t) PROVE LockInv'
  BY <1>13 DEF CleanBegin
<1>14. ASSUME NEW t \in Threads, NEW s \in Shards, CleanNext(t, s)
       PROVE  LockInv'
  BY <1>14 DEF CleanNext, Announce, Open
<1>15. ASSUME NEW t \in Threads, CleanLeave(t) PROVE LockInv'
  BY <1>15 DEF CleanLeave, Unlock
<1>16. ASSUME NEW t \in Threads, CleanEnd(t) PROVE LockInv'
  BY <1>16 DEF CleanEnd
<1>17. ASSUME NEW t \in Threads, ReadBegin(t) PROVE LockInv'
  BY <1>17 DEF ReadBegin, Open
<1>18. ASSUME NEW t \in Threads, NEW k \in Keys, ReadShard(t, k) PROVE LockInv'
  BY <1>18 DEF ReadShard, Open
<1>19. ASSUME NEW t \in Threads, ReadGet(t) PROVE LockInv'
  <2>1. /\ readers'["mu"] = readers["mu"] /\ owner' = owner /\ cur' = cur
        /\ pc' = [pc EXCEPT ![t] = "reading"] /\ pc[t] = "get"
    BY <1>19 DEF ReadGet
  <2>2. \A s \in Shards : readers'[s] = readers[s] \ {t}
    BY <1>19 DEF ReadGet
  <2>3. ASSUME NEW r \in RangeReaders, pc'[r] = "get"
        PROVE  \E k \in Keys : cur'[r] = {k} /\ r \in readers'[ShardOf[k]]
    <3>1. r # t /\ pc[r] = "get"
      BY <2>1, <2>3
    <3>2. PICK k \in Keys : cur[r] = {k} /\ r \in readers[ShardOf[k]]
      BY <3>1
    <3> QED
      BY <2>1, <2>2, <3>1, <3>2
  <2> QED
    BY <2>1, <2>3
<1>20. ASSUME NEW t \in Threads, ReadEnd(t) PROVE LockInv'
  BY <1>20 DEF ReadEnd
<1>21. ASSUME UNCHANGED vars PROVE LockInv'
  BY <1>21 DEF vars
<1> QED
  BY <1>1, <1>2, <1>3, <1>4, <1>5, <1>6, <1>7, <1>8, <1>9, <1>10, <1>11, <1>12,
     <1>13, <1>14, <1>15, <1>16, <1>17, <1>18, <1>19, <1>20, <1>21
     DEF Next, Step

\* No step indexes a key that a handler has still to set.
LEMMA StoreStep ==
    TypeOK /\ StoreInv /\ [Next]_vars => StoreInv'
<1> SUFFICES ASSUME TypeOK, StoreInv, [Next]_vars PROVE StoreInv'
  OBVIOUS
<1> USE OneOperationEach
    DEF TypeOK, StateTypes, StoreInv, ShardLabels, Threads, Goto
<1>1. ASSUME NEW t \in Threads, EnterShard(t) PROVE StoreInv'
  BY <1>1 DEF EnterShard
<1>2. ASSUME NEW t \in Threads, NEW k \in Keys, RemoveEntry(t, k)
      PROVE  StoreInv'
  BY <1>2 DEF RemoveEntry
<1>3. ASSUME NEW t \in Threads, CallbackLock(t) PROVE StoreInv'
  BY <1>3 DEF CallbackLock, Announce, Open
<1>4. ASSUME NEW t \in Threads, CallbackBody(t) PROVE StoreInv'
  BY <1>4 DEF CallbackBody, Unlock
<1>5. ASSUME NEW t \in Threads, NEW k \in Keys, StoreBegin(t, k)
      PROVE  StoreInv'
  BY <1>5 DEF StoreBegin, Announce, Open
<1>6. ASSUME NEW t \in Threads, StoreSet(t) PROVE StoreInv'
  BY <1>6 DEF StoreSet, Unlock
<1>7. ASSUME NEW t \in Threads, StoreLock(t) PROVE StoreInv'
  BY <1>7 DEF StoreLock, Announce, Open
<1>8. ASSUME NEW t \in Threads, StoreInsert(t) PROVE StoreInv'
  BY <1>8 DEF StoreInsert, Unlock
<1>9. ASSUME NEW t \in Threads, RemoveCollect(t) PROVE StoreInv'
  BY <1>9 DEF RemoveCollect
<1>10. ASSUME NEW t \in Threads, NEW k \in Keys, RemoveNext(t, k)
       PROVE  StoreInv'
  BY <1>10 DEF RemoveNext, Announce, Open
<1>11. ASSUME NEW t \in Threads, RemoveLeave(t) PROVE StoreInv'
  BY <1>11 DEF RemoveLeave, Unlock
<1>12. ASSUME NEW t \in Threads, RemoveEnd(t) PROVE StoreInv'
  BY <1>12 DEF RemoveEnd
<1>13. ASSUME NEW t \in Threads, CleanBegin(t) PROVE StoreInv'
  BY <1>13 DEF CleanBegin
<1>14. ASSUME NEW t \in Threads, NEW s \in Shards, CleanNext(t, s)
       PROVE  StoreInv'
  BY <1>14 DEF CleanNext, Announce, Open
<1>15. ASSUME NEW t \in Threads, CleanLeave(t) PROVE StoreInv'
  BY <1>15 DEF CleanLeave, Unlock
<1>16. ASSUME NEW t \in Threads, CleanEnd(t) PROVE StoreInv'
  BY <1>16 DEF CleanEnd
<1>17. ASSUME NEW t \in Threads, ReadBegin(t) PROVE StoreInv'
  BY <1>17 DEF ReadBegin, Open
<1>18. ASSUME NEW t \in Threads, NEW k \in Keys, ReadShard(t, k)
       PROVE  StoreInv'
  BY <1>18 DEF ReadShard, Open
<1>19. ASSUME NEW t \in Threads, ReadGet(t) PROVE StoreInv'
  BY <1>19 DEF ReadGet
<1>20. ASSUME NEW t \in Threads, ReadEnd(t) PROVE StoreInv'
  BY <1>20 DEF ReadEnd
<1>21. ASSUME UNCHANGED vars PROVE StoreInv'
  BY <1>21 DEF vars
<1> QED
  BY <1>1, <1>2, <1>3, <1>4, <1>5, <1>6, <1>7, <1>8, <1>9, <1>10, <1>11, <1>12,
     <1>13, <1>14, <1>15, <1>16, <1>17, <1>18, <1>19, <1>20, <1>21
     DEF Next, Step

\* No step changes what a range read is going to find.
LEMMA ReadStep ==
    TypeOK /\ LockInv /\ StoreInv /\ ReadInv /\ [Next]_vars => ReadInv'
<1> SUFFICES ASSUME TypeOK, LockInv, StoreInv, ReadInv, [Next]_vars
             PROVE  ReadInv'
  OBVIOUS
<1> USE ShardsAssumption, ThreadsAssumption, OneOperationEach
    DEF TypeOK, StateTypes, ReadInv, Ahead, BeingRemoved, Mutexes, Threads,
        InShard, Exclusive, Goto, lockVars
<1>1. ASSUME NEW t \in Threads, EnterShard(t) PROVE ReadInv'
  BY <1>1 DEF EnterShard
<1>2. ASSUME NEW t \in Threads, NEW k \in Keys, RemoveEntry(t, k)
      PROVE  ReadInv'
  <2>1. readers[ShardOf[k]] = {} /\ owner[ShardOf[k]] = t
    <3>1. PICK s \in Shards : owner[s] = t /\ readers[s] = {}
      <4>1. pc[t] = "inShard" /\ ShardsAreExclusive
        BY <1>2 DEF RemoveEntry
      <4> HIDE DEF TypeOK, StateTypes, ReadInv
      <4> QED
        BY <4>1 DEF ShardsAreExclusive
    <3>2. owner[ShardOf[k]] = t /\ ShardOf[k] \in Shards
      BY <1>2 DEF RemoveEntry
    <3> QED
      BY <3>1, <3>2 DEF LockInv
  <2>2. \A r \in RangeReaders : pc[r] = "get" => k \notin cur[r]
    BY <2>1 DEF LockInv
  <2>3. \A j \in Keys : BeingRemoved(j) => BeingRemoved(j)'
    BY <1>2 DEF RemoveEntry
  <2>4. BeingRemoved(k)'
    BY <1>2, <2>1 DEF RemoveEntry
  <2> HIDE DEF BeingRemoved
  <2> QED
    BY <1>2, <2>2, <2>3, <2>4 DEF RemoveEntry
<1>3. ASSUME NEW t \in Threads, CallbackLock(t) PROVE ReadInv'
  BY <1>3 DEF CallbackLock, Announce, Open
<1>4. ASSUME NEW t \in Threads, CallbackBody(t) PROVE ReadInv'
  <2>1. \A r \in RangeReaders : pc[r] \notin {"reading", "get"}
    BY <1>4 DEF CallbackBody, LockInv
  <2> HIDE DEF BeingRemoved, Ahead
  <2> QED
    BY <1>4, <2>1 DEF CallbackBody
<1>5. ASSUME NEW t \in Threads, NEW k \in Keys, StoreBegin(t, k) PROVE ReadInv'
  BY <1>5 DEF StoreBegin, Announce, Open
<1>6. ASSUME NEW t \in Threads, StoreSet(t) PROVE ReadInv'
  <2>1. cur[t] \cap index = {}
    BY <1>6 DEF StoreSet, StoreInv, ShardLabels
  <2>2. \A j \in Keys : BeingRemoved(j) => BeingRemoved(j)'
    BY <1>6 DEF StoreSet, Unlock
  <2> HIDE DEF BeingRemoved
  <2> QED
    BY <1>6, <2>1, <2>2 DEF StoreSet
<1>7. ASSUME NEW t \in Threads, StoreLock(t) PROVE ReadInv'
  BY <1>7 DEF StoreLock, Announce, Open
<1>8. ASSUME NEW t \in Threads, StoreInsert(t) PROVE ReadInv'
  BY <1>8 DEF StoreInsert, Unlock
<1>9. ASSUME NEW t \in Threads, RemoveCollect(t) PROVE ReadInv'
  BY <1>9 DEF RemoveCollect
<1>10. ASSUME NEW t \in Threads, NEW k \in Keys, RemoveNext(t, k)
       PROVE  ReadInv'
  BY <1>10 DEF RemoveNext, Announce, Open
<1>11. ASSUME NEW t \in Threads, RemoveLeave(t) PROVE ReadInv'
  BY <1>11 DEF RemoveLeave, Unlock
<1>12. ASSUME NEW t \in Threads, RemoveEnd(t) PROVE ReadInv'
  BY <1>12 DEF RemoveEnd
<1>13. ASSUME NEW t \in Threads, CleanBegin(t) PROVE ReadInv'
  BY <1>13 DEF CleanBegin
<1>14. ASSUME NEW t \in Threads, NEW s \in Shards, CleanNext(t, s)
       PROVE  ReadInv'
  BY <1>14 DEF CleanNext, Announce, Open
<1>15. ASSUME NEW t \in Threads, CleanLeave(t) PROVE ReadInv'
  BY <1>15 DEF CleanLeave, Unlock
<1>16. ASSUME NEW t \in Threads, CleanEnd(t) PROVE ReadInv'
  BY <1>16 DEF CleanEnd
<1>17. ASSUME NEW t \in Threads, ReadBegin(t) PROVE ReadInv'
  BY <1>17 DEF ReadBegin, Open
<1>18. ASSUME NEW t \in Threads, NEW k \in Keys, ReadShard(t, k) PROVE ReadInv'
  BY <1>18 DEF ReadShard, Open
<1>19. ASSUME NEW t \in Threads, ReadGet(t) PROVE ReadInv'
  BY <1>19 DEF ReadGet
<1>20. ASSUME NEW t \in Threads, ReadEnd(t) PROVE ReadInv'
  <2>1. \A j \in Keys : BeingRemoved(j) => BeingRemoved(j)'
    BY <1>20 DEF ReadEnd
  <2> HIDE DEF BeingRemoved
  <2>2. /\ t \in RangeReaders /\ pc[t] = "reading" /\ todo[t] = {}
        /\ pc' = [pc EXCEPT ![t] = "done"]
        /\ UNCHANGED <<cur, todo, cache, index, result, snapshot>>
    BY <1>20 DEF ReadEnd
  <2>3. result[t] = snapshot[t]
    <3>1. Ahead(t) = {}
      BY <2>2
    <3>2. /\ result[t] \subseteq snapshot[t]
          /\ snapshot[t] \subseteq result[t] \cup Ahead(t)
      BY <2>2
    <3> QED
      BY <3>1, <3>2
  <2> QED
    BY <2>1, <2>2, <2>3
<1>21. ASSUME UNCHANGED vars PROVE ReadInv'
  BY <1>21 DEF vars
<1> QED
  BY <1>1, <1>2, <1>3, <1>4, <1>5, <1>6, <1>7, <1>8, <1>9, <1>10, <1>11, <1>12,
     <1>13, <1>14, <1>15, <1>16, <1>17, <1>18, <1>19, <1>20, <1>21
     DEF Next, Step

\* No step leaves a mutex held by a goroutine that is elsewhere.
LEMMA HolderStep ==
    TypeOK /\ LockInv /\ HolderInv /\ [Next]_vars => HolderInv'
<1> SUFFICES ASSUME TypeOK, LockInv, HolderInv, [Next]_vars PROVE HolderInv'
  OBVIOUS
<1> USE ShardsAssumption, ThreadsAssumption, OneOperationEach
    DEF TypeOK, StateTypes, HolderInv, Mutexes, Threads, Goto, lockVars
<1>1. ASSUME NEW t \in Threads, EnterShard(t) PROVE HolderInv'
  BY <1>1 DEF EnterShard
<1>2. ASSUME NEW t \in Threads, NEW k \in Keys, RemoveEntry(t, k)
      PROVE  HolderInv'
  BY <1>2 DEF RemoveEntry
<1>3. ASSUME NEW t \in Threads, CallbackLock(t) PROVE HolderInv'
  BY <1>3 DEF CallbackLock, Announce, Open
<1>4. ASSUME NEW t \in Threads, CallbackBody(t) PROVE HolderInv'
  BY <1>4 DEF CallbackBody, Unlock
<1>5. ASSUME NEW t \in Threads, NEW k \in Keys, StoreBegin(t, k)
      PROVE  HolderInv'
  BY <1>5 DEF StoreBegin, Announce, Open
<1>6. ASSUME NEW t \in Threads, StoreSet(t) PROVE HolderInv'
  BY <1>6 DEF StoreSet, Unlock, InShard
<1>7. ASSUME NEW t \in Threads, StoreLock(t) PROVE HolderInv'
  BY <1>7 DEF StoreLock, Announce, Open
<1>8. ASSUME NEW t \in Threads, StoreInsert(t) PROVE HolderInv'
  BY <1>8 DEF StoreInsert, Unlock
<1>9. ASSUME NEW t \in Threads, RemoveCollect(t) PROVE HolderInv'
  BY <1>9 DEF RemoveCollect
<1>10. ASSUME NEW t \in Threads, NEW k \in Keys, RemoveNext(t, k)
       PROVE  HolderInv'
  BY <1>10 DEF RemoveNext, Announce, Open
<1>11. ASSUME NEW t \in Threads, RemoveLeave(t) PROVE HolderInv'
  BY <1>11 DEF RemoveLeave, Unlock, InShard
<1>12. ASSUME NEW t \in Threads, RemoveEnd(t) PROVE HolderInv'
  BY <1>12 DEF RemoveEnd
<1>13. ASSUME NEW t \in Threads, CleanBegin(t) PROVE HolderInv'
  BY <1>13 DEF CleanBegin
<1>14. ASSUME NEW t \in Threads, NEW s \in Shards, CleanNext(t, s)
       PROVE  HolderInv'
  BY <1>14 DEF CleanNext, Announce, Open
<1>15. ASSUME NEW t \in Threads, CleanLeave(t) PROVE HolderInv'
  BY <1>15 DEF CleanLeave, Unlock, InShard
<1>16. ASSUME NEW t \in Threads, CleanEnd(t) PROVE HolderInv'
  BY <1>16 DEF CleanEnd
<1>17. ASSUME NEW t \in Threads, ReadBegin(t) PROVE HolderInv'
  BY <1>17 DEF ReadBegin, Open
<1>18. ASSUME NEW t \in Threads, NEW k \in Keys, ReadShard(t, k)
       PROVE  HolderInv'
  BY <1>18 DEF ReadShard, Open
<1>19. ASSUME NEW t \in Threads, ReadGet(t) PROVE HolderInv'
  BY <1>19 DEF ReadGet
<1>20. ASSUME NEW t \in Threads, ReadEnd(t) PROVE HolderInv'
  BY <1>20 DEF ReadEnd
<1>21. ASSUME UNCHANGED vars PROVE HolderInv'
  BY <1>21 DEF vars
<1> QED
  BY <1>1, <1>2, <1>3, <1>4, <1>5, <1>6, <1>7, <1>8, <1>9, <1>10, <1>11, <1>12,
     <1>13, <1>14, <1>15, <1>16, <1>17, <1>18, <1>19, <1>20, <1>21
     DEF Next, Step

\* No step loses a key on its way from the cache to the index or back.
LEMMA VictimStep ==
    TypeOK /\ StoreInv /\ VictimInv /\ [Next]_vars => VictimInv'
<1> SUFFICES ASSUME TypeOK, StoreInv, VictimInv, [Next]_vars PROVE VictimInv'
  OBVIOUS
<1> USE OneOperationEach
    DEF TypeOK, StateTypes, StoreInv, VictimInv, ShardLabels, Threads, Goto
<1>1. ASSUME NEW t \in Threads, EnterShard(t) PROVE VictimInv'
  BY <1>1 DEF EnterShard
<1>2. ASSUME NEW t \in Threads, NEW k \in Keys, RemoveEntry(t, k)
      PROVE  VictimInv'
  BY <1>2 DEF RemoveEntry
<1>3. ASSUME NEW t \in Threads, CallbackLock(t) PROVE VictimInv'
  BY <1>3 DEF CallbackLock, Announce, Open
<1>4. ASSUME NEW t \in Threads, CallbackBody(t) PROVE VictimInv'
  BY <1>4 DEF CallbackBody, Unlock
<1>5. ASSUME NEW t \in Threads, NEW k \in Keys, StoreBegin(t, k)
      PROVE  VictimInv'
  BY <1>5 DEF StoreBegin, Announce, Open
<1>6. ASSUME NEW t \in Threads, StoreSet(t) PROVE VictimInv'
  BY <1>6 DEF StoreSet, Unlock
<1>7. ASSUME NEW t \in Threads, StoreLock(t) PROVE VictimInv'
  BY <1>7 DEF StoreLock, Announce, Open
<1>8. ASSUME NEW t \in Threads, StoreInsert(t) PROVE VictimInv'
  BY <1>8 DEF StoreInsert, Unlock
<1>9. ASSUME NEW t \in Threads, RemoveCollect(t) PROVE VictimInv'
  BY <1>9 DEF RemoveCollect
<1>10. ASSUME NEW t \in Threads, NEW k \in Keys, RemoveNext(t, k)
       PROVE  VictimInv'
  BY <1>10 DEF RemoveNext, Announce, Open
<1>11. ASSUME NEW t \in Threads, RemoveLeave(t) PROVE VictimInv'
  BY <1>11 DEF RemoveLeave, Unlock
<1>12. ASSUME NEW t \in Threads, RemoveEnd(t) PROVE VictimInv'
  BY <1>12 DEF RemoveEnd
<1>13. ASSUME NEW t \in Threads, CleanBegin(t) PROVE VictimInv'
  BY <1>13 DEF CleanBegin
<1>14. ASSUME NEW t \in Threads, NEW s \in Shards, CleanNext(t, s)
       PROVE  VictimInv'
  BY <1>14 DEF CleanNext, Announce, Open
<1>15. ASSUME NEW t \in Threads, CleanLeave(t) PROVE VictimInv'
  BY <1>15 DEF CleanLeave, Unlock
<1>16. ASSUME NEW t \in Threads, CleanEnd(t) PROVE VictimInv'
  BY <1>16 DEF CleanEnd
<1>17. ASSUME NEW t \in Threads, ReadBegin(t) PROVE VictimInv'
  BY <1>17 DEF ReadBegin, Open
<1>18. ASSUME NEW t \in Threads, NEW k \in Keys, ReadShard(t, k)
       PROVE  VictimInv'
  BY <1>18 DEF ReadShard, Open
<1>19. ASSUME NEW t \in Threads, ReadGet(t) PROVE VictimInv'
  BY <1>19 DEF ReadGet
<1>20. ASSUME NEW t \in Threads, ReadEnd(t) PROVE VictimInv'
  BY <1>20 DEF ReadEnd
<1>21. ASSUME UNCHANGED vars PROVE VictimInv'
  BY <1>21 DEF vars
<1> QED
  BY <1>1, <1>2, <1>3, <1>4, <1>5, <1>6, <1>7, <1>8, <1>9, <1>10, <1>11, <1>12,
     <1>13, <1>14, <1>15, <1>16, <1>17, <1>18, <1>19, <1>20, <1>21
     DEF Next, Step

-----------------------------------------------------------------------------

\* The invariants hold between operations.
LEMMA AllInit ==
    Init => /\ TypeOK /\ LockInv /\ StoreInv /\ ReadInv
            /\ HolderInv /\ VictimInv
<1> SUFFICES ASSUME Init
             PROVE  /\ TypeOK /\ LockInv /\ StoreInv /\ ReadInv
                    /\ HolderInv /\ VictimInv
  OBVIOUS
<1>1. TypeOK
  BY DEF Init, TypeOK, StateTypes, ShardsAreExclusive, Labels
<1>2. LockInv
  BY ThreadsAssumption DEF Init, LockInv, Mutexes, Threads
<1>3. StoreInv /\ ReadInv
  BY DEF Init, StoreInv, ReadInv, Threads, ShardLabels
<1>4. HolderInv
  BY ShardsAssumption, ThreadsAssumption DEF Init, HolderInv, Mutexes, Threads
<1>5. VictimInv
  BY DEF Init, VictimInv, ShardLabels, Threads
<1> QED
  BY <1>1, <1>2, <1>3, <1>4, <1>5

\* A goroutine that changes a shard, callback included, has it to itself.
THEOREM TypeCorrect == Spec => []TypeOK
BY AllInit, TypeStep, ExclusiveStep, LockStep, PTL DEF Spec, TypeOK

\* A range read returns what it would have found in the instant in which it
\* locked mu, whatever is set, deleted and evicted meanwhile.
THEOREM ReadsAreSnapshots == Spec => []RangeReadIsSnapshot
<1>1. ReadInv => RangeReadIsSnapshot
  BY DEF ReadInv, RangeReadIsSnapshot
<1> QED
  BY <1>1, AllInit, TypeStep, ExclusiveStep, LockStep, StoreStep, ReadStep, PTL
     DEF Spec, TypeOK

\* If everybody waits, then a range read and an eviction callback wait for each
\* other: a goroutine that waits for a shard or for mu waits, in one or two
\* steps, for a range read that has mu, and that one waits for a callback.
LEMMA EverybodyWaits ==
    TypeOK /\ LockInv /\ HolderInv => StopNeedsReadAgainstCallback
<1> DEFINE Idle(t) == pc[t] = "done" \/ (t \in Storers /\ pc[t] = "start")
<1> SUFFICES ASSUME TypeOK, LockInv, HolderInv,
                    \A t \in Threads : MayWait(t) \/ Idle(t)
             PROVE  Returned \/ ReadAgainstCallback
  BY DEF StopNeedsReadAgainstCallback
<1> USE ShardsAssumption, ThreadsAssumption, OneOperationEach
\* A goroutine that is in cache.Get, or alone in a shard, goes on.
<1>1. \A t \in Threads : pc[t] \notin {"get", "inShard"}
  BY DEF MayWait
<1>2. \A s \in Shards : readers[s] = {}
  BY <1>1 DEF HolderInv, TypeOK, StateTypes, Mutexes
<1>3. \A t \in Threads : pc[t] # "shard"
  BY <1>2 DEF MayWait, HolderInv, InShard
\* A shard that is not free belongs to a goroutine in the callback.
<1>4. ASSUME NEW s \in Shards, ~Open(s)
      PROVE  \E t \in Threads : /\ owner[s] = t
                                /\ pc[t] \in {"callback", "inCallback"}
  <2>1. owner[s] \in Threads
    BY <1>4 DEF Open, TypeOK, StateTypes, Mutexes
  <2> QED
    BY <1>1, <1>3, <2>1 DEF LockInv, ShardLabels
\* A range read that has mu waits for such a shard.
<1>5. ASSUME readers["mu"] # {} PROVE ReadAgainstCallback
  <2>1. PICK r \in readers["mu"] : r \in Threads
    BY <1>5 DEF TypeOK, StateTypes, Mutexes
  <2>2. pc[r] = "reading" /\ r \in RangeReaders
    BY <1>1, <2>1 DEF HolderInv
  <2>3. PICK s \in ShardsAhead(r) : ~Open(s)
    BY <2>1, <2>2 DEF MayWait
  <2>4. PICK k \in todo[r] : s = ShardOf[k]
    BY <2>2, <2>3 DEF ShardsAhead
  <2>5. k \in Keys /\ s \in Shards
    BY <2>1, <2>2, <2>4 DEF HolderInv
  <2>6. PICK t \in Threads : /\ owner[s] = t
                             /\ pc[t] \in {"callback", "inCallback"}
    BY <1>4, <2>3, <2>5
  <2> QED
    BY <2>1, <2>2, <2>4, <2>5, <2>6 DEF ReadAgainstCallback, InShard
\* A mu that is not free belongs to a writer that waits for range reads.
<1>6. ASSUME ~Open("mu") PROVE ReadAgainstCallback
  <2>1. PICK t \in Threads : owner["mu"] = t
    BY <1>6 DEF Open, TypeOK, StateTypes, Mutexes
  <2>2. pc[t] \in {"inCallback", "insert"}
    BY <2>1 DEF HolderInv
  <2>3. readers["mu"] # {}
    BY <2>2 DEF MayWait
  <2> QED
    BY <1>5, <2>3
\* A loop waits for a shard whose owner waits for mu.
<1>7. ASSUME NEW t \in Threads, NEW s \in ShardsAhead(t), ~Open(s),
             pc[t] \in {"next", "reading"}
      PROVE  ReadAgainstCallback
  <2>1. s \in Shards
    BY <1>7 DEF ShardsAhead, HolderInv
  <2>2. PICK w \in Threads : pc[w] \in {"callback", "inCallback"}
    BY <1>4, <1>7, <2>1
  <2>3. ~Open("mu") \/ readers["mu"] # {}
    BY <2>2 DEF MayWait
  <2> QED
    BY <1>5, <1>6, <2>3
<1> QED
  BY <1>3, <1>5, <1>6, <1>7 DEF MayWait, Returned

\* There is no deadlock of the buffer's locks but the one between a range read
\* and an eviction callback, for any number of goroutines and shards.
THEOREM OnlyOneDeadlock == Spec => []StopNeedsReadAgainstCallback
BY AllInit, TypeStep, ExclusiveStep, LockStep, HolderStep, EverybodyWaits, PTL
   DEF Spec, TypeOK

-----------------------------------------------------------------------------
(* The buffer is atomic to the rest of the node.                           *)

\* The state the buffer shows between operations is one the abstract buffer
\* starts in.
LEMMA AtomicInit == Init => Atomic!Init
<1> SUFFICES ASSUME Init PROVE Atomic!Init
  OBVIOUS
<1>1. Victims = {}
  BY DEF Init, Victims
<1>2. {r \in RangeReaders : pc[r] # "start"} = {}
  BY DEF Init, Threads
<1>3. \A r \in RangeReaders : pc[r] = "start" /\ snapshot[r] = {}
  BY DEF Init, Threads
<1>4. Pending = {}
  BY DEF Init, Pending, Threads
<1> QED
  BY <1>1, <1>2, <1>3, <1>4 DEF Atomic!Init, Init

\* Every step of a goroutine is a step of the abstract buffer or shows nothing
\* of itself: an entry leaves the index as it leaves the cache, a range read
\* takes place as it locks mu, and a key is indexed as it is inserted, unless it
\* is with a callback.
LEMMA AtomicStep ==
    TypeOK /\ StoreInv /\ VictimInv /\ ReadInv' /\ [Next]_vars
      => [Atomic!Next]_(Atomic!vars)
<1> DEFINE Reads == {r \in RangeReaders : pc[r] # "start"}
           Found == [r \in RangeReaders |->
                       IF pc[r] = "done" THEN result[r] ELSE snapshot[r]]
           Simulated == [Atomic!Next]_(Atomic!vars)
<1> SUFFICES ASSUME TypeOK, StoreInv, VictimInv, ReadInv', [Next]_vars
             PROVE  Simulated
  OBVIOUS
<1>0. ASSUME UNCHANGED <<cache, index \ Victims, Pending, Reads, Found>>
      PROVE  Simulated
  BY <1>0 DEF Atomic!vars
<1> USE OneOperationEach DEF TypeOK, StateTypes, Threads, Goto
<1>1. ASSUME NEW t \in Threads, EnterShard(t) PROVE Simulated
  <2>1. Reads' = Reads /\ Found' = Found /\ Pending' = Pending
    BY <1>1 DEF EnterShard, Pending
  <2> QED
    BY <1>1, <1>0, <2>1 DEF EnterShard, Victims
<1>2. ASSUME NEW t \in Threads, NEW k \in Keys, RemoveEntry(t, k)
      PROVE  Simulated
  <2>1. Victims' = Victims \cup {k}
    BY <1>2 DEF RemoveEntry, Victims, VictimInv
  <2>2. Reads' = Reads /\ Found' = Found /\ Pending' = Pending
    BY <1>2 DEF RemoveEntry, Pending
  <2>3. k \in cache /\ cache' = cache \ {k} /\ index' = index
    BY <1>2 DEF RemoveEntry
  <2>4. Atomic!Remove(k)
    <3>1. (index \ Victims)' = (index \ Victims) \ {k}
      BY <2>1, <2>3
    <3> QED
      BY <2>2, <2>3, <3>1 DEF Atomic!Remove
  <2> QED
    BY <2>4 DEF Atomic!Next
<1>3. ASSUME NEW t \in Threads, CallbackLock(t) PROVE Simulated
  <2>1. Reads' = Reads /\ Found' = Found /\ Pending' = Pending
    BY <1>3 DEF CallbackLock, Pending
  <2> QED
    BY <1>3, <1>0, <2>1 DEF CallbackLock, Victims
<1>4. ASSUME NEW t \in Threads, CallbackBody(t) PROVE Simulated
  <2>1. index' = index \ victim[t] /\ cache' = cache
    BY <1>4 DEF CallbackBody
  <2>2. \A u \in Threads : victim'[u] = IF u = t THEN {} ELSE victim[u]
    BY <1>4 DEF CallbackBody
  <2>3. \A k : k \in Victims <=> k \in Victims' \/ k \in victim[t]
    BY <2>2 DEF Victims
  <2>4. (index \ Victims)' = index \ Victims
    BY <2>1, <2>3
  <2>5. Reads' = Reads /\ Found' = Found /\ Pending' = Pending
    BY <1>4 DEF CallbackBody, Pending
  <2> QED
    BY <1>0, <2>1, <2>4, <2>5
<1>5. ASSUME NEW t \in Threads, NEW k \in Keys, StoreBegin(t, k) PROVE Simulated
  <2>1. Reads' = Reads /\ Found' = Found /\ Pending' = Pending
    BY <1>5 DEF StoreBegin, Pending
  <2> QED
    BY <1>5, <1>0, <2>1 DEF StoreBegin, Victims
<1>6. ASSUME NEW t \in Threads, StoreSet(t) PROVE Simulated
  <2>1. PICK k \in Keys : cur[t] = {k}
    BY <1>6 DEF StoreSet, VictimInv
  <2>2. /\ cache' = cache \cup {k} /\ k \notin cache \cup index
        /\ UNCHANGED <<index, victim>>
    BY <1>6, <2>1 DEF StoreSet, VictimInv, StoreInv, ShardLabels
  <2>3. Reads' = Reads /\ Found' = Found
    BY <1>6 DEF StoreSet
  <2>4. k \notin Pending /\ Pending' = Pending \cup {k}
    <3>1. /\ t \in Storers /\ pc[t] = "inShard" /\ cur' = cur
          /\ pc' = [pc EXCEPT ![t] = "set"]
      BY <1>6 DEF StoreSet
    <3>2. \A u \in Storers : k \in cur[u] => u = t
      BY <2>1, <3>1 DEF StoreInv
    <3> QED
      BY <2>1, <3>1, <3>2 DEF Pending
  <2>5. Atomic!Set(k)
    BY <2>2, <2>3, <2>4 DEF Atomic!Set, Victims
  <2> QED
    BY <2>5 DEF Atomic!Next
<1>7. ASSUME NEW t \in Threads, StoreLock(t) PROVE Simulated
  <2>1. Reads' = Reads /\ Found' = Found /\ Pending' = Pending
    BY <1>7 DEF StoreLock, Pending
  <2> QED
    BY <1>7, <1>0, <2>1 DEF StoreLock, Victims
<1>8. ASSUME NEW t \in Threads, StoreInsert(t) PROVE Simulated
  <2>1. PICK k \in Keys : cur[t] = {k}
    BY <1>8 DEF StoreInsert, VictimInv
  <2>2. index' = index \cup {k} /\ UNCHANGED <<cache, Victims>>
    BY <1>8, <2>1 DEF StoreInsert, Victims
  <2>3. Reads' = Reads /\ Found' = Found
    BY <1>8 DEF StoreInsert
  <2>4. k \in Pending /\ Pending' = Pending \ {k}
    <3>1. /\ t \in Storers /\ pc[t] = "insert" /\ cur' = cur
          /\ pc' = [pc EXCEPT ![t] = "done"]
      BY <1>8 DEF StoreInsert
    <3>2. \A u \in Storers : k \in cur[u] => u = t
      BY <2>1, <3>1 DEF StoreInv
    <3> QED
      BY <2>1, <3>1, <3>2 DEF Pending
  \* The key has left the cache again, and its callback waits for mu.
  <2>5. CASE k \in Victims
    <3>1. (index \ Victims)' = index \ Victims
      BY <2>2, <2>5
    <3>2. k \notin cache
      BY <2>5 DEF Victims, VictimInv
    <3> QED
      BY <2>2, <2>3, <2>4, <3>1, <3>2 DEF Atomic!Index, Atomic!Next
  <2>6. CASE k \notin Victims
    <3>1. (index \ Victims)' = (index \ Victims) \cup {k}
      BY <2>2, <2>6
    <3> QED
      BY <2>2, <2>3, <2>4, <3>1 DEF Atomic!Index, Atomic!Next
  <2> QED
    BY <2>5, <2>6
<1>9. ASSUME NEW t \in Threads, RemoveCollect(t) PROVE Simulated
  <2>1. Reads' = Reads /\ Found' = Found /\ Pending' = Pending
    BY <1>9 DEF RemoveCollect, Pending
  <2> QED
    BY <1>9, <1>0, <2>1 DEF RemoveCollect, Victims
<1>10. ASSUME NEW t \in Threads, NEW k \in Keys, RemoveNext(t, k)
       PROVE  Simulated
  <2>1. Reads' = Reads /\ Found' = Found /\ Pending' = Pending
    BY <1>10 DEF RemoveNext, Pending
  <2> QED
    BY <1>10, <1>0, <2>1 DEF RemoveNext, Victims
<1>11. ASSUME NEW t \in Threads, RemoveLeave(t) PROVE Simulated
  <2>1. Reads' = Reads /\ Found' = Found /\ Pending' = Pending
    BY <1>11 DEF RemoveLeave, Pending
  <2> QED
    BY <1>11, <1>0, <2>1 DEF RemoveLeave, Victims
<1>12. ASSUME NEW t \in Threads, RemoveEnd(t) PROVE Simulated
  <2>1. Reads' = Reads /\ Found' = Found /\ Pending' = Pending
    BY <1>12 DEF RemoveEnd, Pending
  <2> QED
    BY <1>12, <1>0, <2>1 DEF RemoveEnd, Victims
<1>13. ASSUME NEW t \in Threads, CleanBegin(t) PROVE Simulated
  <2>1. Reads' = Reads /\ Found' = Found /\ Pending' = Pending
    BY <1>13 DEF CleanBegin, Pending
  <2> QED
    BY <1>13, <1>0, <2>1 DEF CleanBegin, Victims
<1>14. ASSUME NEW t \in Threads, NEW s \in Shards, CleanNext(t, s)
       PROVE  Simulated
  <2>1. Reads' = Reads /\ Found' = Found /\ Pending' = Pending
    BY <1>14 DEF CleanNext, Pending
  <2> QED
    BY <1>14, <1>0, <2>1 DEF CleanNext, Victims
<1>15. ASSUME NEW t \in Threads, CleanLeave(t) PROVE Simulated
  <2>1. Reads' = Reads /\ Found' = Found /\ Pending' = Pending
    BY <1>15 DEF CleanLeave, Pending
  <2> QED
    BY <1>15, <1>0, <2>1 DEF CleanLeave, Victims
<1>16. ASSUME NEW t \in Threads, CleanEnd(t) PROVE Simulated
  <2>1. Reads' = Reads /\ Found' = Found /\ Pending' = Pending
    BY <1>16 DEF CleanEnd, Pending
  <2> QED
    BY <1>16, <1>0, <2>1 DEF CleanEnd, Victims
<1>17. ASSUME NEW t \in Threads, ReadBegin(t) PROVE Simulated
  <2>1. t \in RangeReaders /\ t \notin Reads /\ Reads' = Reads \cup {t}
    BY <1>17 DEF ReadBegin
  <2>2. UNCHANGED <<cache, index, Victims, Pending>>
    BY <1>17 DEF ReadBegin, Victims, Pending
  <2>3. (index \ Victims) \cap cache = index \cap cache
    BY DEF Victims, VictimInv
  <2>4. Found' = [Found EXCEPT ![t] = (index \ Victims) \cap cache]
    BY <1>17, <2>3 DEF ReadBegin
  <2>5. Atomic!Read(t)
    BY <2>1, <2>2, <2>4 DEF Atomic!Read
  <2> QED
    BY <2>1, <2>5 DEF Atomic!Next
<1>18. ASSUME NEW t \in Threads, NEW k \in Keys, ReadShard(t, k) PROVE Simulated
  <2>1. Reads' = Reads /\ Found' = Found /\ Pending' = Pending
    BY <1>18 DEF ReadShard, Pending
  <2> QED
    BY <1>18, <1>0, <2>1 DEF ReadShard, Victims
<1>19. ASSUME NEW t \in Threads, ReadGet(t) PROVE Simulated
  <2>1. Reads' = Reads /\ Found' = Found /\ Pending' = Pending
    BY <1>19 DEF ReadGet, Pending
  <2> QED
    BY <1>19, <1>0, <2>1 DEF ReadGet, Victims
<1>20. ASSUME NEW t \in Threads, ReadEnd(t) PROVE Simulated
  <2>1. result[t] = snapshot[t] /\ t \in RangeReaders
    <3>1. t \in RangeReaders /\ pc'[t] = "done"
      BY <1>20 DEF ReadEnd
    <3>2. result'[t] = snapshot'[t]
      BY <3>1 DEF ReadInv
    <3> QED
      BY <1>20, <3>1, <3>2 DEF ReadEnd
  <2>2. Reads' = Reads /\ Found' = Found /\ Pending' = Pending
    BY <1>20, <2>1 DEF ReadEnd, Pending
  <2> QED
    BY <1>20, <1>0, <2>2 DEF ReadEnd, Victims
<1>21. ASSUME UNCHANGED vars PROVE Simulated
  <2>1. Reads' = Reads /\ Found' = Found /\ Pending' = Pending
    BY <1>21 DEF vars, Pending
  <2> QED
    BY <1>21, <1>0, <2>1 DEF vars, Victims
<1> QED
  BY <1>1, <1>2, <1>3, <1>4, <1>5, <1>6, <1>7, <1>8, <1>9, <1>10, <1>11, <1>12,
     <1>13, <1>14, <1>15, <1>16, <1>17, <1>18, <1>19, <1>20, <1>21
     DEF Next, Step

\* To the rest of the node the buffer is atomic: an entry leaves cache and index
\* at once, and a range read takes place in the instant in which it locks mu.
THEOREM Atomicity == Spec => ImplementsAtomicBuffer
<1> DEFINE Inv == /\ TypeOK /\ LockInv /\ StoreInv /\ ReadInv /\ VictimInv
<1>1. Inv /\ [Next]_vars => Inv'
  BY TypeStep, ExclusiveStep, LockStep, StoreStep, ReadStep, VictimStep
     DEF TypeOK
<1>2. Inv /\ Inv' /\ [Next]_vars => [Atomic!Next]_(Atomic!vars)
  BY AtomicStep
<1> QED
  BY <1>1, <1>2, AllInit, AtomicInit, PTL
     DEF Spec, ImplementsAtomicBuffer, Atomic!Spec
=============================================================================
