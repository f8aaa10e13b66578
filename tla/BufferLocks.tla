----------------------------- MODULE BufferLocks -----------------------------
(***************************************************************************)
(* The locks behind internal/buffer/buffer.go: the buffer's own RWMutex mu *)
(* and, inside bigcache, one RWMutex per shard.  The cache runs            *)
(* onCacheEvictionWithReason with the shard locked, and the callback locks *)
(* mu; the range reads lock mu and call cache.Get, which locks shards.     *)
(*                                                                         *)
(* Each goroutine performs one operation of the buffer.  The keys are of   *)
(* one kind (metrics, or time-bound logs).  bigcache is external: its      *)
(* locking is what its set, del, get and cleanUp do around the callback.   *)
(***************************************************************************)
EXTENDS Naturals, FiniteSets

CONSTANTS
    Keys,           \* cache keys
    Shards,         \* shards of the cache
    ShardOf,        \* the shard a key hashes to
    Storers,        \* goroutines in storeMetric or storeSplitLogs
    Removers,       \* goroutines in RemoveMetricsInRange or RemoveLogsInRange
    Cleaners,       \* the cache's cleaner
    RangeReaders,   \* goroutines in GetMetricsInRange or GetLogsInRange
    NoThread

Threads == Storers \cup Removers \cup Cleaners \cup RangeReaders

ASSUME ShardsAssumption == ShardOf \in [Keys -> Shards] /\ "mu" \notin Shards
ASSUME ThreadsAssumption == NoThread \notin Threads
ASSUME OneOperationEach ==
    /\ Storers \cap (Removers \cup Cleaners \cup RangeReaders) = {}
    /\ Removers \cap (Cleaners \cup RangeReaders) = {}
    /\ Cleaners \cap RangeReaders = {}

Mutexes == {"mu"} \cup Shards

VARIABLES
    owner,      \* per mutex, the writer that holds it or waits for its readers
    readers,    \* per mutex, the readers that hold it
    pc,
    cur,        \* per goroutine, the key it works on, as a set
    todo,       \* per goroutine, the keys or shards it has still to visit
    victim,     \* the entry a goroutine runs the callback for, as a set
    cache, index,
    result,     \* what a range read has found so far
    snapshot    \* history: what a range read would have found on taking mu

lockVars == <<owner, readers>>
vars == <<lockVars, pc, cur, todo, victim, cache, index, result, snapshot>>

\* Any state the buffer is in between operations, with keys left to store.
Init ==
    /\ owner = [m \in Mutexes |-> NoThread]
    /\ readers = [m \in Mutexes |-> {}]
    /\ pc = [t \in Threads |-> "start"]
    /\ cur = [t \in Threads |-> {}]
    /\ todo = [t \in Threads |-> {}]
    /\ victim = [t \in Threads |-> {}]
    /\ cache \in SUBSET Keys
    /\ index = cache
    /\ result = [t \in Threads |-> {}]
    /\ snapshot = [t \in Threads |-> {}]

-----------------------------------------------------------------------------
(* sync.RWMutex.  Lock() shuts new readers out at once and then waits for  *)
(* those that hold the mutex, so it is two steps: Announce and a step with *)
(* the guard Exclusive.  RLock() is one step with the guard Open.          *)

Open(m) == owner[m] = NoThread
Exclusive(t, m) == owner[m] = t /\ readers[m] = {}

Goto(t, label) == pc' = [pc EXCEPT ![t] = label]

Announce(t, m) ==
    /\ Open(m)
    /\ owner' = [owner EXCEPT ![m] = t]
    /\ UNCHANGED readers

Unlock(m) ==
    /\ owner' = [owner EXCEPT ![m] = NoThread]
    /\ UNCHANGED readers

-----------------------------------------------------------------------------
(* Writers of a shard: a Set, a Delete, or the cleaner.  While it holds    *)
(* the shard, a goroutine may remove entries, each with its callback.      *)

\* The goroutine's current shard, as a set.
InShard(t) == {s \in Shards : owner[s] = t}

EnterShard(t) ==
    /\ pc[t] = "shard"
    /\ \E s \in InShard(t) : Exclusive(t, s)
    /\ Goto(t, "inShard")
    /\ UNCHANGED <<lockVars, cur, todo, victim, cache, index, result, snapshot>>

\* A cache that releases the shard before it runs the callback.
RemoveEntry_ShardReleased(t, k) ==
    /\ pc[t] = "inShard"
    /\ k \in cache /\ ShardOf[k] \in InShard(t)
    /\ t \in Removers => k \in cur[t]
    /\ cache' = cache \ {k}
    /\ victim' = [victim EXCEPT ![t] = {k}]
    /\ Unlock(ShardOf[k])
    /\ Goto(t, "callback")
    /\ UNCHANGED <<cur, todo, index, result, snapshot>>

\* An entry leaves the cache; the callback starts with b.mu.Lock().
RemoveEntry(t, k) ==
    /\ pc[t] = "inShard"
    /\ k \in cache /\ ShardOf[k] \in InShard(t)
    /\ t \in Removers => k \in cur[t]
    /\ cache' = cache \ {k}
    /\ victim' = [victim EXCEPT ![t] = {k}]
    /\ Goto(t, "callback")
    /\ UNCHANGED <<lockVars, cur, todo, index, result, snapshot>>

CallbackLock(t) ==
    /\ pc[t] = "callback"
    /\ Announce(t, "mu")
    /\ Goto(t, "inCallback")
    /\ UNCHANGED <<cur, todo, victim, cache, index, result, snapshot>>

\* The callback without b.mu.Lock(): it does not wait for readers.
CallbackBody_Unlocked(t) ==
    /\ pc[t] = "inCallback"
    /\ index' = index \ victim[t]
    /\ victim' = [victim EXCEPT ![t] = {}]
    /\ Unlock("mu")
    /\ Goto(t, "inShard")
    /\ UNCHANGED <<cur, todo, cache, result, snapshot>>

\* A callback that leaves the key in the index.
CallbackBody_KeyKept(t) ==
    /\ pc[t] = "inCallback"
    /\ Exclusive(t, "mu")
    /\ victim' = [victim EXCEPT ![t] = {}]
    /\ Unlock("mu")
    /\ Goto(t, "inShard")
    /\ UNCHANGED <<cur, todo, cache, index, result, snapshot>>

CallbackBody(t) ==
    /\ pc[t] = "inCallback"
    /\ Exclusive(t, "mu")
    /\ index' = index \ victim[t]
    /\ victim' = [victim EXCEPT ![t] = {}]
    /\ Unlock("mu")
    /\ Goto(t, "inShard")
    /\ UNCHANGED <<cur, todo, cache, result, snapshot>>

-----------------------------------------------------------------------------
(* storeMetric: cache.Set, which may make room first, then the index.      *)

StoreBegin(t, k) ==
    /\ t \in Storers /\ pc[t] = "start"
    /\ k \notin cache \cup index /\ \A u \in Storers : k \notin cur[u]
    /\ Announce(t, ShardOf[k])
    /\ cur' = [cur EXCEPT ![t] = {k}]
    /\ Goto(t, "shard")
    /\ UNCHANGED <<todo, victim, cache, index, result, snapshot>>

\* (A Set that fails, because the entry is too big, is left out: it gives the
\* shard back and takes no other lock.)
StoreSet(t) ==
    /\ t \in Storers /\ pc[t] = "inShard"
    /\ cache' = cache \cup cur[t]
    /\ \E s \in InShard(t) : Unlock(s)
    /\ Goto(t, "set")
    /\ UNCHANGED <<cur, todo, victim, index, result, snapshot>>

StoreLock(t) ==
    /\ t \in Storers /\ pc[t] = "set"
    /\ Announce(t, "mu")
    /\ Goto(t, "insert")
    /\ UNCHANGED <<cur, todo, victim, cache, index, result, snapshot>>

StoreInsert(t) ==
    /\ t \in Storers /\ pc[t] = "insert"
    /\ Exclusive(t, "mu")
    /\ index' = index \cup cur[t]
    /\ Unlock("mu")
    /\ Goto(t, "done")
    /\ UNCHANGED <<cur, todo, victim, cache, result, snapshot>>

-----------------------------------------------------------------------------
(* RemoveMetricsInRange: the keys are collected under mu, and deleted      *)
(* after it is released.                                                   *)

\* A collection whose RUnlock is deferred to the end of the function.
RemoveCollect_Deferred(t) ==
    /\ t \in Removers /\ pc[t] = "start"
    /\ Open("mu")
    /\ todo' = [todo EXCEPT ![t] = index]
    /\ readers' = [readers EXCEPT !["mu"] = @ \cup {t}]
    /\ Goto(t, "next")
    /\ UNCHANGED <<owner, cur, victim, cache, index, result, snapshot>>

RemoveCollect(t) ==
    /\ t \in Removers /\ pc[t] = "start"
    /\ Open("mu")
    /\ todo' = [todo EXCEPT ![t] = index]
    /\ Goto(t, "next")
    /\ UNCHANGED <<lockVars, cur, victim, cache, index, result, snapshot>>

RemoveNext(t, k) ==
    /\ t \in Removers /\ pc[t] = "next"
    /\ k \in todo[t]
    /\ Announce(t, ShardOf[k])
    /\ cur' = [cur EXCEPT ![t] = {k}]
    /\ todo' = [todo EXCEPT ![t] = @ \ {k}]
    /\ Goto(t, "shard")
    /\ UNCHANGED <<victim, cache, index, result, snapshot>>

\* cache.Delete returns, with the entry removed or not found.
RemoveLeave(t) ==
    /\ t \in Removers /\ pc[t] = "inShard"
    /\ cur[t] \cap cache = {}
    /\ \E s \in InShard(t) : Unlock(s)
    /\ Goto(t, "next")
    /\ UNCHANGED <<cur, todo, victim, cache, index, result, snapshot>>

RemoveEnd(t) ==
    /\ t \in Removers /\ pc[t] = "next"
    /\ todo[t] = {}
    /\ Goto(t, "done")
    /\ UNCHANGED <<lockVars, cur, todo, victim, cache, index, result, snapshot>>

-----------------------------------------------------------------------------
(* The cleaner visits the shards and, in each, removes what has expired.   *)

CleanBegin(t) ==
    /\ t \in Cleaners /\ pc[t] = "start"
    /\ todo' = [todo EXCEPT ![t] = Shards]
    /\ Goto(t, "next")
    /\ UNCHANGED <<lockVars, cur, victim, cache, index, result, snapshot>>

CleanNext(t, s) ==
    /\ t \in Cleaners /\ pc[t] = "next"
    /\ s \in todo[t]
    /\ Announce(t, s)
    /\ todo' = [todo EXCEPT ![t] = @ \ {s}]
    /\ Goto(t, "shard")
    /\ UNCHANGED <<cur, victim, cache, index, result, snapshot>>

CleanLeave(t) ==
    /\ t \in Cleaners /\ pc[t] = "inShard"
    /\ \E s \in InShard(t) : Unlock(s)
    /\ Goto(t, "next")
    /\ UNCHANGED <<cur, todo, victim, cache, index, result, snapshot>>

CleanEnd(t) ==
    /\ t \in Cleaners /\ pc[t] = "next"
    /\ todo[t] = {}
    /\ Goto(t, "done")
    /\ UNCHANGED <<lockVars, cur, todo, victim, cache, index, result, snapshot>>

-----------------------------------------------------------------------------
(* GetMetricsInRange: mu is read-locked to the end, and cache.Get is       *)
(* called for every key of the index in range (here, all of it).           *)

ReadBegin(t) ==
    /\ t \in RangeReaders /\ pc[t] = "start"
    /\ Open("mu")
    /\ readers' = [readers EXCEPT !["mu"] = @ \cup {t}]
    /\ todo' = [todo EXCEPT ![t] = index]
    /\ snapshot' = [snapshot EXCEPT ![t] = index \cap cache]
    /\ Goto(t, "reading")
    /\ UNCHANGED <<owner, cur, victim, cache, index, result>>

ReadShard(t, k) ==
    /\ t \in RangeReaders /\ pc[t] = "reading"
    /\ k \in todo[t]
    /\ Open(ShardOf[k])
    /\ readers' = [readers EXCEPT ![ShardOf[k]] = @ \cup {t}]
    /\ cur' = [cur EXCEPT ![t] = {k}]
    /\ todo' = [todo EXCEPT ![t] = @ \ {k}]
    /\ Goto(t, "get")
    /\ UNCHANGED <<owner, victim, cache, index, result, snapshot>>

ReadGet(t) ==
    /\ t \in RangeReaders /\ pc[t] = "get"
    /\ result' = [result EXCEPT ![t] = @ \cup (cur[t] \cap cache)]
    /\ readers' = [m \in Mutexes |->
                    IF m = "mu" THEN readers[m] ELSE readers[m] \ {t}]
    /\ Goto(t, "reading")
    /\ UNCHANGED <<owner, cur, todo, victim, cache, index, snapshot>>

ReadEnd(t) ==
    /\ t \in RangeReaders /\ pc[t] = "reading"
    /\ todo[t] = {}
    /\ readers' = [readers EXCEPT !["mu"] = @ \ {t}]
    /\ Goto(t, "done")
    /\ UNCHANGED <<owner, cur, todo, victim, cache, index, result, snapshot>>

-----------------------------------------------------------------------------

Step(t) ==
    \/ EnterShard(t) \/ CallbackLock(t) \/ CallbackBody(t)
    \/ StoreSet(t) \/ StoreLock(t) \/ StoreInsert(t)
    \/ RemoveCollect(t) \/ RemoveLeave(t) \/ RemoveEnd(t)
    \/ CleanBegin(t) \/ CleanLeave(t) \/ CleanEnd(t)
    \/ ReadBegin(t) \/ ReadGet(t) \/ ReadEnd(t)
    \/ \E k \in Keys : \/ RemoveEntry(t, k) \/ StoreBegin(t, k)
                       \/ RemoveNext(t, k) \/ ReadShard(t, k)
    \/ \E s \in Shards : CleanNext(t, s)

Next == \E t \in Threads : Step(t)

Spec == Init /\ [][Next]_vars

\* A goroutine that can run is scheduled.
FairSpec == Spec /\ \A t \in Threads : WF_vars(Step(t))

-----------------------------------------------------------------------------
(* Properties.                                                             *)

Labels == {"start", "shard", "inShard", "callback", "inCallback", "set",
           "insert", "next", "reading", "get", "done"}

StateTypes ==
    /\ owner \in [Mutexes -> Threads \cup {NoThread}]
    /\ readers \in [Mutexes -> SUBSET Threads]
    /\ pc \in [Threads -> Labels]
    /\ cur \in [Threads -> SUBSET Keys] /\ victim \in [Threads -> SUBSET Keys]
    /\ todo \in [Threads -> SUBSET (Keys \cup Shards)]
    /\ cache \subseteq Keys /\ index \subseteq Keys
    /\ result \in [Threads -> SUBSET Keys]
    /\ snapshot \in [Threads -> SUBSET Keys]

ShardsAreExclusive ==
    \A t \in Threads : pc[t] \in {"inShard", "callback", "inCallback"} =>
      \E s \in InShard(t) : Exclusive(t, s)

\* The types of the state; a goroutine that changes a shard, callback included,
\* has it to itself.
TypeOK == StateTypes /\ ShardsAreExclusive

\* A range read that returns has returned what it would have found in the one
\* instant in which it locked mu, although it visits the shards one by one and
\* entries are set, deleted and evicted meanwhile.
RangeReadIsSnapshot ==
    \A t \in RangeReaders : pc[t] = "done" => result[t] = snapshot[t]

\* All operations have returned (a handler may not have been called at all).
Returned ==
    \A t \in Threads : pc[t] = "done" \/ (t \in Storers /\ pc[t] = "start")

\* A range read holds mu and wants a shard whose owner is in the eviction
\* callback and wants mu.
ReadAgainstCallback ==
    \E r \in RangeReaders, t \in Threads :
      /\ pc[r] = "reading" /\ r \in readers["mu"]
      /\ \E k \in todo[r] : ShardOf[k] \in InShard(t)
      /\ pc[t] \in {"callback", "inCallback"}

\* The shards of the entries that a loop has still to visit.
ShardsAhead(t) ==
    IF t \in Cleaners THEN todo[t] ELSE {ShardOf[k] : k \in todo[t]}

\* A goroutine waits for a mutex, or will if it goes on with a certain entry.
MayWait(t) ==
    \/ pc[t] = "shard" /\ \A s \in InShard(t) : readers[s] # {}
    \/ pc[t] \in {"callback", "set"} /\ ~Open("mu")
    \/ pc[t] = "start" /\ t \in Removers \cup RangeReaders /\ ~Open("mu")
    \/ pc[t] \in {"inCallback", "insert"} /\ readers["mu"] # {}
    \/ pc[t] \in {"next", "reading"} /\ \E s \in ShardsAhead(t) : ~Open(s)

\* In whatever order the loops visit their entries, everybody waits only if a
\* range read and an eviction callback wait for each other: there is no other
\* cycle of the locks mu and of the shards, for any number of goroutines.
StopNeedsReadAgainstCallback ==
    (\A t \in Threads : \/ MayWait(t) \/ pc[t] = "done"
                        \/ t \in Storers /\ pc[t] = "start")
      => Returned \/ ReadAgainstCallback

\* The deadlock the code has is the only thing that can stop an operation: every
\* one that was begun returns, unless a range read and an eviction callback come
\* to wait for each other for ever.
OnlyReadAgainstCallbackStops == <>[](Returned \/ ReadAgainstCallback)

\* Entries that have left the cache and are with a callback.
Victims == UNION {victim[t] : t \in Threads}

\* Keys whose handler is between cache.Set and the index.
Pending == {k \in Keys : \E t \in Storers : pc[t] \in {"set", "insert"}
                                           /\ k \in cur[t]}

Atomic == INSTANCE AtomicBuffer
            WITH Readers <- RangeReaders,
                 index   <- index \ Victims,
                 pending <- Pending,
                 read    <- {r \in RangeReaders : pc[r] # "start"},
                 found   <- [r \in RangeReaders |->
                               IF pc[r] = "done" THEN result[r]
                                                 ELSE snapshot[r]]

\* To the rest of the node the buffer is atomic: an entry leaves the cache and
\* the index at once and does not come back, although the callback drops it from
\* the index when mu is free, and a range read takes place as it locks mu,
\* although it goes from shard to shard.
ImplementsAtomicBuffer == Atomic!Spec

\* Every operation that was begun returns.
OperationsFinish == \A t \in Threads : pc[t] # "start" ~> pc[t] = "done"
=============================================================================
