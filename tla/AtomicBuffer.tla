---------------------------- MODULE AtomicBuffer ----------------------------
(***************************************************************************)
(* What the locks behind internal/buffer/buffer.go promise to the rest of  *)
(* the node: a payload is set and later indexed; an entry leaves the cache *)
(* and the index at once; and a range read takes place in one instant.     *)
(* TimedSignals describes the buffer in steps of this size.                *)
(***************************************************************************)
CONSTANTS Keys, Readers

VARIABLES
    cache, index,
    pending,    \* keys that are set and will be indexed
    read,       \* the range reads that have taken place
    found       \* per range read, what it returns

vars == <<cache, index, pending, read, found>>

Init ==
    /\ cache \subseteq Keys /\ index = cache /\ pending = {}
    /\ read = {} /\ found = [r \in Readers |-> {}]

Set(k) ==
    /\ k \notin cache \cup index \cup pending
    /\ cache' = cache \cup {k} /\ pending' = pending \cup {k}
    /\ UNCHANGED <<index, read, found>>

\* A key is indexed once.  If its entry has left the cache again by now, it
\* depends on its callback, before or after, whether the key stays in the index.
Index(k) ==
    /\ k \in pending
    /\ pending' = pending \ {k}
    /\ \/ index' = index \cup {k}
       \/ k \notin cache /\ UNCHANGED index
    /\ UNCHANGED <<cache, read, found>>

\* An entry is deleted or evicted, and the callback drops it from the index.
Remove(k) ==
    /\ k \in cache
    /\ cache' = cache \ {k} /\ index' = index \ {k}
    /\ UNCHANGED <<pending, read, found>>

Read(r) ==
    /\ r \notin read
    /\ read' = read \cup {r}
    /\ found' = [found EXCEPT ![r] = index \cap cache]
    /\ UNCHANGED <<cache, index, pending>>

Next == \/ \E k \in Keys : Set(k) \/ Index(k) \/ Remove(k)
        \/ \E r \in Readers : Read(r)

Spec == Init /\ [][Next]_vars
=============================================================================
