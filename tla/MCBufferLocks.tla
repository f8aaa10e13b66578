--------------------------- MODULE MCBufferLocks ---------------------------
(***************************************************************************)
(* Small instances of BufferLocks: three keys in two shards.               *)
(***************************************************************************)
EXTENDS BufferLocks, TLC

CONSTANTS k1, k2, k3, s1, s2

MCKeys == {k1, k2, k3}
MCShards == {s1, s2}
MCShardOf == (k1 :> s1) @@ (k2 :> s1) @@ (k3 :> s2)
=============================================================================
