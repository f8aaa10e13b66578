---------------------------- MODULE MCMembership ----------------------------
(***************************************************************************)
(* Small instances of Membership: n1 has a static list with one other node;*)
(* n2 and n3 look up a DNS name that stands for everybody, but answers in  *)
(* part, or not at all, at times.                                          *)
(***************************************************************************)
EXTENDS Membership

CONSTANTS n1, n2, n3

MCNodes == {n1, n2, n3}
MCPeers == [n \in MCNodes |-> IF n = n1 THEN {n2} ELSE MCNodes]
MCSRV   == [n \in MCNodes |-> {{}, {n, n1}}]
MCHosts == [n \in MCNodes |-> {{}, {n}, MCNodes}]
=============================================================================
