--------------------------- MODULE MCDurableIngest ---------------------------
(***************************************************************************)
(* A small instance of DurableIngest: a is a batch of spans that matches a *)
(* policy, l is a batch of logs of the same trace, and m one of metrics.   *)
(***************************************************************************)
EXTENDS DurableIngest

CONSTANTS a, l, m

MCKeyOf == [s \in Signals |-> IF s = m THEN "metric" ELSE "trace"]
=============================================================================
