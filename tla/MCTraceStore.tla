---------------------------- MODULE MCTraceStore ----------------------------
(***************************************************************************)
(* Small instances of TraceStore.                                          *)
(***************************************************************************)
EXTENDS TraceStore, TLC

\* Span batches are handled alike.
Symmetry == Permutations(SpanBatches)
=============================================================================
