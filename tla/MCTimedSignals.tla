--------------------------- MODULE MCTimedSignals ---------------------------
(***************************************************************************)
(* Small instances of TimedSignals.                                        *)
(***************************************************************************)
EXTENDS TimedSignals

CONSTANTS m1, m2

\* One event, just before the first signal: with the padding its window ends in
\* the instant in which the signals arrive.
MCEventSpans == {<<-1, -1>>}
=============================================================================
