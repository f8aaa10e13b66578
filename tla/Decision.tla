------------------------------ MODULE Decision ------------------------------
(***************************************************************************)
(* The policies of internal/decision/engine.go, as operators on a batch: a *)
(* sequence of spans in the order of the engine's nested loops.            *)
(*                                                                         *)
(* A span is a record with the fields                                      *)
(*   trace       its trace id, or NoTrace if that is empty                 *)
(*   error       whether its status code is Error                          *)
(*   start, end  its timestamps                                            *)
(*   attrs       <<key, value>> pairs, value being what Value.Str() returns*)
(***************************************************************************)
EXTENDS Integers, Sequences, FiniteSetsExt

CONSTANTS
    Policies,   \* the configured policies, in order
    NoTrace

NoDecision == [trace |-> NoTrace]

CheckError(batch) == \E i \in DOMAIN batch : batch[i].error

CheckLatency(batch, policy) ==
    \E i \in DOMAIN batch : batch[i].end - batch[i].start > policy.threshold

CheckAttribute(batch, policy) ==
    \E i \in DOMAIN batch : <<policy.key, policy.value>> \in batch[i].attrs

\* A policy of an unknown type, "probabilistic" among them, matches nothing.
Matches(batch, policy) ==
    \/ policy.type = "error"     /\ CheckError(batch)
    \/ policy.type = "latency"   /\ CheckLatency(batch, policy)
    \/ policy.type = "attribute" /\ CheckAttribute(batch, policy)

Matching(batch) == {p \in DOMAIN Policies : Matches(batch, Policies[p])}

\* A decision that names the last trace id it meets.
TriggerDecision_LastTrace(batch, reason) ==
    LET named == {i \in DOMAIN batch : batch[i].trace # NoTrace} IN
    IF named = {} THEN NoDecision
    ELSE [trace  |-> batch[Max(named)].trace,
          reason |-> reason,
          start  |-> Min({batch[i].start : i \in DOMAIN batch}),
          end    |-> Max({batch[i].end : i \in DOMAIN batch})]

\* The decision names the first trace id there is, whichever span matched, and
\* its window covers all spans of the batch.
TriggerDecision(batch, reason) ==
    LET named == {i \in DOMAIN batch : batch[i].trace # NoTrace} IN
    IF named = {} THEN NoDecision
    ELSE [trace  |-> batch[Min(named)].trace,
          reason |-> reason,
          start  |-> Min({batch[i].start : i \in DOMAIN batch}),
          end    |-> Max({batch[i].end : i \in DOMAIN batch})]

\* The first policy that matches decides.
EvaluateTrace(batch) ==
    IF Matching(batch) = {} THEN NoDecision
    ELSE TriggerDecision(batch, Min(Matching(batch)))
=============================================================================
