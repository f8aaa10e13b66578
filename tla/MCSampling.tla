----------------------------- MODULE MCSampling -----------------------------
(***************************************************************************)
(* Small instances of Sampling.                                            *)
(***************************************************************************)
EXTENDS Sampling

CONSTANTS n1, n2, b1, b2, b3, t1, t2

Span(t, error, start, end, attrs) ==
    [trace |-> t, error |-> error, start |-> start, end |-> end,
     attrs |-> attrs]

Plain(t)  == Span(t, FALSE, 1, 2, {})   \* as long as the latency threshold
Failed(t) == Span(t, TRUE, 1, 1, {})
Slow(t)   == Span(t, FALSE, 0, 3, {})
Tagged(t) == Span(t, FALSE, 1, 1, {<<"tier", "gold">>})

MCPolicies == << [type |-> "probabilistic"],
                 [type |-> "error"],
                 [type |-> "latency", threshold |-> 1],
                 [type |-> "attribute", key |-> "tier", value |-> "gold"] >>

At(n, spans) == [node |-> n, spans |-> spans]

\* What is sent as b1, b2 and b3: a match behind another trace; two nodes that
\* decide on one trace, by a span without trace id in one case; a decision of
\* one node about a trace that is on both, in two batches on its own.
Sent == { <<At(n1, <<Plain(t2), Slow(t1)>>),
            At(n2, <<Plain(t2)>>),
            At(n2, <<Plain(t1)>>)>>,
          <<At(n1, <<Failed(NoTrace), Plain(t1)>>),
            At(n2, <<Slow(t1)>>),
            At(n2, <<Failed(NoTrace)>>)>>,
          <<At(n1, <<Plain(t1)>>),
            At(n2, <<Tagged(t1), Plain(t2)>>),
            At(n2, <<Plain(t1)>>)>> }

MCWorkloads ==
    { [b \in Batches |-> CASE b = b1 -> w[1]
                           [] b = b2 -> w[2]
                           [] b = b3 -> w[3]]
      : w \in Sent }
=============================================================================
