SPECIFICATION Spec
CONSTANTS
    SpanBatches = {b1, b2}
    LogBatches = {l1}
    ExportOutcomes = {TRUE}
    MaxDecisions = 2
SYMMETRY Symmetry
CHECK_DEADLOCK FALSE
INVARIANTS
    LogsGoWithTrace
