SPECIFICATION Spec
CONSTANTS
    SpanBatches = {b1, b2, b3}
    LogBatches = {l1}
    ExportOutcomes = {TRUE, FALSE}
    MaxDecisions = 2
SYMMETRY Symmetry
CHECK_DEADLOCK FALSE
INVARIANTS
    TypeOK
    SpanLossNeedsOverlap
    SecondExportNeedsRevival
