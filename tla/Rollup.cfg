SPECIFICATION Spec
CONSTANTS
    Enabled = TRUE
    Points <- MCPoints
    Records <- MCRecords
    MaxPoints = 3
    MaxRecords = 3
INVARIANTS
    LastRunIsKept
    PanicIsTypeClash
    OrderIsImmaterial
    LogsAreCountedOnce
