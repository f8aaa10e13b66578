SPECIFICATION FairSpec
CHECK_DEADLOCK FALSE
CONSTANTS
    m1 = m1
    m2 = m2
    Metrics = {m1, m2}
    Logs = {}
    EvictedCap = 1
    RollupLag = 2
    WindowPad = 1
    TTL = 1
    StoreSlack = 1
    ExportOutcomes = {TRUE, FALSE}
    EventSpans <- MCEventSpans
    LastStore = 0
    MaxTime = 2
INVARIANTS
    TypeOK
    LossAccounted
    CachedIsReachable
    AtMostOncePerPath
    StaleEntryWasEvicted
PROPERTIES
    ImplementsLedger
    EverySignalSettles
