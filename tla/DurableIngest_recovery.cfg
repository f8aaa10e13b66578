SPECIFICATION Spec
CONSTANTS
    a = a
    l = l
    m = m
    Signals = {a, l, m}
    Spans = {a}
    TraceLogs = {l}
    KeyOf <- MCKeyOf
    Sampled = {a}
    Unreadable = {l}
    Retention = 0
    MaxTime = 1
    MaxCrashes = 1
CHECK_DEADLOCK FALSE
INVARIANTS
    TypeOK
    AckedIsOnDisk
    SampledDropAccounted
    TimeBoundSurvivesCrash
    StoredOncePerLife
PROPERTIES
    RestartRecoversAcked
