SPECIFICATION FairSpec
CONSTANTS
    Nodes = {n1, n2}
    TransmitLimit = 2
    TriggerCap = 1
    MaxChanges = 3
CHECK_DEADLOCK FALSE
INVARIANTS
    TypeOK
    LevelFollowsOwnLoad
    OldNewsAccounted
PROPERTIES
    LevelsSettle
