SPECIFICATION Spec
CONSTANTS
    n1 = n1
    n2 = n2
    b1 = b1
    b2 = b2
    b3 = b3
    t1 = t1
    t2 = t2
    NoTrace = NoTrace
    Nodes = {n1, n2}
    Batches = {b1, b2, b3}
    Policies <- MCPolicies
    Workloads <- MCWorkloads
    TransmitLimit = 2
    DecisionCap = 1
CHECK_DEADLOCK FALSE
INVARIANTS
    MatchReachesAllNodes
