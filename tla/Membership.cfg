SPECIFICATION FairSpec
CONSTANTS
    n1 = n1
    n2 = n2
    n3 = n3
    Nodes <- MCNodes
    Peers <- MCPeers
    Static = {n1}
    SRV <- MCSRV
    Hosts <- MCHosts
    MaxFaults = 1
CHECK_DEADLOCK FALSE
INVARIANTS
    TypeOK
PROPERTIES
    ClusterSettles
