SPECIFICATION Spec
CONSTANTS
    n1 = n1
    n2 = n2
    n3 = n3
    Nodes = {n1, n2, n3}
    Peers <- AllPeers
    Lossy <- LostLinks
    MaxDown = 1
    MaxWait = 1
    ConsWait = 2
    Lag = 1
    StopMayFail = TRUE
INVARIANTS
    TypeOK
    MutualExclusion
    QuorumKept
PROPERTIES
    OrderlySpec
