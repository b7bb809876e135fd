SPECIFICATION Spec
CONSTANTS
    n1 = n1
    n2 = n2
    n3 = n3
    Nodes = {n1, n2, n3}
    Peers <- AllPeers
    Lossy <- LostLinks
    MaxDown = 2
    MaxWait = 1
    ConsWait = 3
    Lag = 1
    StopMayFail = FALSE
INVARIANT
    OneAtATime
