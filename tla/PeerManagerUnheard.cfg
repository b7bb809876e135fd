SPECIFICATION Spec
CONSTANTS
    a = a
    b = b
    ka = ka
    kb = kb
    kc = kc
    Handlers = {h1}
    Stopper = sc
    Self = me
    PeerNames <- MCPeerNames
    Keys <- MCKeys
    PrivManKey <- MCPrivManKey
    Requests <- MCRequests
    Lists <- MCLists
    Unreadable = Unreadable
    MaxEdits = 1
    MaxCalls = 2
INVARIANTS
    UnheardIsDown
