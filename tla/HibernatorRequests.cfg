SPECIFICATION FairHSpec
CONSTANTS
    nm = nm
    sm = sm
    tr = tr
    rt = rt
    h1 = h1
    Handlers = {h1}
    Kinds <- AllKinds
    InactivityTime = 2
    ResyncSet = FALSE
    PollStatus = FALSE
    NodeMonitor = nm
    StatusMonitor = sm
    Tracker = tr
    ResyncTracker = rt
    Goroutines <- MCGoroutines
    Checkers <- MCCheckers
    NoOne = NoOne
    WithPrivMan = FALSE
    Docker <- NoDocker
    StrictMode = FALSE
    MayFail = TRUE
    FlakyUpcheck = FALSE
    Backend = FALSE
PROPERTIES
    RequestsFinish
    InactivityNoticed
    StaleUpEnds
    CallsReturn
    BusyEnds
    UsesNodeControl
