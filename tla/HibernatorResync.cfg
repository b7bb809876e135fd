SPECIFICATION FairHSpec
CONSTANTS
    nm = nm
    sm = sm
    tr = tr
    rt = rt
    h1 = h1
    Handlers = {}
    Kinds <- Http
    InactivityTime = 1
    ResyncSet = TRUE
    PollStatus = FALSE
    NodeMonitor = nm
    StatusMonitor = sm
    Tracker = tr
    ResyncTracker = rt
    Goroutines <- MCGoroutines
    Checkers <- MCCheckers
    NoOne = NoOne
    WithPrivMan = FALSE
    Docker <- NoDocker
    StrictMode = FALSE
    MayFail = FALSE
    FlakyUpcheck = FALSE
    Backend = FALSE
PROPERTIES
    HibernatedWakesUp
