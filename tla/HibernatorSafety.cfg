SPECIFICATION HSpec
CONSTANTS
    nm = nm
    sm = sm
    tr = tr
    rt = rt
    h1 = h1
    Handlers = {h1}
    Kinds <- Http
    InactivityTime = 1
    ResyncSet = TRUE
    PollStatus = TRUE
    NodeMonitor = nm
    StatusMonitor = sm
    Tracker = tr
    ResyncTracker = rt
    Goroutines <- MCGoroutines
    Checkers <- MCCheckers
    NoOne = NoOne
    WithPrivMan = FALSE
    Docker <- NoDocker
    StrictMode = FALSE
    MayFail = FALSE
    FlakyUpcheck = FALSE
    Backend = FALSE
VIEW ReadResults
INVARIANTS
    HTypeOK
    CountInRange
    AnswersMatchRequests
