SPECIFICATION HistorySpec
CONSTANTS
    Goroutines = {g1, g2}
    Checkers = {g1, g2}
    NoOne = NoOne
    WithPrivMan = TRUE
    Docker <- MixedControl
    StrictMode = TRUE
    MayFail = TRUE
    FlakyUpcheck = TRUE
    Backend = TRUE
INVARIANTS
    TypeOK
    StatusTellsPhase
    BusyMeansFailure
    HibernatedMeansStopped
    UpMeansRunning
SYMMETRY GoroutineSymmetry
