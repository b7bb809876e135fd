SPECIFICATION FairSpec
CONSTANTS
    Configs <- MCConfigs
    MaxProxies = 2
CHECK_DEADLOCK FALSE
INVARIANTS
    TypeOK
    NothingMissing
    RuleConfirmed
PROPERTIES
    ShutdownEnds
    DeadClientNoticed
