SPECIFICATION Spec
CONSTANTS
    Configs <- MCConfigs
    MaxProxies = 2
CHECK_DEADLOCK FALSE
INVARIANTS
    BesuSupported
