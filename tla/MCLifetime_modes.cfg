CONSTANTS
    d1 = d1
    d2 = d2
    d3 = d3
    c1 = c1
    c2 = c2
    Daemon <- ThreeDaemons
    Cli <- TwoClis
    NoDaemon = NoDaemon
    Modes <- BothModes
    Asking <- OneWithUnit
    Faults <- AllFaults
    MaxFaults = 1
SPECIFICATION FairSpec
INVARIANTS
    ServesAlone
    SettlesReachable
PROPERTIES
    CommandsEnd
    CommandsAsk
    TriesSucceed
CHECK_DEADLOCK FALSE
