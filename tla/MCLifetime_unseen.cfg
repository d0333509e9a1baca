CONSTANTS
    d1 = d1
    d2 = d2
    d3 = d3
    c1 = c1
    c2 = c2
    Daemon <- ThreeDaemons
    Cli <- OneCli
    NoDaemon = NoDaemon
    Modes <- AdHoc
    Asking <- OneAlways
    Faults <- TermOnly
    MaxFaults = 1
SPECIFICATION Spec
INVARIANT StatusSeesProjects
CHECK_DEADLOCK FALSE
