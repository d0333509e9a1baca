CONSTANTS
    boot = boot
    ready = ready
    error = error
    Line <- ThreeLines
    Cap = 2
    MaxLines = 2
SPECIFICATION Spec
SYMMETRY Texts
INVARIANTS
    NoLineLost
    EchoDropped
CHECK_DEADLOCK FALSE
