CONSTANTS
    api = api
    web = web
    here = here
    there = there
    c1 = c1
    c2 = c2
    i1 = i1
    i2 = i2
    i3 = i3
    Name <- TwoNames
    Path <- TwoPaths
    Cli <- TwoClis
    Inode <- ThreeInodes
    NoInode = NoInode
    Blank = Blank
    Torn = Torn
    Unknown = Unknown
    Faults <- AllFaults
SPECIFICATION Spec
SYMMETRY Alike
CONSTRAINT SmallAfterOverlap
INVARIANTS
    ParsesUnlessOverlap
PROPERTIES
    TableSpec
    PruneDropsGhosts
CHECK_DEADLOCK FALSE
