SPECIFICATION Spec
CONSTANTS
    Entry = {"127.53.0.1 shop_db"}
    UserLine = {"10.0.0.9 nas"}
    Modes = {"system", "direct"}
    MaxSyncs = 2
    MaxEdits = 2
    MaxDeaths = 1
INVARIANTS TypeOK MergeIsSound UserLinesKept BlockIsWhole
PROPERTIES PublishedArrives
CHECK_DEADLOCK FALSE
