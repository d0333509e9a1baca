SPECIFICATION Spec
CONSTANTS
    Kinds = {"up", "logs", "process"}
    LogMax = 2
    TailLines = 1
    Block = 2
    MaxBytes = 4
    MaxUps = 2
INVARIANTS TailIsLastLines NothingSkipped UpShowsItsLines
PROPERTIES LinesAppear LeavesWithProject
CHECK_DEADLOCK FALSE
