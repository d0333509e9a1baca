CONSTANTS
    MaxUps = 2
    MaxPids = 4
SPECIFICATION Spec
CHECK_DEADLOCK FALSE
INVARIANTS
    NothingSurvives
PROPERTIES
    WipesOnlyStopped
    ShellLeaves
