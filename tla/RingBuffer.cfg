CONSTANTS
    Size = 16
    TailSize = 4
    WrapAt = 16
    Slack = 2
    Hints = {0, 1, 3, 9}
    Dicts = {2, 4, 7, 14}
    MaxInput = 90
SPECIFICATION Spec
INVARIANTS
    TypeOK
    RunsAreContiguous
    DistancesAreReal
PROPERTY ImplementsWindow
CHECK_DEADLOCK FALSE
