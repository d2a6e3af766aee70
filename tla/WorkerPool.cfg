CONSTANTS
    Workers = {w1, w2}
    Callers = {c1, c2}
    Batches = {b1}
    Indices = {0}
    MAX_THREADS = 2
    Limits = {2, 4}
    JobsPanic = TRUE
    MaxWorkIds = 4
    None = None
SPECIFICATION FairSpec
INVARIANTS
    PushesFit
    OccupancyIsExact
    SoleOwnerAfterJoins
PROPERTIES
    ImplementsJobService
    JoinReturns
    SpawnReturns
    DropReturns
CHECK_DEADLOCK FALSE
