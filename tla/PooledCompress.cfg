CONSTANTS
    Workers = {w1, w2}
    main = main
    Callers = {main}
    shared = shared
    Batches = {shared}
    Indices = {0, 1, 2}
    MAX_THREADS = 3
    Limits = {3}
    JobsPanic = FALSE
    MaxWorkIds = 4
    None = None
    N = 3
    MaxCalls = 2
SPECIFICATION SpecAll
PROPERTIES
    ImplementsCompressMulti
    CallReturns
CHECK_DEADLOCK FALSE
