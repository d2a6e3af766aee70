CONSTANTS
    Workers = {w1, w2}
    Callers = {c1, c2}
    Batches = {b1}
    Indices = {0}
    MAX_THREADS = 2
    Limits = {3}
    JobsPanic = FALSE
    MaxWorkIds = 4
    None = None
SPECIFICATION Spec
INVARIANT PushesAlwaysFit
CHECK_DEADLOCK FALSE
