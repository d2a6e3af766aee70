CONSTANTS
    N = 3
    JobsPanic = TRUE
    ViewFails = TRUE
    MaxCalls = 2
SPECIFICATION FairSpec
INVARIANTS
    EverythingComesBack
    OutputIsOrderedPrefix
PROPERTY CallReturns
CHECK_DEADLOCK FALSE
