CONSTANTS
    Plans <- AllPlans
    Windows = {0, 10, 16, 17, 22, 24, 30}
    Chunks = {1, 2, 3, 4, 5, 50}
    Buffers = {1, 2, 3, 4, 50}
    None = None
SPECIFICATION Spec
INVARIANTS
    OutputIsConcatenation
    ErrorsAreDeserved
PROPERTY EveryCallMovesOn
CHECK_DEADLOCK FALSE
