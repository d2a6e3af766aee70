CONSTANTS
    Flags <- SlowAndFast
    HeaderBits = {4, 14}
    Dicts = {0, 1, 3}
    BlockSize = 2
    MaxMetablock = 4
    CompressedBits = {37}
    MaxMetadata = 16777216
    Chunks = {0, 1, 3}
    Metadata = {0, 3, 16, 16777217}
    Rooms = {0, 3, 600}
    Takes = {0, 1}
    MaxInput = 5
SPECIFICATION FairSpec
INVARIANTS
    BitsAddUp
    InputInOrder
    UnflushedFits
    OperationsComplete
    AcceptedCallsSucceed
    StreamEndsAsAsked
PROPERTIES
    FinishGoesThrough
    OtherCallsReturn
CHECK_DEADLOCK FALSE
