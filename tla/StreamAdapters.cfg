CONSTANTS
    Flags <- Streams
    HeaderBits = {4}
    Dicts = {0}
    BlockSize = 2
    MaxMetablock = 4
    CompressedBits = {21}
    MaxMetadata = 16
    Chunks = {1, 3}
    Metadata = {}
    Rooms = {0, 2, 600}
    Takes = {}
    MaxInput = 4
    BufLens = {2, 600}
    MaxGiven = 4
    Margin = 1
SPECIFICATION AdapterSpec
INVARIANTS
    LossIsTold
    SuccessMeansAll
    FinishOnlyAtEnd
    EncoderAccepts
PROPERTY AdapterReturns
CHECK_DEADLOCK FALSE
