CONSTANTS
    Flags <- CatableFragments
    HeaderBits = {4}
    Dicts = {0}
    BlockSize = 2
    MaxMetablock = 4
    CompressedBits = {37}
    MaxMetadata = 16
    Chunks = {0, 3}
    Metadata = {3}
    Rooms = {0, 600}
    Takes = {0}
    MaxInput = 6
SPECIFICATION FairSpec
PROPERTY CallsReturn
CHECK_DEADLOCK FALSE
