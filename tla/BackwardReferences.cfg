SPECIFICATION Spec
CONSTANTS
    MaxBackward = 5
    Searches = {"greedy", "zopfli", "twice"}
    Catables = {FALSE, TRUE}
    Dictionaries = {0, 4}
    Offered = {0, 1, 4}
    MaxInput = 5
    MaxMeta = 8
    BlockSize = 4
    HashLength = 1
    MinMatch = 2
    Words = {2}
    Sparse = 1
    Sparser = 2
    Margin = 0
    Unknown = 1000
INVARIANTS
    DecodesAsMeant
    RingIsTheDecoders
    CommandsCoverInput
    CommandsFit
