CONSTANTS
    MaxRunPrefix = 1
    ContextBits = 2
    Splitters = {"plain", "context", "clustered", "flat"}
    GreedyLengths = {0, 2, 3, 9}
    OtherLengths = {0, 3, 5}
    MinBlock = 2
    MaxTypes = 4
    StaticContexts = 2
    Contexts = {0, 3}
    MaxClusters = 2
SPECIFICATION Spec
INVARIANTS
    EntropiesAreCurrent
    SwitchesAreRead
    SymbolsHaveCodes
