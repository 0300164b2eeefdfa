SPECIFICATION ValuesSpec
CONSTANTS
    Keys = {"k8", "k24", "k25"}
    KeyLen <- MCKeyLen
    Sizes = {0, 7, 8, 24, 25, 64, 65, 65536, 65537, 2097152, 2097153}
    Cap = 2
    ArenaBlocks = 2
    MaxCalls = 4
INVARIANTS
    ValueFitsBlock
    StraysAtLimit
    PayloadFits
    BlocksConserved
