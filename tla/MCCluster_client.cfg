SPECIFICATION FairSpec
CONSTANTS
    Callers = {"c1"}
    Nodes = {"n1", "n2"}
    Nowhere = "nowhere"
    Elsewhere = "elsewhere"
    Seeds <- MCSeeds
    Formats = {"nested", "flat"}
    Replies = {"line", "array", "twice", "map", "null"}
    VC_CLUSTER_MAX_NODES = 2
    VC_CLUSTER_MAX_CONNS = 1
    VC_CLUSTER_MAX_RETRIES = 2
    MaxCalls = 2
    MaxCrashes = 1
    MaxMoves = 1
INVARIANTS
    PoolExclusive
    ReplyMatches
    NoSpuriousFailure
PROPERTIES
    CallsReturn
    Recovers
CHECK_DEADLOCK FALSE
