SPECIFICATION HFairSpec
CONSTANTS
    Threads = {t1, t2}
    Keys = {a, b, c}
    Cap = 2
    Home <- MCHome
    TTLs = {1}
    Tiers = {"slab"}
    EvictPct = 50
    PdMod = 256
    Retries = 1
    MaxCalls = 3
    MaxTime = 3
    Pace = 2
INVARIANTS
    WriterExclusion
    ValidatedReads
    GetLinearizable
PROPERTIES
    WritesAreAnnounced
    ImplementsCache
    CallsReturn
