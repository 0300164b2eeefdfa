SPECIFICATION HSpec
CONSTANTS
    Threads = {t1}
    Keys = {a}
    Cap = 2
    Home <- MCHome
    TTLs = {0, 1}
    Tiers = {"slab"}
    EvictPct = 85
    PdMod = 256
    Retries = 8
    MaxCalls = 2
    MaxTime = 4
    Pace = 1
INVARIANTS
    SetIsVisible
