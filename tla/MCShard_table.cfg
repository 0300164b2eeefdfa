SPECIFICATION Spec
CONSTANTS
    a = a
    b = b
    c = c
    d = d
    Threads = {t1, t2}
    Keys = {a, b, c, d}
    Cap = 3
    Home <- MCHome
    TTLs = {0}
    Tiers = {"slab", "inline"}
    EvictPct = 85
    PdMod = 256
    Retries = 1
    MaxCalls = 5
    MaxTime = 2
    Pace = 1
INVARIANTS
    TypeOK
    ProbeChain
    StorageOwnedOnce
    CountCoversLive
    DropOnlyWhenFull
    NoDuplicates
CONSTRAINT Overlap
