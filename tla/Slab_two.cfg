SPECIFICATION FairSpec
CONSTANTS
    Threads = {t1, t2}
    NBlocks = 3
    MaxOps = 6
INVARIANTS
    Conservation
PROPERTIES
    CallsReturn
