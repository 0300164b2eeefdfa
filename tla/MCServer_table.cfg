SPECIFICATION Spec
CONSTANTS
    Master = Master
    None = None
    Workers = {w1, w2}
    Clients = {c1, c2, c3}
    VC_MAX_CONNS = 2
    MaxFd = 2
    MaxReq = 1
    Timeout = 0
    MaxClock = 1
INVARIANTS
    BuffersLive
    TableMatches
    IdleOnly
SYMMETRY WorkerClientSymmetry
CONSTRAINT NoForeignYet
