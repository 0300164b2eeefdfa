SPECIFICATION Spec
CONSTANTS
    ka = ka
    kb = kb
    kc = kc
    Workers = {w1, w2}
    Keys = {ka, kb, kc}
    Table <- MCTable
    SlotRange = 8
    TtlRange = 100
    Requests <- MCRequests
    Stores <- MCStores
    MaxCmds = 2
    MaxLost = 1
INVARIANTS
    OneReply
    Isolated
    ScanCovers
SYMMETRY WorkerSymmetry
