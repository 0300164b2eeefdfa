SPECIFICATION FairSpec
CONSTANTS
    Scripts <- MCScripts
    OutCap = 2
INVARIANTS
    InOrder
    NoLostWakeup
PROPERTIES
    Answered
