SPECIFICATION Spec
CONSTANTS
    Threads = {t1, t2}
    Keys = {a, b}
    Lengths = {2, 3}
    Ring = 7
    MaxCalls = 4
    MaxCrashes = 1
INVARIANTS
    AckedSurvive
    RotationOrder
    ReplayAgrees
SYMMETRY ThreadKeySymmetry
