SPECIFICATION Spec
CONSTANTS
    native = native
    ray = ray
    Free = Free
    Other = Other
    Launch <- const_Launch
    N = 2
    Ray <- const_Ray
    MayKeep = {}
    Refused = {native}
    Leftover = {native}
    Port <- const_Port
    Tries = 2
    MaxFaults = 1
INVARIANT
    SuccessMeansStarted
CHECK_DEADLOCK FALSE
