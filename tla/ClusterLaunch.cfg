SPECIFICATION FairSpec
CONSTANTS
    native = native
    ray = ray
    Free = Free
    Other = Other
    Launch <- const_Launch
    N = 2
    Ray <- const_Ray
    MayKeep = {native}
    Refused = {ray}
    Leftover = {native}
    Port <- const_Port
    Tries = 2
    MaxFaults = 2
INVARIANTS
    TypeOK
    NoForeignRendezvous
    FailureCleansUp
PROPERTY
    ImplementsContract
    Terminates
CHECK_DEADLOCK FALSE
