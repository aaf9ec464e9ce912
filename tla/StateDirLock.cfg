\* Three runs, two machines; every fault the code handles may happen.
SPECIFICATION FairSpec
CONSTANTS
    r1 = r1
    r2 = r2
    r3 = r3
    h1 = h1
    h2 = h2
    NoLock = NoLock
    Run = {r1, r2, r3}
    Host = {h1, h2}
    HostOf <- MCHostOf
    IoFaults = {r3}
    MayAge = TRUE
INVARIANTS
    LockHasOwner
PROPERTIES
    DeadOwnersLockGoes
    ImplementsMutex
CHECK_DEADLOCK FALSE
