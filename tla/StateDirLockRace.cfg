\* Three runs on one machine, no I/O error and no lock that gets too old:
\* only the interleaving of the file system calls is left.
SPECIFICATION Spec
CONSTANTS
    r1 = r1
    r2 = r2
    r3 = r3
    h1 = h1
    h2 = h2
    NoLock = NoLock
    Run = {r1, r2, r3}
    Host = {h1, h2}
    HostOf <- MCHostOf
    IoFaults = {}
    MayAge = FALSE
INVARIANTS
    Exclusive
CHECK_DEADLOCK FALSE
