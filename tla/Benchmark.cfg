\* Two runs on two machines, three tasks, three sessions that may end in
\* every way; locks grow old.
SPECIFICATION BenchFairSpec
CONSTANTS
    r1 = r1
    r2 = r2
    h1 = h1
    h2 = h2
    NoLock = NoLock
    Run = {r1, r2}
    Host = {h1, h2}
    HostOf <- MCHostOf
    IoFaults = {}
    MayAge = TRUE
    N = 3
    NoState = NoState
    MaxSessions = 3
INVARIANTS
    BenchTypeOK
    NoLostUpdate
PROPERTIES
    RecordedWorkKept
    GapsWereRetried
    FailFastEnds
CONSTRAINT Undisturbed
CHECK_DEADLOCK FALSE
