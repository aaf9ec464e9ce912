\* Two sessions give two commands; the healthy models change twice, or once and
\* one proxy dies or one process is interrupted, while daemons sweep as often as
\* they like.  Replacements may be disturbed.  The system may come to rest.
SPECIFICATION MCSpec
CONSTANTS
    Session = {s1, s2}
    Daemon = {d1, d2}
    Proxy = {p1, p2, p3, p4}
    Model = {m}
    NoState = NoState
    NoDaemon = NoDaemon
    NoProxy = NoProxy
    MaxCommands = 2
    MaxChanges = 2
    MaxDeaths = 1
INVARIANTS
    TypeOK
    LiveIsRecorded
    StoppedStaysStopped
PROPERTIES
    DaemonsEnd
    CatchesUp
CHECK_DEADLOCK FALSE
