\* Two launches and a stop or a call of logs: by one session at a time with
\* two misfortunes (hosts that leave, containers that die, failed saves, old
\* files, stops and logs with --hosts) until something disturbs them, or by
\* two sessions in every interleaving, of a native and a Ray intent, those
\* that meddle with each other included.
SPECIFICATION MCSpec
CONSTANTS
    s1 = s1
    s2 = s2
    h1 = h1
    h2 = h2
    all = all
    i1 = i1
    i2 = i2
    t1 = t1
    NoCid = NoCid
    Session = {s1, s2}
    Host = {h1, h2}
    Cluster = {all}
    HostsOf <- MCHostsOf
    Intent = {i1, i2}
    Ray = {i2}
    RandomToken = {t1}
    MaxNodes = 2
    KeepPerIntent = 1
    HostArgs = {{h1}, {h2}}
    SaveMayFail = TRUE
    MaxLaunches = 2
    MaxStops = 1
    MaxMishaps = 2
INVARIANTS
    TypeOK
    MetadataListsLive
    OneDeploymentPerHost
PROPERTIES
    ForeignUntouched
SYMMETRY Symmetry
CHECK_DEADLOCK FALSE
