\* Two sessions start and stop two workloads as often as they like, on three
\* pids that other programs take and leave.
SPECIFICATION Spec
CONSTANTS
    Session = {s1, s2}
    Name = {n1, n2}
    Pid = {p1, p2, p3}
    Nobody = Nobody
    Stranger = Stranger
    Absent = Absent
    Empty = Empty
INVARIANTS
    TypeOK
    LiveIsTracked
    ConfirmedIsGone
SYMMETRY Symmetry
