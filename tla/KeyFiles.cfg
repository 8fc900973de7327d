\* One process at a time, and overlapping starts; two kills.
CONSTANTS
    p1 = p1
    p2 = p2
    r1 = r1
    r2 = r2
    k1 = k1
    k2 = k2
    k3 = k3
    Absent = Absent
    Empty = Empty
    Process = {p1, p2}
    Reader = {r1, r2}
    Key = {k1, k2, k3}
    MaxCrashes = 2
SPECIFICATION KeySpec
INVARIANT
    OneIdentity
    HalfWrittenOnlyByTwo
PROPERTY KeyIsKept
CHECK_DEADLOCK FALSE
