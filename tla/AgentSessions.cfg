SPECIFICATION SessionsSpec

CONSTANTS
    Session = {s1, s2, s3}
    Invocation = {i1, i2}
    Demo = {d1, d2}
    Nobody = Nobody
    Retired = Retired
    MaxSessions = 2
    MaxInvocations = 1
    MaxOwned = 2

SYMMETRY SessionSymmetry

INVARIANTS
    SessionsTypeOK
    ClaimedOnce

CHECK_DEADLOCK FALSE
