SPECIFICATION SessionsSpec

CONSTANTS
    Session = {s1, s2, s3, s4}
    Invocation = {i1, i2, i3}
    Demo = {d1, d2}
    Nobody = Nobody
    Retired = Retired
    MaxSessions = 1
    MaxInvocations = 1
    MaxOwned = 2

SYMMETRY SessionSymmetry

INVARIANT EvidenceIsOwn
 
CHECK_DEADLOCK FALSE
