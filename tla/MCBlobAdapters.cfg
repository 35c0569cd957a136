SPECIFICATION AdaptersSpec
CHECK_DEADLOCK FALSE
CONSTANTS
    p1 = p1
    p2 = p2
    p3 = p3
    o1 = o1
    d1 = d1
    d2 = d2
    NoVersion = NoVersion
    Backends = {"filesystem", "s3"}
    Puts = {p1, p2, p3}
    Opens = {o1}
    Deletes = {d1, d2}
    Bodies = {"fits", "too_large", "mismatch"}
    MaxFaults = 2
SYMMETRY CallSymmetry
INVARIANTS
    OpenHonest
    AcknowledgedKept
PROPERTIES
    ImplementsBlobStore
