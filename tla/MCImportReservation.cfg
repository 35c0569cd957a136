SPECIFICATION ReservationSpec
CHECK_DEADLOCK FALSE
CONSTANTS
    k1 = k1
    k2 = k2
    c1 = c1
    c2 = c2
    l1 = l1
    r1 = r1
    r2 = r2
    Creates = {c1, c2}
    Links = {l1}
    Reserves = {r1, r2}
    Keys = {k1, k2}
    ImportKeys = {k1}
    CreateKeys <- SomeCreateKeys
    Kinds = {"targeted", "too_large"}
    Skew = 1
    MaxTime = 2
    MaxFaults = 1
INVARIANTS
    KeyNamesOneResult
    ContextTruthful
PROPERTIES
    RetriesConverge
