SPECIFICATION AccessSpec
CHECK_DEADLOCK FALSE
CONSTANTS
    o1 = o1
    o2 = o2
    o3 = o3
    q1 = q1
    Operators = {o1, o2, o3}
    Requests = {q1}
    TTL = 2
    Skew = 1
    MaxTime = 4
    MaxFailures = 1
INVARIANTS
    OneLiveToken
    RotationCutsOff
PROPERTIES
    OperatorsConverge
