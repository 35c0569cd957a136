SPECIFICATION ServerSpec
CHECK_DEADLOCK FALSE
CONSTANTS
    c1 = c1
    c2 = c2
    c3 = c3
    Clients = {c1, c2, c3}
INVARIANTS
    SuccessMeansDrained
PROPERTIES
    ServerStops
