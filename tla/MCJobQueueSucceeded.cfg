SPECIFICATION Spec
CONSTANTS
    j1 = j1
    j2 = j2
    w1 = w1
    s1 = s1
    s2 = s2
    s3 = s3
    Jobs = {j1}
    Workspaces = {w1}
    WorkspaceOf <- OneJobWorkspace
    AttemptLimit = 2
    MaxAttempts <- OneJobAttempts
    Priority <- OneJobPriority
    EnqueueDelays = {0}
    Sessions = {s1, s2}
    MaxInFlight = 1
    LeaseDuration = 1
    RetryDelay = 1
    RecoverLimit = 1
    MaxTime = 3
SYMMETRY SessionSymmetry
PROPERTIES
    SucceededStays
