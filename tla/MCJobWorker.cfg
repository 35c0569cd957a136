SPECIFICATION WorkerSpec
CONSTANTS
    j1 = j1
    w1 = w1
    s1 = s1
    s2 = s2
    reaper = reaper
    Jobs = {j1}
    Workspaces = {w1}
    WorkspaceOf <- OneJobWorkspace
    AttemptLimit = 2
    MaxAttempts <- OneJobAttempts
    Priority <- OneJobPriority
    EnqueueDelays = {0}
    Sessions = {s1, s2, reaper}
    MaxInFlight = 1
    LeaseDuration = 1
    RetryDelay = 1
    RecoverLimit = 1
    MaxTime = 6
    Slots = {s1, s2}
    Reaper = reaper
    RetryMaximumAge = 1
    MaxFaults = 1
    SlowTime = 2
    DurationBits = 4
INVARIANTS
    BackoffExact
    CancelledOnlyOnRequest
PROPERTIES
    SuccessIsEarned
    EveryJobFinishes
    CancellationHonoured
    ShutdownCompletes
