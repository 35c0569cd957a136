SPECIFICATION ProcessingSpec
CONSTANTS
    j1 = j1
    v1 = v1
    v2 = v2
    Jobs = {j1}
    AttemptLimit = 2
    MaxAttempts <- TwoAttempts
    Runs = 2
    ResultsIn <- SomeResults
    Builds = {v1, v2}
    Defects = {"none", "evidence", "correlation"}
    Revocable = {j1}
    Cancellable = {}
    Aging = {}
    MaxErrors = 2
    MaxFaults = 1
CHECK_DEADLOCK FALSE
PROPERTIES
    EveryOperationFinishes
    SoundReportSucceeds
    SuccessReachesJob
