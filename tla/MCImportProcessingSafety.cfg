SPECIFICATION ProcessingSpec
CONSTANTS
    j1 = j1
    v1 = v1
    v2 = v2
    Jobs = {j1}
    AttemptLimit = 2
    MaxAttempts <- TwoAttempts
    Runs = 2
    ResultsIn <- SomeResults
    Builds = {v1, v2}
    Defects = {"none", "observation"}
    Revocable = {j1}
    Cancellable = {j1}
    Aging = {j1}
    MaxErrors = 1
    MaxFaults = 2
CHECK_DEADLOCK FALSE
INVARIANTS
    StatesAgree
    OneRecordPerSource
    OutcomePublished
    SucceededIsComplete
PROPERTIES
    OperationFinal
