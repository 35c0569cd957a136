SPECIFICATION ReportSpec
CHECK_DEADLOCK FALSE
CONSTANTS
    MaxSize = 5
    BufferSize = 3
    a = a
    b = b
    Names = {a, b}
    MaxTokens = 12
    MaxJSONDepth = 3
    MaxObjectMembers = 2
    MaxArrayElements = 2
    MaxRuns = 2
    MaxRulesPerRun = 1
    MaxResultsPerRun = 2
    MaxInvocationsPerRun = 1
    MaxLocationsPerResult = 1
    MaxFingerprintsPerResult = 1
    MaxWarnings = 2
    MaxUnsupportedFieldsPerWarning = 1
    MaxFields = 2
ACTION_CONSTRAINT OneHandOver
INVARIANTS
    ReadWhole
    ValidatorExact
    WarningsAccounted
