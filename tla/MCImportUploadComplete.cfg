SPECIFICATION Spec
CHECK_DEADLOCK FALSE
CONSTANTS
    i1 = i1
    i2 = i2
    u1 = u1
    u2 = u2
    u3 = u3
    d1 = d1
    d2 = d2
    d3 = d3
    d4 = d4
    r1 = r1
    r2 = r2
    r3 = r3
    r4 = r4
    k1 = k1
    k2 = k2
    NoUpload = NoUpload
    NoContent = NoContent
    NoOperation = NoOperation
    Imports = {i1, i2}
    Legacy = {i2}
    Backend = "filesystem"
    Uploads = {u1, u2}
    Completes = {d1, d2, d3, d4}
    Contents = {r1, r2, r3, r4}
    Keys = {k1, k2}
    UploadOf <- EachImport
    Bodies <- OneBody
    CompleteOf <- CompletedImports
    KeyOf <- CompletionKeys
    SizeOf <- Sizes
    ExpectedSize <- SizeOne
    ExpectedSHA256 <- FirstTwo
    MaxBytes = 2
    UploadExpiresAt <- ExpiresAtTwo
    UploadTimeout = 1
    MaxTime = 0
    MaxFaults = 1
INVARIANTS CompletionExactlyOnce
