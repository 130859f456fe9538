SPECIFICATION MCSpec
CONSTANTS
    Parts = {"scan"}
    MaxByte = 2
    GroupLen = 2
    IntentVersion = 9
    MaxRetries = 1
    Scenarios <- Extended
INVARIANT AllKeysAreScanned
CHECK_DEADLOCK FALSE
