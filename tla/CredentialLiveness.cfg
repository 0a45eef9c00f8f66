SPECIFICATION FairSpec
CONSTANTS
    Absent = Absent
    StatusValidation = TRUE
    Lag = "any"
    FaultKinds = {"broker", "api", "lookup", "instance", "secret", "expire", "edit"}
    MaxFaults = 2
    MaxCrashes = 1
    MaxRetries = 1
    MaxLag = 2
INVARIANTS TypeOK
PROPERTIES Settles DeletionEnds
CHECK_DEADLOCK FALSE
