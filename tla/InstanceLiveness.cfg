SPECIFICATION FairSpec
CONSTANTS
    Absent = Absent
    StatusValidation = TRUE
    AsyncBroker = TRUE
    Lag = "below backoff"
    FaultKinds = {"broker", "api", "lookup", "creds", "expire", "edit"}
    MaxFaults = 2
    MaxCrashes = 1
    MaxRetries = 8
    MaxLag = 2
PROPERTIES Settles AsyncOperationEnds DeletionEnds StuckForGood
CHECK_DEADLOCK FALSE
