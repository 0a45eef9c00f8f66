SPECIFICATION Spec
CONSTANTS
    Absent = Absent
    StatusValidation = TRUE
    AsyncBroker = TRUE
    Lag = "none"
    FaultKinds = {"broker"}
    MaxFaults = 1
    MaxCrashes = 0
    MaxRetries = 2
    MaxLag = 3
INVARIANTS NoRetryAfterFailure
CHECK_DEADLOCK FALSE
