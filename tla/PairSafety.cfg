SPECIFICATION PairSpec
CONSTANTS
    Absent = Absent
    StatusValidation = TRUE
    AsyncBroker = TRUE
    Lag = "any"
    FaultKinds = {"broker", "api"}
    MaxFaults = 0
    MaxCrashes = 1
    MaxRetries = 0
    MaxLag = 1
INVARIANTS BindFollowsProvision
CHECK_DEADLOCK FALSE
