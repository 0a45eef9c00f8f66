SPECIFICATION FairPairSpec
CONSTANTS
    Absent = Absent
    StatusValidation = TRUE
    AsyncBroker = FALSE
    Lag = "none"
    FaultKinds = {"api"}
    MaxFaults = 0
    MaxCrashes = 0
    MaxRetries = 1
    MaxLag = 1
INVARIANTS BindingHasInstance RemovedInstanceHasNoBinding
PROPERTIES BothGoAway
CHECK_DEADLOCK FALSE
