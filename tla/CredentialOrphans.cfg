SPECIFICATION Spec
CONSTANTS
    Absent = Absent
    StatusValidation = FALSE
    Lag = "any"
    FaultKinds = {"broker", "api", "lookup", "instance", "secret", "expire", "edit"}
    MaxFaults = 3
    MaxCrashes = 1
    MaxRetries = 1
    MaxLag = 2
INVARIANTS NoBindAfterRelease  RemovedMeansUnbound StartTimeKnown
PROPERTIES StatusNeverRegresses ImplementsLifecycle
CHECK_DEADLOCK FALSE
