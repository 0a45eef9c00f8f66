SPECIFICATION Spec
CONSTANTS
    Absent = Absent
    StatusValidation = FALSE
    AsyncBroker = TRUE
    Lag = "any"
    FaultKinds = {"broker", "api", "lookup", "creds", "expire", "edit"}
    MaxFaults = 3
    MaxCrashes = 1
    MaxRetries = 1
    MaxLag = 2
INVARIANTS NoProvisionAfterDeprovision ReadyMeansProvisioned PolledUnlessDropped
PROPERTIES StatusNeverRegresses ImplementsLifecycle
CHECK_DEADLOCK FALSE
