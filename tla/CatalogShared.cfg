SPECIFICATION Spec
CONSTANTS
    b1 = b1  b2 = b2  c1 = c1  c2 = c2  p1 = p1  p2 = p2
    None = None
    Brokers = {b1, b2}
    Classes = {c1, c2}
    Plans = {p1, p2}
    Catalogs <- MCSharedCatalogs
    RelistBehavior = "Manual"
    Prompt = TRUE
    FaultKinds = {"api"}
    MaxFaults = 1
    MaxCrashes = 1
    MaxGen = 1
    MaxClock = 0
    MaxLag = 1
    MaxCatalogLag = 0
INVARIANTS ClassesKeepToTheirBroker RemovedMeansCleared
CHECK_DEADLOCK FALSE
