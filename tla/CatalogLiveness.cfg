SPECIFICATION FairSpec
CONSTANTS
    b1 = b1  b2 = b2  c1 = c1  c2 = c2  p1 = p1  p2 = p2
    None = None
    Brokers = {b1}
    Classes = {c1, c2}
    Plans = {p1, p2}
    Catalogs <- MCCatalogs
    RelistBehavior = "Duration"
    Prompt = TRUE
    FaultKinds = {"catalog", "api", "expire"}
    MaxFaults = 3
    MaxCrashes = 0
    MaxGen = 2
    MaxClock = 1
    MaxLag = 1
    MaxCatalogLag = 1
PROPERTIES Listed DeletionCompletes
CHECK_DEADLOCK FALSE
