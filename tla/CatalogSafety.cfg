SPECIFICATION Spec
CONSTANTS
    b1 = b1  b2 = b2  c1 = c1  c2 = c2  p1 = p1  p2 = p2
    None = None
    Brokers = {b1}
    Classes = {c1, c2}
    Plans = {p1, p2}
    Catalogs <- MCCatalogs
    RelistBehavior = "Duration"
    Prompt = FALSE
    FaultKinds = {"catalog", "auth", "api", "expire"}
    MaxFaults = 1
    MaxCrashes = 1
    MaxGen = 2
    MaxClock = 0
    MaxLag = 1
    MaxCatalogLag = 1
INVARIANTS TypeOK ReadyMeansListed ReconciledMeansFetched NoClassWithoutPlans
PROPERTIES ObjectNeverRegresses
CHECK_DEADLOCK FALSE
