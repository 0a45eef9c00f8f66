SPECIFICATION Spec
CONSTANTS
    None = None
    c1 = c1
    c2 = c2
    p1 = p1
    p2 = p2
    Classes <- MCClasses
    Plans <- MCPlans
    ClassOf <- MCClassOf
    ExternalName <- MCExternalName
    Updatable = {}
    CatalogAtStart <- MCCatalogAtStart
    NamespaceAtStart <- MCNamespaceAtStart
    MaxCatalogSteps = 4
    MaxNamespaceSteps = 1
    MaxRequests = 1
    MaxLag = 2
    ListerLag = 1
    Keys = {"user", "size"}
    Values = {"0", "1", "2"}
    Secrets = {"s"}
    Contents <- MCContents
    Broken = Broken
    ParametersFrom <- MCParametersFrom
    Parameters <- MCParameters
    MaxSecretChanges = 1
    MaxFaults = 1
INVARIANTS RequestsAgree ReferencesMatchNames ExternalIsTrue
CHECK_DEADLOCK FALSE
