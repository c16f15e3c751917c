SPECIFICATION FairSpec
CONSTANTS
    p1 = p1
    p2 = p2
    k1 = k1
    k2 = k2
    Requests = {r1, r2}
    Clients = {r1, r2}
    Profiles = {p1, p2}
    Keys = {k1, k2}
    Configured <- MCConfigured
    KeyOf <- MCKeyOf
    NoOne = NoOne
    HasFallback = FALSE
    MaxEntries = 1
    ObserveOnly = FALSE
    NumModels = 1
    MaxFaults = 1
CHECK_DEADLOCK FALSE
INVARIANTS
    OneFetch
    DiskIsCurrent
PROPERTIES
    StalledSlotIsFreed
    RequestsEnd
