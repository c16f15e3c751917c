SPECIFICATION CatalogSpec
CONSTANTS
    Requests = {r1, r2, r3}
    Keys = {k1}
    NoOne = NoOne
    HasFallback = FALSE
CHECK_DEADLOCK FALSE
PROPERTY
    NoFollowerStarves
