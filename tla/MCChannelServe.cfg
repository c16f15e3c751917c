SPECIFICATION FairSpec
CONSTANTS
    Processes = {p1, p2}
    Once = {p1}
    NumUpdates = 3
    Allowed = {1, 3}
    MaxFaults = 1
INVARIANTS
    NoMessageLost
    RepeatsHaveCause
PROPERTIES
    EveryMessageAnswered
