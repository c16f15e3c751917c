SPECIFICATION FairSpec
CONSTANTS
    Children = {d1}
    Operators = {o1}
    MaxActiveChildren = 1
    Timeout = 1
PROPERTIES
    AsyncSettles
CHECK_DEADLOCK FALSE
