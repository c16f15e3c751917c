SPECIFICATION Spec
CONSTANTS
    Children = {d1, d2}
    Operators = {o1}
    MaxActiveChildren = 1
    Timeout = 1
SYMMETRY Symmetry
INVARIANTS
    LimitRespected
    OneStory
    CancelledNeverStarts
    ReportedIsStored
    HooksPaired
PROPERTIES
    TerminalFinal
    FollowsLifecycle
CHECK_DEADLOCK FALSE
