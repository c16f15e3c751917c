SPECIFICATION Spec
CONSTANTS
    Callers = {c1, c2}
    Sessions = {s1}
    MaxFaults = 0
INVARIANT
    TurnsSerialized
