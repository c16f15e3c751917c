SPECIFICATION Spec
CONSTANTS
    Callers = {c1, c2}
    Sessions = {s1}
    MaxFaults = 1
SYMMETRY Symmetry
INVARIANTS
    CountsExact
    SerializedOnOneThread
    BusyHasOwner
    HolderIsAlive
PROPERTIES
    FifoOnOneThread
