SPECIFICATION Spec
CONSTANTS
    a = a
    b = b
    k1 = k1
    Callers = {c1, c2}
    Packs = {p1}
    Capabilities = {a}
    Connectors = {k1}
    Tasks = {t1}
    Manifests <- OneManifest
    MaxGeneration = 1
    MaxTime = 0
    NumSinks = 2
    MaxCalls = 3
SYMMETRY Symmetry
INVARIANTS
    EvidenceBeforeOk
    JournalFirst
    EventIdsUnique
    TaskActsOnce
