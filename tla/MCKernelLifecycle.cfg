SPECIFICATION Spec
CONSTANTS
    a = a
    b = b
    k1 = k1
    Callers = {c1}
    Packs = {p1}
    Capabilities = {a}
    Connectors = {k1}
    Tasks = {t1}
    Manifests <- OneManifest
    MaxGeneration = 1
    MaxTime = 0
    NumSinks = 1
    MaxCalls = 1
INVARIANT
    TokenLifecycleAudited
