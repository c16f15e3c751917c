SPECIFICATION Spec
CONSTANTS
    a = a
    b = b
    k1 = k1
    Callers = {c1, c2}
    Packs = {p1, p2}
    Capabilities = {a, b}
    Connectors = {k1}
    Tasks = {t1}
    Manifests <- TwoManifests
    MaxGeneration = 2
    MaxTime = 1
    NumSinks = 1
    MaxCalls = 2
SYMMETRY Symmetry
INVARIANTS
    FailClosed
    GrantsAgree
    PolicyTypeOK
    RevokedNeverAllowed
    TokensDistinct
PROPERTIES
    RevocationMonotonic
    FreshTokenIsLive
