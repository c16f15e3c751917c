SPECIFICATION Spec
CONSTANTS
    c1 = c1
    c2 = c2
    c3 = c3
    r1 = r1
    r2 = r2
    s1 = s1
    s2 = s2
    Calls = {c1, c2, c3}
    Scopes = {s1, s2}
    Resolvers = {r1, r2}
    Scope <- MCScope
    Visible <- MCVisible
INVARIANTS
    CleanMeansDone
    OneExecutor
PROPERTIES
    KeepsConsent
