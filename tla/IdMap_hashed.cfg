SPECIFICATION Spec
CONSTANTS
    u = u
    g = g
    e = e
    NoId = NoId
    Ids = {u, g, e}
    Temporary = {e}
    Remedied = {u}
    MaxRow = 5
    Violate = {1}
    HashMode = TRUE
    HashRow <- MCHashRow
    BindTargets = {5}
    LegacyCounter = FALSE
    Callers = {c1}
INVARIANTS
    ForwardHasReverse
    NothingLeftBehind
PROPERTIES
    NoOverwrite
