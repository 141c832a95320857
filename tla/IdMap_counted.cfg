SPECIFICATION Spec
CONSTANTS
    u = u
    g = g
    e = e
    NoId = NoId
    Ids = {u, g, e}
    Temporary = {e}
    Remedied = {}
    MaxRow = 7
    Violate = {2, 4}
    HashMode = FALSE
    HashRow <- MCHashRow
    BindTargets = {}
    LegacyCounter = TRUE
    Callers = {c1, c2}
INVARIANTS
    TypeOK
    RowMeansId
PROPERTIES
    StableRow
