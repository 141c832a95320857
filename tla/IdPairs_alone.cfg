SPECIFICATION MCSpec
CONSTANTS
    g = g
    h = h
    u = u
    v = v
    NoId = NoId
    Ids = {g, h, u}
    Groups = {g, h}
    Users = {u}
    Temporary = {}
    Remedied = {g, h, u}
    MaxRow = 7
    Violate = {}
    HashMode = TRUE
    HashRow <- MCHashRow
    BindTargets = {}
    PairTargets = {}
    LegacyCounter = FALSE
    Callers = {}
    Number <- MCNumber
    Handlers = {h1}
INVARIANT
    AloneResolves
