SPECIFICATION MCSpec
CONSTANTS
    g = g
    h = h
    u = u
    v = v
    NoId = NoId
    Ids = {g, u, v}
    Groups = {g}
    Users = {u, v}
    Temporary = {}
    Remedied = {g, u, v}
    MaxRow = 7
    Violate = {}
    HashMode = TRUE
    HashRow <- MCHashRow
    BindTargets = {6}
    PairTargets <- MCPairTargets
    LegacyCounter = FALSE
    Callers = {}
    Number <- MCNumber
    Handlers = {h1, h2}
INVARIANTS
    LostToHashOnly
    AloneMeansSame
SYMMETRY HandlersAlike
