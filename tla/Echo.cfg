SPECIFICATION MCSpec
CONSTANTS
    m1 = m1
    m2 = m2
    m3 = m3
    NoMsg = NoMsg
    MsgIds = {m1, m2, m3}
    MaxRow = 6
    HashMode = FALSE
    HashRow <- MCHashRow
    Callers = {c1, c2}
    TTL = 2
    MaxTime = 5
    Groups = {g1, g2}
    MaxActions = 4
    Count = 3
    Overlap = TRUE
INVARIANTS
    CacheIsInverse
    ShortIdMeansMsg
    MapsAreInverse
    KeptUntilExpiry
    OnlyDisturbedLose
CHECK_DEADLOCK FALSE
