SPECIFICATION MCSpec
CONSTANTS
    w1 = w1
    w2 = w2
    w3 = w3
    i1 = i1
    i2 = i2
    Requests = {w1, w2, w3}
    Interactions = {i1, i2}
    Of <- MCOf
    Calls = {a1, a2}
    NoRequest = NoRequest
    NoCall = NoCall
    QueueCap = 1
    r1 = r1
    MaxApps = 3
    MaxBreaks = 1
    Reverse = {r1}
INVARIANTS
    TypeOK
    PromiseKept
    TakenIsAwaited
    SlotRemoved
    ListIsConnections
    EachAppOnce
    DowntimeIfNobody
PROPERTIES
    AnsweredOnce
    BroadcastEnds
CHECK_DEADLOCK FALSE
