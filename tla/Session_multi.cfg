SPECIFICATION FairSpec
CONSTANTS
    Manager = "multi"
    Slots = {k1, k2}
    Sessions = {s1, s2}
    NoSession = NoSession
    MaxSeq = 2
    QueueCap = 1
PROPERTY
    KeepsConnecting
CHECK_DEADLOCK FALSE
