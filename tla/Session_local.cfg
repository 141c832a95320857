SPECIFICATION FairSpec
CONSTANTS
    Manager = "local"
    Slots = {k1, k2}
    Sessions = {s1, s2}
    NoSession = NoSession
    MaxSeq = 2
    QueueCap = 1
INVARIANTS
    TypeOK
    OneOwner
    NoEventSkipped
PROPERTY
    LossIsRetried
