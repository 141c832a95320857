SPECIFICATION FairSpec
CONSTANTS
    Senders = {s1}
    MaxConn = 2
    MaxMsg = 2
    ReconnectTimes = 1
    DropOnError = FALSE
INVARIANTS
    TypeOK
    NoLostWakeUp
    OneReconnect
    OneWriter
    ReplacedIsCancelled
PROPERTIES
    FIFOSpec
    ReconnectEnds
    QueueDrains
CHECK_DEADLOCK FALSE
