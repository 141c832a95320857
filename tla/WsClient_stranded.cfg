SPECIFICATION Spec
CONSTANTS
    Senders = {s1}
    MaxConn = 2
    MaxMsg = 1
    ReconnectTimes = 0
    DropOnError = FALSE
INVARIANT
    NeverStranded
CHECK_DEADLOCK FALSE
