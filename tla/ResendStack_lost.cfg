SPECIFICATION ResendSpec
CONSTANTS
    Groups = {g1}
    MaxActions = 5
    Count = 3
    Overlap = FALSE
INVARIANT
    QueuedUntilDelivered
CHECK_DEADLOCK FALSE
