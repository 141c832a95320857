SPECIFICATION Spec
CONSTANTS
    m1 = m1
    m2 = m2
    m3 = m3
    r1 = r1
    r2 = r2
    Messages = {m1, m2, m3}
    Patient = {m1}
    GroupMessages = {m3}
    MaxCalls = 3
    MaxAnswers = 3
    Replies = {r1, r2}
    Reserved = 4
    MaxTries = 2
INVARIANTS
    InFlightDistinct
    ReservedForReplies
    ReplyDeliveredOnce
    NumberIsFresh
    NoIdWithoutIndex
PROPERTY
    ContiguousSpec
CHECK_DEADLOCK FALSE
