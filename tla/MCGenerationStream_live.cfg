SPECIFICATION FairSpec
CONSTANTS
    Senders = {s1}
    Readers = {r1}
    MaxChunks = 1
PROPERTIES
    TurnEnds
    SubscribersEnd
CHECK_DEADLOCK FALSE
