SPECIFICATION Spec
CONSTANTS
    Senders = {s1, s2}
    Readers = {r1}
    MaxChunks = 3
SYMMETRY Symmetry
INVARIANTS
    QueueInOrder
    SubscriberInOrder
    SavedIsWhole
PROPERTY
    SavedOnce
CHECK_DEADLOCK FALSE
