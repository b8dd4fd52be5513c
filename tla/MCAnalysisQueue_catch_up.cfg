SPECIFICATION FairSpec
CONSTANTS
    Pods = {p1, p2}
    Convs = {c1}
    Slots = {1, 2}
    BatchSize = 2
    MaxRetries = 2
    MaxChanges = 1
    MaxFaults = 2
    NoPod = NoPod
INVARIANTS
    ClaimedByOnePod
    QueuedOnce
PROPERTIES
    AnalysisCatchesUp
