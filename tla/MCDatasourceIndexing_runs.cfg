SPECIFICATION FairIndexSpec
CONSTANTS
    Pods = {p1, p2}
    NoPod = NoPod
    MaxFaults = 1
    Manual = {m1}
    ApiPods = {p1}
    Jobs = {j1}
    MaxMishaps = 2
CONSTRAINT
    Few
INVARIANTS
    OneReindexer
    SlotsMatchRuns
PROPERTIES
    IndexingEnds
CHECK_DEADLOCK FALSE
