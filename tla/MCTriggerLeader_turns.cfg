SPECIFICATION FairSpec
CONSTANTS
    Pods = {p1, p2, p3}
    NoPod = NoPod
    MaxFaults = 3
INVARIANTS
    OneEngine
PROPERTIES
    StepsDown
    SomeoneLeads
CHECK_DEADLOCK FALSE
