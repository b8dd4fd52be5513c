CONSTANTS
    m1 = m1
    m2 = m2
    r1 = r1
    r2 = r2
    Messages = {m1}
    Resumes = {r1, r2}
    Wires = {"call_0"}
    Locations = {"root", "sub"}
    MaxPass = 2
    Faults = {}
SPECIFICATION FairSpec
PROPERTIES
    GrantedRuns
CHECK_DEADLOCK FALSE
