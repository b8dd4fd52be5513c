CONSTANTS
    m1 = m1
    m2 = m2
    r1 = r1
    r2 = r2
    Messages = {m1}
    Resumes = {r1, r2}
    Wires = {"call_0"}
    Locations = {"root", "sub"}
    MaxPass = 3
    Faults = {"crash", "abort", "error", "restore"}
SPECIFICATION Spec
SYMMETRY Symmetry
INVARIANTS
    RunsOnlyWhenGranted
    RunsAtMostOnce
    PauseIsResumable
CHECK_DEADLOCK FALSE
