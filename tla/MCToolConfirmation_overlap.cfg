CONSTANTS
    m1 = m1
    m2 = m2
    r1 = r1
    r2 = r2
    Messages = {m1, m2}
    Resumes = {r1}
    Wires = {"call_0", "call_1"}
    Locations = {"root"}
    MaxPass = 2
    Faults = {"abort"}
SPECIFICATION Spec
SYMMETRY Symmetry
INVARIANTS
    NoOrphanCheckpoints
PROPERTIES
    ImplementsApproval
CHECK_DEADLOCK FALSE
