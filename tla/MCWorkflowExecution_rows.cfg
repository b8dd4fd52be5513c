SPECIFICATION Spec
CONSTANTS
    First = r1
    Resumes = {r2}
    Aborts = {a1}
    Nodes = {n1, n2}
    ResumeNodes = {n3}
    Crashes = TRUE
SYMMETRY Symmetry
CONSTRAINT
    FewSteps
INVARIANTS
    
    EndsDecided
PROPERTIES
    RecoverySpares
    SiblingsKeepStatus
CHECK_DEADLOCK FALSE
