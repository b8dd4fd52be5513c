SPECIFICATION FairSpec
CONSTANTS
    Entities = {e1}
    MaxRuns = 2
    Local <- SecondRun
    Readers = {q1}
    Stalls = TRUE
INVARIANTS
    OneAuditAtATime
    ServedRunsAreWhole
    NoOrphansServed
PROPERTIES
    ReadersNeverGoBack
    ClaimReleased
    OrphansReclaimed
CHECK_DEADLOCK FALSE
