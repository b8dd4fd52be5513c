SPECIFICATION Spec
CONSTANTS
    Reviews = {v1}
    Owners = {o1, o2}
    Sender <- OnePerRole
    Now = Now
    Nobody = Nobody
SYMMETRY Symmetry
INVARIANTS
    LedgerIsAChain
    StaleReviewsConflict
    PublicOnlyApproved
    IndexFollowsRow
CHECK_DEADLOCK FALSE
