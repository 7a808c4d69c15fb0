CONSTANTS
    None = None
    MaxCommits = 3
    Configured = {1, 3}
    OwnGate = {2}
    Authors = {"developer", "renovate[bot]"}
    Policies = {"unset", "enforce", "enforce-head"}
    PageSize = 1
    MaxReviews = 2
    MaxTouches = 1
    MaxWaiting = 2
SPECIFICATION Spec
CHECK_DEADLOCK FALSE
INVARIANTS
    TypeOK
    EnforcedMergeIsReviewed
    SettledCheckIsRight
PROPERTIES
    ApprovalUnblocks
