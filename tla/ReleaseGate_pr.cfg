CONSTANTS
    Branches = {"bump-version", "feature"}
    MaxCommits = 2
    MaxChecks = 2
    MaxPosts = 1
    MaxEvents = 1
SPECIFICATION Spec
CHECK_DEADLOCK FALSE
INVARIANTS
    TypeOK
    BumpPassedItsGate
    SettledGateIsRight
