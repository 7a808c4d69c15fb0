CONSTANTS
    None = None
    Stores = {"acme", "globex"}
    Inputs <- AllInputs
    Budgets = {1, 60}
    Sources <- AllSources
    Hiccups <- AllHiccups
    Outages <- AllOutages
    MaxAttempts = 3
    MaxHiccups = 3
SPECIFICATION Spec
CHECK_DEADLOCK FALSE
INVARIANTS
    TypeOK
    NoBlipBlocks
    ReadyIsNotRefused
    NoClientLeaks
PROPERTIES
    RunEnds
