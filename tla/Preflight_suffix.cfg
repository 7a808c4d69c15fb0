CONSTANTS
    None = None
    Stores = {"acme"}
    Inputs <- PrefixInputs
    Budgets = {60}
    Sources <- UpperCaseKeys
    Hiccups <- AllHiccups
    Outages <- AllOutages
    MaxAttempts = 2
    MaxHiccups = 0
SPECIFICATION Spec
CHECK_DEADLOCK FALSE
INVARIANTS
    ListedSpecIsRead
