CONSTANTS
    None = None
    Stores = {}
    Inputs <- HttpsInputs
    Budgets = {30}
    Sources <- SlowToConnect
    Hiccups <- AllHiccups
    Outages <- AllOutages
    MaxAttempts = 2
    MaxHiccups = 0
SPECIFICATION Spec
CHECK_DEADLOCK FALSE
INVARIANTS
    BlockedRunIsDoomed
