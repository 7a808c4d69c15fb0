CONSTANTS
    None = None
    NotADict = NotADict
    Stores = {}
    Workflows = {"create", "reuse1", "reuse2"}
    InputOf <- MCInputs
    Reads <- MCReads
    Foreign <- MCForeign
    MaxRuns = 2
SPECIFICATION Spec
CHECK_DEADLOCK FALSE
INVARIANTS
    TypeOK
    LastRunIsCatalogued
    ConnectionSurvives
PROPERTIES
    SharedAssetsSurvive
    ArchivedMeansGone
    RunsKeepPromise
