CONSTANTS
    None = None
    Repos <- MCRepos
    Requested = {"dev"}
    ExitCodes = {0, 1}
    Faults = {"network", "database", "disk", "crash"}
    Dialects = {"runner", "guide", "text"}
    Worst = {"error"}
    MaxAttempts = 2
    Fragile = {"lightweight-security"}
SPECIFICATION FairSpec
CHECK_DEADLOCK FALSE
INVARIANTS TypeOK SuccessIsEarned StoredOnce SummaryIsBacked
PROPERTIES ResultRecorded RunEnds
