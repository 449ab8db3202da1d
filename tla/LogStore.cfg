CONSTANTS
    s1 = s1
    s2 = s2
    r1 = r1
    r2 = r2
    Steps = {s1, s2}
    Order <- MCOrder
    Requests = {r1, r2}
    Length <- MCLength
    Bytes <- MCBytes
    Meta <- MCMeta
    Kept = 1
    Listed = {s1, s2}
    None = None
    MaxDeliveries = 3
    Faults = {"batch", "step", "final", "parse"}
SPECIFICATION FairSpec
CHECK_DEADLOCK FALSE
INVARIANTS TypeOK OneLogPerStep StoredInOrder ReportedIsWhole CountNeverOvercounts
PROPERTIES OnlyCutDropsLines CallbacksReturn
