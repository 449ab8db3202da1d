SPECIFICATION FairSpec
CONSTANTS
    Jobs = {j1, j2}
    Sockets = {s1}
    Publishers = {p1, p2}
    None = None
    Size = 1
    MaxEvents = 2
    Faults = {"outage", "restart"}
INVARIANTS
    TypeOK
    SnapshotFirst
    NothingMissed
PROPERTIES
    PublishReturns
    DeadSocketsLeave
CHECK_DEADLOCK FALSE
