SPECIFICATION FairSpec
CONSTANTS
    Replicas = {r1, r2, r3}
    Versions <- MCVersions
    Images <- MCImages
    None = None
INVARIANTS TypeOK RecordedOnce NeverCollides ServesMigrated
PROPERTIES InOrder NobodyWaitsForever
