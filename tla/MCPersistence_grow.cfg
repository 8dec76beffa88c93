SPECIFICATION FairSpec
CONSTANTS
    Replicas = 2
    Capacities = {0, 1, 2, 3}
    EditKinds = {"storage"}
    CacheLag = FALSE
    MaxEdits = 3
    MaxCrashes = 0
    MaxFailures = 0
INVARIANTS
    TypeOK
    SuccessMeansExpanded
    OneStsAtATime
    StorageKept
PROPERTIES
    EventuallySettled
CHECK_DEADLOCK FALSE
