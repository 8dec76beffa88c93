SPECIFICATION Spec
CONSTANTS
    Replicas = 2
    Capacities = {0, 1, 2}
    EditKinds = {"storage"}
    CacheLag = FALSE
    MaxEdits = 1
    MaxCrashes = 0
    MaxFailures = 1
INVARIANTS
    SuccessMeansExpanded
CHECK_DEADLOCK FALSE
