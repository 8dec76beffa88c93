SPECIFICATION Spec
CONSTANTS
    Replicas = 1
    Capacities = {0, 1, 2, 3}
    EditKinds = {"storage", "disable"}
    CacheLag = TRUE
    MaxEdits = 3
    MaxCrashes = 1
    MaxFailures = 1
PROPERTIES
    CapacityNeverShrinks
CHECK_DEADLOCK FALSE
