SPECIFICATION Spec
CONSTANTS
    Replicas = 1
    MaxClusters = 1
    MaxUids = 6
    MaxTries = 2
    MaxFaults = 0
    OtherFinalizers = {"none", "other"}
    CacheLag = FALSE
    SameNameElsewhere = TRUE
INVARIANTS
    LivePodsChecked
CHECK_DEADLOCK FALSE
