SPECIFICATION FairSpec
CONSTANTS
    Replicas = 1
    MaxClusters = 2
    MaxUids = 3
    MaxTries = 2
    MaxFaults = 1
    OtherFinalizers = {"none", "other"}
    CacheLag = FALSE
    SameNameElsewhere = FALSE
INVARIANTS
    TypeOK
    IndInv
PROPERTIES
    LiveStsKept
    DeletedPodsMarked
    EventuallyMatches
CHECK_DEADLOCK FALSE
