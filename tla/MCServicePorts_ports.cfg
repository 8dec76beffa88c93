SPECIFICATION FairSpec
CONSTANTS
    Specs <- SampleSpecs
    Values = {"v1", "v2"}
    NodePorts = {1, 2}
    MaxEdits = 2
    MaxFaults = 1
INVARIANTS
    TypeOK
    IndInv
    AdvertisedServed
    QuietMeansServed
PROPERTIES
    NodePortsStable
    SecretsStable
    EventuallyQuiet
CHECK_DEADLOCK FALSE
