CONSTANTS
    MaxReplicas = 2
    Replicas = {2}
    Images = {img1, img2}
    DefaultImage = img1
    Unset = none
    Confs = {c1, c2}
    BrokenImages = {}
    PluginSets = {p1}
    PortPlugins = {}
    ControlRabbitmqImage = FALSE
    SkipPostDeploySteps = FALSE
    StsLag = FALSE
    ChildLag = FALSE
    EditKinds = {"image"}
    MaxEdits = 1
    MaxCrashes = 0
    MaxFailures = 0
    MaxPodFailures = 1
    MaxTime = 8
SPECIFICATION FairSpec
INVARIANTS SuccessMeansFlagsEnabled
PROPERTIES EventuallySettled RebalanceAfterRollout
CHECK_DEADLOCK FALSE
