CONSTANTS
    MaxReplicas = 2
    Replicas = {2}
    Images = {img1}
    DefaultImage = img1
    Unset = none
    Confs = {c1, c2}
    BrokenImages = {}
    PluginSets = {p1}
    PortPlugins = {}
    ControlRabbitmqImage = FALSE
    SkipPostDeploySteps = FALSE
    StsLag = FALSE
    ChildLag = FALSE
    EditKinds = {"conf"}
    MaxEdits = 1
    MaxCrashes = 1
    MaxFailures = 0
    MaxPodFailures = 0
    MaxTime = 8
SPECIFICATION Spec
INVARIANTS SuccessMeansDeployed
CHECK_DEADLOCK FALSE
