CONSTANTS
    MaxReplicas = 2
    Replicas = {2}
    Images = {img1, img2, broken}
    DefaultImage = img1
    Unset = none
    Confs = {c1, c2}
    BrokenImages = {broken}
    PluginSets = {p1}
    PortPlugins = {}
    ControlRabbitmqImage = FALSE
    SkipPostDeploySteps = TRUE
    StsLag = FALSE
    ChildLag = FALSE
    EditKinds = {"image", "conf"}
    MaxEdits = 2
    MaxCrashes = 0
    MaxFailures = 0
    MaxPodFailures = 0
    MaxTime = 8
SPECIFICATION Spec
INVARIANTS TypeOK OneNodeAtATime SuccessMeansApplied SuccessMeansDeployed
PROPERTIES ImplementsRollingUpdate
CHECK_DEADLOCK FALSE
