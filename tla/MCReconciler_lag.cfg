CONSTANTS
    MaxReplicas = 2
    Replicas = {2}
    Images = {img1, img2}
    DefaultImage = img1
    Unset = none
    Confs = {c1}
    BrokenImages = {}
    PluginSets = {p1}
    PortPlugins = {}
    ControlRabbitmqImage = FALSE
    SkipPostDeploySteps = FALSE
    StsLag = TRUE
    ChildLag = FALSE
    EditKinds = {"image"}
    MaxEdits = 1
    MaxCrashes = 0
    MaxFailures = 0
    MaxPodFailures = 0
    MaxTime = 8
SPECIFICATION Spec
INVARIANTS OneNodeAtATime
CHECK_DEADLOCK FALSE
