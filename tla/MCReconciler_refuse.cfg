CONSTANTS
    MaxReplicas = 1
    Replicas = {1}
    Images = {img1, img2}
    DefaultImage = img1
    Unset = none
    Confs = {c1}
    BrokenImages = {}
    PluginSets = {p1, p2}
    PortPlugins = {p2}
    ControlRabbitmqImage = FALSE
    SkipPostDeploySteps = FALSE
    StsLag = TRUE
    ChildLag = FALSE
    EditKinds = {"image", "plugins", "tls", "pause"}
    MaxEdits = 2
    MaxCrashes = 0
    MaxFailures = 0
    MaxPodFailures = 0
    MaxTime = 8
SPECIFICATION FairSpec
PROPERTIES EventuallySettled
CHECK_DEADLOCK FALSE
