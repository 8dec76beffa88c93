CONSTANTS
    MaxReplicas = 3
    Replicas = {1, 3}
    Images = {img1}
    DefaultImage = img1
    Unset = none
    Confs = {c1}
    BrokenImages = {}
    PluginSets = {p1}
    PortPlugins = {}
    ControlRabbitmqImage = FALSE
    SkipPostDeploySteps = FALSE
    StsLag = FALSE
    ChildLag = TRUE
    EditKinds = {"replicas"}
    MaxEdits = 2
    MaxCrashes = 1
    MaxFailures = 1
    MaxPodFailures = 0
    MaxTime = 8
SPECIFICATION Spec
INVARIANTS StatusReplicasBacked IndInv ScaleOutRestartsNothing QuiescentMeansObserved RestMeansApplied
PROPERTIES StatusReplicasMonotone OperatorPreservesSpec
CONSTRAINT OneFault
CHECK_DEADLOCK FALSE
