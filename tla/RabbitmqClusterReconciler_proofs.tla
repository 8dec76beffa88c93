------------------- MODULE RabbitmqClusterReconciler_proofs -------------------
(***************************************************************************)
(* Proofs about RabbitmqClusterReconciler: the inductive invariant, the    *)
(* safety invariants it implies and two action properties, for clusters of *)
(* any size and any number of edits, crashes and failures.                 *)
(***************************************************************************)
EXTENDS RabbitmqClusterReconciler, TLAPS

\* The record mem holds between reconciles is a cluster.
LEMMA BlankType == Blank \in Cluster /\ Blank.st \in ClusterStatus
BY ConstantsAssumption
   DEF Blank, NewCluster, NewStatus, Cluster, ClusterSpec, ClusterStatus,
       SuccessReason, Time

\* SetCondition keeps the type of the status.
LEMMA SetConditionType ==
    ASSUME NEW st \in ClusterStatus, NEW reason \in SuccessReason
    PROVE  SetCondition(st, reason) \in ClusterStatus
BY DEF SetCondition, ClusterStatus

\* A status put into a cluster.
LEMMA WithStatusType ==
    ASSUME NEW c \in Cluster, NEW st \in ClusterStatus
    PROVE  [c EXCEPT !.st = st] \in Cluster
BY DEF Cluster

\* What the builders take from a spec has the type of the field it is put into.
LEMMA BuilderTypes ==
    ASSUME NEW spec \in ClusterSpec
    PROVE  serverConf(spec) \in ServerConf /\ podTemplate(spec) \in PodTemplate
<1>1. TLSEnabled(spec) \in BOOLEAN
  BY DEF TLSEnabled
<1>2. (spec.plugins \in PortPlugins) \in BOOLEAN
  OBVIOUS
<1>3. spec.conf \in Confs /\ spec.image \in Images \cup {Unset}
  BY DEF ClusterSpec
<1>4. \A c \in Confs, im \in Images \cup {Unset}, x, y \in BOOLEAN :
         <<c, x>> \in ServerConf /\ <<im, x, y>> \in PodTemplate
  BY DEF ServerConf, PodTemplate
<1>5. QED
  BY <1>1, <1>2, <1>3, <1>4, Zenon DEF serverConf, podTemplate

\* The initial states have the right type.
LEMMA InitType == Init => TypeOK
<1> SUFFICES ASSUME Init PROVE TypeOK
  OBVIOUS
<1>1. rmq \in Cluster
  BY BlankType, ConstantsAssumption
     DEF Init, NewCluster, NewStatus, Cluster, ClusterSpec, ClusterStatus,
         SuccessReason, Time
<1>2. base \in Child /\ rbac \in Child /\ plugins \in PluginsConfigMap
  BY BlankType DEF Init, Child, PluginsConfigMap, Cluster, ClusterSpec, Time
<1>a. /\ serverConf(Blank.spec) \in ServerConf
      /\ podTemplate(Blank.spec) \in PodTemplate
  BY BlankType, BuilderTypes DEF Cluster
<1>3. server \in ServerConfigMap
  BY <1>a, ConstantsAssumption DEF Init, ServerConfigMap, Time
<1>4. sts \in [Node -> StatefulSet]
  BY <1>a DEF Init, NoSts, StatefulSet, Time
<1>5. pod \in [Node -> Pod]
  BY <1>a, BlankType DEF Init, NoPod, Pod, Cluster, ClusterSpec, Time
<1>6. idx \in 0..MaxReplicas /\ now \in Nat \ {0} /\ budget \in Budget
  BY ConstantsAssumption DEF Init, Budget
<1>7. view \in View
  BY <1>2, <1>3, <1>4, <1>5 DEF Init, current, View, Pod
<1>8. QED
  BY <1>1, <1>2, <1>3, <1>4, <1>5, <1>6, <1>7, BlankType DEF Init, TypeOK, Steps

-----------------------------------------------------------------------------
(***************************************************************************)
(* Type correctness, in two parts: what a step does to the copies of the   *)
(* cluster and to pc and budget, and what it does to the rest.             *)
(***************************************************************************)
ControlType ==
    /\ rmq \in Cluster /\ cache \in Cluster /\ mem \in Cluster
    /\ cacheFresh \in BOOLEAN /\ memFresh \in BOOLEAN
    /\ before \in ClusterStatus /\ pc \in Steps /\ budget \in Budget

ObjectType ==
    /\ idx \in 0..MaxReplicas /\ queued \in BOOLEAN
    /\ base \in Child /\ rbac \in Child
    /\ plugins \in PluginsConfigMap /\ server \in ServerConfigMap
    /\ sts \in [Node -> StatefulSet] /\ view \in View /\ left \subseteq Node
    /\ pod \in [Node -> Pod] /\ flags \subseteq Node
    /\ secretOK \in BOOLEAN /\ now \in Nat \ {0}

\* The two parts make up TypeOK.
LEMMA TypeParts == TypeOK <=> ControlType /\ ObjectType
BY DEF TypeOK, ControlType, ObjectType

\* The children as the API server has them, and as the operator reads them.
LEMMA CachedType == ObjectType => current \in View /\ cached \in View
BY DEF ObjectType, current, cached, View, Pod

\* If the informers' copies are not old, the children are read as they are.
LEMMA CachedIsCurrent ==
    ASSUME ChildLag = FALSE
    PROVE  /\ cached.base = base /\ cached.plugins = plugins /\ cached.server = server
           /\ cached.rbac = rbac /\ cached.sts = sts
           /\ \A i \in Node : cached.up[i] = pod[i].up /\ StsCurrent(i)
           /\ Listed = Existing
BY DEF cached, current, StsCurrent, Listed, Existing

\* An event of a child changes the informers' copies, and only those: each of them is
\* the old one or current.
LEMMA ChildSyncEffect ==
    ASSUME ObjectType, ChildSync
    PROVE  /\ ChildLag /\ pc \in Reading /\ queued' = TRUE
           /\ UNCHANGED <<rmqVars, memVars, pc, idx, childVars, sts, left, pod, flags,
                          envVars>>
           /\ view' \in View
           /\ view'.server = view.server \/ view'.server = server
           /\ \A i \in Node : view'.sts[i] = view.sts[i] \/ view'.sts[i] = sts[i]
<1> USE DEF childSync
<1>0. view \in View /\ \A i \in Node : sts[i] \in StatefulSet /\ pod[i].up \in BOOLEAN
  BY DEF ObjectType, Pod
<1>1. CASE childSync([view EXCEPT !.base = base])
  BY <1>0, <1>1 DEF ObjectType, View
<1>2. CASE childSync([view EXCEPT !.plugins = plugins])
  BY <1>0, <1>2 DEF ObjectType, View
<1>3. CASE childSync([view EXCEPT !.server = server])
  BY <1>0, <1>3 DEF ObjectType, View
<1>4. CASE childSync([view EXCEPT !.rbac = rbac])
  BY <1>0, <1>4 DEF ObjectType, View
<1>5. CASE \E i \in Node : stsSync(i)
  <2>1. PICK i \in Node : stsSync(i)
    BY <1>5
  <2>2. view' = [view EXCEPT !.sts[i] = sts[i], !.up[i] = pod[i].up]
    BY <2>1 DEF stsSync
  <2>3. /\ view' \in View /\ view'.server = view.server
        /\ \A j \in Node : view'.sts[j] = view.sts[j] \/ view'.sts[j] = sts[j]
    BY <1>0, <2>2 DEF View
  <2>4. QED
    BY <2>1, <2>3 DEF stsSync
<1>6. QED
  BY <1>1, <1>2, <1>3, <1>4, <1>5 DEF ChildSync

\* A failed write leaves a budget.
LEMMA WriteFailsType == ControlType /\ WriteFails => budget' \in Budget
BY DEF ControlType, WriteFails, Budget

\* The ways a step of Reconcile ends keep the first part.
LEMMA UpdateClusterType ==
    ASSUME ControlType, NEW obj \in Cluster, NEW next \in Steps,
           UpdateCluster(obj, next)
    PROVE  ControlType'
<1>1. [obj EXCEPT !.st = rmq.st] \in Cluster
  BY WithStatusType DEF ControlType, Cluster
<1>2. CASE Store([obj EXCEPT !.st = rmq.st]) /\ pc' = next
  BY <1>1, <1>2 DEF ControlType, Store
<1>3. CASE Refused /\ pc' = "return" /\ UNCHANGED memVars
  BY <1>3, WriteFailsType DEF ControlType, Refused, rmqVars, memVars, Steps
<1>4. QED
  BY <1>2, <1>3 DEF UpdateCluster

\* A write of the status, accepted or refused, keeps the types.
LEMMA updateStatusType ==
    ASSUME ControlType, NEW st \in ClusterStatus, updateStatus(st)
    PROVE  ControlType'
<1>1. [mem EXCEPT !.st = st] \in Cluster
  BY WithStatusType DEF ControlType
<1>2. CASE Store([mem EXCEPT !.st = st])
  BY <1>1, <1>2 DEF ControlType, Store, updateStatus, Steps
<1>3. CASE Refused /\ mem' = [mem EXCEPT !.st = st] /\ UNCHANGED <<memFresh, before>>
  BY <1>1, <1>3, WriteFailsType DEF ControlType, Refused, rmqVars, updateStatus, Steps
<1>4. QED
  BY <1>2, <1>3 DEF updateStatus

\* Going on to the next step keeps the types.
LEMMA ContinueType ==
    ASSUME ControlType, NEW next \in Steps, Continue(next) PROVE ControlType'
BY DEF ControlType, Continue, rmqVars, memVars

\* An early return with a status set in mem keeps the types.
LEMMA ReturnType ==
    ASSUME ControlType, NEW st \in ClusterStatus, Return(st) PROVE ControlType'
BY WithStatusType DEF ControlType, Return, rmqVars, Steps

\* A failed command keeps the types.
LEMMA CLIFailsType ==
    ASSUME ControlType, CLIFails, budget' \in Budget PROVE ControlType'
<1>1. mem.st \in ClusterStatus
  BY DEF ControlType, Cluster
<1>2. mem' \in Cluster
  BY <1>1, SetConditionType, WithStatusType DEF ControlType, CLIFails, SuccessReason
<1>3. QED
  BY <1>2 DEF ControlType, CLIFails, rmqVars, Steps

\* A builder that wrote its object keeps the types.
LEMMA BuiltType ==
    ASSUME ControlType, NEW next \in Steps, NEW copyCurrent, Built(copyCurrent, next)
    PROVE  ControlType'
BY DEF ControlType, Built, rmqVars, memVars, envVars

\* A user's write of a well-typed cluster keeps the types.
LEMMA UserWritesType ==
    ASSUME ControlType, NEW obj \in Cluster, UserWrites(obj) PROVE ControlType'
<1>1. budget' \in Budget
  BY DEF ControlType, UserWrites, Budget
<1>2. QED
  BY <1>1 DEF ControlType, UserWrites

\* No step leaves the first part of the type invariant.
LEMMA ControlTypeStep == TypeOK /\ [Next]_vars => ControlType'
<1> SUFFICES ASSUME TypeOK, [Next]_vars PROVE ControlType'
  OBVIOUS
<1> USE TypeParts
<1>a. mem.st \in ClusterStatus /\ rmq.st \in ClusterStatus /\ mem.spec \in ClusterSpec
  BY DEF ControlType, Cluster
<1>1. CASE getRabbitmqCluster
  BY <1>1 DEF ControlType, getRabbitmqCluster, rmqVars, envVars, Cluster, Steps
<1>2. CASE addFinalizer
  <2>1. [mem EXCEPT !.finalizer = TRUE] \in Cluster
    BY DEF ControlType, Cluster
  <2>2. QED
    BY <1>2, <2>1, UpdateClusterType, ContinueType DEF addFinalizer, Steps
<1>3. CASE reconcilePaused
  <2>1. [mem.st EXCEPT !.paused = @ \/ mem.st.success # "None"] \in ClusterStatus
    BY <1>a DEF ClusterStatus
  <2>2. QED
    BY <1>3, <2>1, ReturnType, ContinueType DEF reconcilePaused, Steps
<1>4. CASE reconcileOperatorDefaults
  <2> DEFINE spec == [mem.spec EXCEPT !.image = DefaultImage]
             gen == IF spec = mem.spec THEN mem.gen ELSE mem.gen + 1
  <2>1. spec \in ClusterSpec /\ gen \in Nat
    BY <1>a, ConstantsAssumption DEF ControlType, Cluster, ClusterSpec
  <2>2. [mem EXCEPT !.spec = spec, !.gen = gen] \in Cluster
    BY <2>1 DEF ControlType, Cluster
  <2>3. QED
    BY <1>4, <2>2, UpdateClusterType, ContinueType DEF reconcileOperatorDefaults, Steps
<1>5. CASE reconcileStatusConditions
  <2>1. PICK ready \in AllReplicasReadyCondition :
          LET st == SetConditions(mem.st, ready) IN
          IF st = mem.st THEN Continue("tls") ELSE updateStatus(st)
    BY <1>5 DEF reconcileStatusConditions
  <2>2. ready \in {"Unknown", "True", "False"}
    BY DEF AllReplicasReadyCondition
  <2>a. ClusterAvailableCondition \in {"False", "Unknown"}
    BY DEF ClusterAvailableCondition
  <2>3. SetConditions(mem.st, ready) \in ClusterStatus
    BY <1>a, <2>2, <2>a DEF SetConditions, ClusterStatus, SuccessReason
  <2>4. QED
    BY <2>1, <2>3, updateStatusType, ContinueType DEF Steps
<1>6. CASE reconcileTLS
  BY <1>6, <1>a, SetConditionType, ReturnType, ContinueType
     DEF reconcileTLS, Steps, SuccessReason
<1>7. CASE reconcileQueueRebalanced
  <2>1. [mem EXCEPT !.rebal = now] \in Cluster
    BY DEF ControlType, ObjectType, Cluster, Time
  <2>2. QED
    BY <1>7, <2>1, UpdateClusterType, ContinueType DEF reconcileQueueRebalanced, Steps
<1>8. CASE reconcileScaleDown
  BY <1>8, <1>a, SetConditionType, ReturnType, ContinueType
     DEF reconcileScaleDown, Steps, SuccessReason
<1>9. CASE waitResourceReady
  BY <1>9, ContinueType DEF waitResourceReady, Steps
<1>10. CASE buildBase \/ buildRbac
  BY <1>10, BuiltType DEF buildBase, buildRbac, Steps
<1>11. CASE buildPlugins \/ buildServer
  BY <1>11, BuiltType DEF buildPlugins, buildServer, Steps
<1>12. CASE \E i \in Node : buildSts(i)
  BY <1>12, BuiltType DEF buildSts, Steps
<1>13. CASE buildFails
  <2>1. mem' \in Cluster
    BY <1>13, <1>a, SetConditionType, WithStatusType
       DEF ControlType, buildFails, SuccessReason
  <2>2. QED
    BY <1>13, <2>1, WriteFailsType DEF ControlType, buildFails, rmqVars, Steps
<1>14. CASE buildDone \/ noRestartNeeded \/ featureFlagsDone
  BY <1>14, ContinueType DEF buildDone, noRestartNeeded, featureFlagsDone, Steps
<1>15. CASE annotatePlugins \/ annotateServer \/ annotateSts
  BY <1>15, WriteFailsType
     DEF ControlType, annotatePlugins, annotateServer, annotateSts, Annotated,
         rmqVars, memVars, Steps
<1>16. CASE \E i \in Node : restartStatefulSetIfNeeded(i)
  BY <1>16, WriteFailsType
     DEF ControlType, restartStatefulSetIfNeeded, rmqVars, memVars, Steps
<1>17. CASE reconcileStatus
  <2> DEFINE n == IF mem.spec.replicas > mem.st.replicas
                  THEN mem.spec.replicas ELSE mem.st.replicas
  <2>1. n \in 0..MaxReplicas
    BY <1>a, ConstantsAssumption DEF ClusterSpec, ClusterStatus
  <2>2. [mem.st EXCEPT !.replicas = n, !.user = TRUE] \in ClusterStatus
    BY <1>a, <2>1 DEF ClusterStatus
  <2>3. QED
    BY <1>17, <2>2, updateStatusType, ContinueType DEF reconcileStatus, Steps
<1>18. CASE reconcileRabbitmqCLI
  BY <1>18, ContinueType DEF reconcileRabbitmqCLI, Steps
<1>19. CASE runSetPluginsCommand
  BY <1>19, WriteFailsType, CLIFailsType
     DEF ControlType, runSetPluginsCommand, rmqVars, memVars
<1>20. CASE removePluginsConfigUpdatedFlag
  BY <1>20, WriteFailsType, CLIFailsType
     DEF ControlType, removePluginsConfigUpdatedFlag, rmqVars, memVars, Steps
<1>21. CASE \E i \in Node : runEnableFeatureFlagsCommand(i)
  BY <1>21, WriteFailsType, CLIFailsType
     DEF ControlType, runEnableFeatureFlagsCommand, rmqVars, memVars
<1>22. CASE runQueueRebalanceCommand
  <2>1. [mem EXCEPT !.rebal = 0, !.st = rmq.st] \in Cluster
    BY <1>a DEF ControlType, Cluster, Time
  <2>2. QED
    BY <1>22, <2>1, WriteFailsType, CLIFailsType
       DEF ControlType, runQueueRebalanceCommand, Store, Steps
<1>23. CASE reconcileSuccess
  <2>1. SetCondition(mem.st, "Success") \in ClusterStatus
    BY <1>a, SetConditionType DEF SuccessReason
  <2>2. [SetCondition(mem.st, "Success") EXCEPT !.obsGen = mem.gen] \in ClusterStatus
    BY <2>1 DEF ControlType, Cluster, ClusterStatus
  <2>3. mem' \in Cluster
    BY <1>23, <2>2, WithStatusType DEF ControlType, reconcileSuccess
  <2>4. QED
    BY <1>23, <2>3 DEF ControlType, reconcileSuccess, rmqVars, Steps
<1>24. CASE deferredStatusUpdate
  <2>1. rmq' \in Cluster /\ cache' \in Cluster /\ cacheFresh' \in BOOLEAN
    BY <1>24, <1>a, WithStatusType
       DEF ControlType, deferredStatusUpdate, Refused, rmqVars
  <2>2. budget' \in Budget
    BY <1>24, WriteFailsType DEF ControlType, deferredStatusUpdate, Refused
  <2>3. QED
    BY <1>24, <2>1, <2>2, BlankType DEF ControlType, deferredStatusUpdate, Steps
<1>25. CASE panicGetChildResources \/ Crash
  <2>1. budget' \in Budget
    BY <1>25 DEF ControlType, panicGetChildResources, Crash, Budget
  <2>2. QED
    BY <1>25, <2>1, BlankType
       DEF ControlType, panicGetChildResources, Crash, Restarted, Steps
<1>26. CASE cacheSync \/ ChildSync \/ tick
  BY <1>26, ChildSyncEffect DEF ControlType, cacheSync, tick, rmqVars, memVars, envVars
<1>27. CASE UserEditsSpec
  <2> DEFINE Edits ==
        [replicas : IF "replicas" \in EditKinds THEN Replicas ELSE {rmq.spec.replicas},
         image    : IF "image" \in EditKinds THEN Images ELSE {rmq.spec.image},
         conf     : IF "conf" \in EditKinds THEN Confs ELSE {rmq.spec.conf},
         plugins  : IF "plugins" \in EditKinds THEN PluginSets ELSE {rmq.spec.plugins},
         tls      : IF "tls" \in EditKinds THEN {"off", "on", "invalid"} ELSE {rmq.spec.tls}]
  <2>a. rmq.spec \in ClusterSpec
    BY DEF ControlType, Cluster
  <2>b. \A spec \in Edits : spec \in ClusterSpec
    BY <2>a, ConstantsAssumption DEF ClusterSpec
  <2>c. PICK spec \in Edits : UserWrites([rmq EXCEPT !.spec = spec, !.gen = @ + 1])
    BY <1>27, Zenon DEF UserEditsSpec
  <2>1. /\ spec \in ClusterSpec
        /\ UserWrites([rmq EXCEPT !.spec = spec, !.gen = rmq.gen + 1])
    BY <2>b, <2>c
  <2>2. rmq.gen + 1 \in Nat
    BY DEF ControlType, Cluster
  <2>3. [rmq EXCEPT !.spec = spec, !.gen = rmq.gen + 1] \in Cluster
    BY <2>1, <2>2 DEF ControlType, Cluster
  <2>4. QED
    BY <2>1, <2>3, UserWritesType
<1>28. CASE UserPauses
  <2>1. [rmq EXCEPT !.paused = ~@] \in Cluster
    BY DEF ControlType, Cluster
  <2>2. QED
    BY <1>28, <2>1, UserWritesType DEF UserPauses
<1>29. CASE UserWritesSecret
  BY <1>29 DEF ControlType, UserWritesSecret, Budget, rmqVars, memVars
<1>30. CASE \E i \in Node : NodeStep(i) \/ podFail(i)
  BY <1>30 DEF ControlType, NodeStep, stsObserve, podStop, podStart, podFail,
               NodeEvent, Budget, rmqVars, memVars
<1>31. CASE UNCHANGED vars
  BY <1>31 DEF ControlType, vars, rmqVars, memVars, envVars
<1>32. QED
  BY <1>1, <1>2, <1>3, <1>4, <1>5, <1>6, <1>7, <1>8, <1>9, <1>10, <1>11, <1>12,
     <1>13, <1>14, <1>15, <1>16, <1>17, <1>18, <1>19, <1>20, <1>21, <1>22, <1>23,
     <1>24, <1>25, <1>26, <1>27, <1>28, <1>29, <1>30, <1>31
     DEF Next, OperatorStep

\* What the builders want has the type of the object.
LEMMA WantedType ==
    ASSUME TypeOK
    PROVE  /\ wantBase \in Child /\ wantRbac \in Child
           /\ wantPlugins \in PluginsConfigMap /\ wantServer \in ServerConfigMap
           /\ \A i \in Node : wantSts(i) \in StatefulSet
<1>1. mem.spec \in ClusterSpec /\ mem.rebal \in Time
  BY DEF TypeOK, Cluster
<1>a. serverConf(mem.spec) \in ServerConf /\ podTemplate(mem.spec) \in PodTemplate
  BY <1>1, BuilderTypes
<1>2. \A ann \in Time : ReconcileAnnotations(ann) \in Time
  BY <1>1 DEF ReconcileAnnotations
<1>b. cached \in View
  BY CachedType, TypeParts
<1>3. wantBase \in Child /\ wantRbac \in Child
  BY <1>2, <1>b DEF View, wantBase, wantRbac, Child
<1>4. wantPlugins \in PluginsConfigMap
  BY <1>1, <1>2, <1>b DEF View, wantPlugins, PluginsConfigMap, ClusterSpec
<1>5. wantServer \in ServerConfigMap
  BY <1>1, <1>a, <1>2, <1>b DEF View, wantServer, ServerConfigMap, ClusterSpec
<1>6. \A i \in Node : wantSts(i) \in StatefulSet
  BY <1>a, <1>2, <1>b DEF View, wantSts, StatefulSet
<1>7. QED
  BY <1>3, <1>4, <1>5, <1>6

\* A written StatefulSet, seen by its controller or not yet.
LEMMA TemplatedType ==
    ASSUME NEW old \in StatefulSet, NEW new \in StatefulSet
    PROVE  /\ Templated(old, new) \in StatefulSet
           /\ Templated(old, new).ex = new.ex
           /\ Templated(old, new).template = new.template
BY DEF Templated, StatefulSet

\* The steps of Reconcile that write no child.
LEMMA NoChildWriteSteps ==
    ASSUME \/ addFinalizer \/ reconcilePaused \/ reconcileOperatorDefaults
           \/ reconcileStatusConditions \/ reconcileTLS \/ reconcileQueueRebalanced
           \/ reconcileScaleDown \/ waitResourceReady \/ buildFails \/ buildDone
           \/ noRestartNeeded \/ reconcileStatus \/ featureFlagsDone \/ reconcileSuccess
    PROVE  NoChildWrite
BY Zenon
   DEF addFinalizer, reconcilePaused, reconcileOperatorDefaults,
       reconcileStatusConditions, reconcileTLS, reconcileQueueRebalanced,
       reconcileScaleDown, waitResourceReady, buildFails, buildDone,
       noRestartNeeded, reconcileStatus, featureFlagsDone, reconcileSuccess

\* No step leaves the second part of the type invariant.
LEMMA ObjectTypeStep == TypeOK /\ [Next]_vars => ObjectType'
<1> SUFFICES ASSUME TypeOK, [Next]_vars PROVE ObjectType'
  OBVIOUS
<1> USE TypeParts
<1>a. now \in Time
  BY DEF ObjectType, Time
<1>1. CASE addFinalizer \/ reconcilePaused \/ reconcileOperatorDefaults
          \/ reconcileStatusConditions \/ reconcileTLS \/ reconcileQueueRebalanced
          \/ reconcileScaleDown \/ waitResourceReady \/ buildFails \/ buildDone
          \/ noRestartNeeded \/ reconcileStatus \/ featureFlagsDone \/ reconcileSuccess
  <2>1. NoChildWrite
    BY <1>1, NoChildWriteSteps, Zenon
  <2>2. QED
    BY <2>1 DEF ObjectType, NoChildWrite, childVars, nodeVars
<1>2. CASE getRabbitmqCluster
  BY <1>2 DEF ObjectType, getRabbitmqCluster, childVars, nodeVars, envVars
<1>3. CASE buildBase \/ buildRbac \/ buildPlugins \/ buildServer
  BY <1>3, WantedType
     DEF ObjectType, buildBase, buildRbac, buildPlugins, buildServer, Built, Changed,
         envVars
<1>4. CASE \E i \in Node : buildSts(i)
  <2>1. PICK i \in Node : buildSts(i)
    BY <1>4
  <2>2. Templated(sts[i], wantSts(i)) \in StatefulSet
    BY WantedType, TemplatedType DEF ObjectType
  <2>3. sts' \in [Node -> StatefulSet]
    BY <2>1, <2>2 DEF ObjectType, buildSts
  <2>4. idx' \in 0..MaxReplicas
    BY <2>1, ConstantsAssumption DEF buildSts, Node
  <2>5. QED
    BY <2>1, <2>3, <2>4 DEF ObjectType, buildSts, Built, Changed, childVars, envVars
<1>5. CASE annotatePlugins \/ annotateServer
  <2>1. plugins' \in PluginsConfigMap /\ server' \in ServerConfigMap
    BY <1>5, <1>a DEF ObjectType, annotatePlugins, annotateServer, Annotated,
                      PluginsConfigMap, ServerConfigMap
  <2>2. QED
    BY <1>5, <2>1 DEF ObjectType, annotatePlugins, annotateServer, Annotated, Changed
<1>6. CASE annotateSts
  <2>a. idx \in Node => [sts[idx] EXCEPT !.created = TRUE] \in StatefulSet
    BY DEF ObjectType, StatefulSet
  <2>1. sts' \in [Node -> StatefulSet]
    BY <1>6, <2>a DEF ObjectType, annotateSts, Annotated
  <2>2. QED
    BY <1>6, <2>1 DEF ObjectType, annotateSts, Annotated, Changed
<1>7. CASE \E i \in Node : restartStatefulSetIfNeeded(i)
  <2>1. PICK i \in Node : restartStatefulSetIfNeeded(i)
    BY <1>7
  <2>2. [sts[i] EXCEPT !.restartAt = now] \in StatefulSet
    BY <1>a DEF ObjectType, StatefulSet
  <2>3. Templated(sts[i], [sts[i] EXCEPT !.restartAt = now]) \in StatefulSet
    BY <2>2, TemplatedType DEF ObjectType
  <2>4. sts' \in [Node -> StatefulSet]
    BY <2>1, <2>3 DEF ObjectType, restartStatefulSetIfNeeded
  <2>a. view \in View /\ sts[i] \in StatefulSet /\ pod[i].up \in BOOLEAN
    BY DEF ObjectType, Pod
  <2>b. [view EXCEPT !.sts[i] = sts[i], !.up[i] = pod[i].up] \in View
    BY <2>a DEF View
  <2>5. view' \in View
    BY <2>1, <2>a, <2>b DEF restartStatefulSetIfNeeded
  <2>6. queued' \in BOOLEAN
    BY <2>1 DEF ObjectType, restartStatefulSetIfNeeded, StsCurrent
  <2>7. QED
    BY <2>1, <2>4, <2>5, <2>6 DEF ObjectType, restartStatefulSetIfNeeded, childVars
<1>8. CASE reconcileRabbitmqCLI
  BY <1>8, ConstantsAssumption DEF ObjectType, reconcileRabbitmqCLI, Listed, childVars
<1>9. CASE runSetPluginsCommand
  <2>1. mem.spec.plugins \in PluginSets /\ mem.spec.replicas \in 1..MaxReplicas
    BY DEF ControlType, Cluster, ClusterSpec
  <2>2. pod' \in [Node -> Pod]
    BY <1>9, <2>1 DEF ObjectType, runSetPluginsCommand, CLIFails, nodeVars, Pod
  <2>3. idx' \in 0..MaxReplicas
    BY <1>9, <2>1, ConstantsAssumption DEF ObjectType, runSetPluginsCommand
  <2>4. QED
    BY <1>9, <2>2, <2>3
       DEF ObjectType, runSetPluginsCommand, CLIFails, childVars, nodeVars
<1>10. CASE removePluginsConfigUpdatedFlag
  <2>1. plugins' \in PluginsConfigMap
    BY <1>10 DEF ObjectType, removePluginsConfigUpdatedFlag, CLIFails, childVars,
                 PluginsConfigMap, Time
  <2>2. QED
    BY <1>10, <2>1 DEF ObjectType, removePluginsConfigUpdatedFlag, CLIFails, Changed,
                       childVars, nodeVars
<1>11. CASE \E i \in Node : runEnableFeatureFlagsCommand(i)
  <2>1. PICK i \in Node : runEnableFeatureFlagsCommand(i)
    BY <1>11
  <2>a. [sts[i] EXCEPT !.created = FALSE] \in StatefulSet
    BY DEF ObjectType, StatefulSet
  <2>2. sts' \in [Node -> StatefulSet]
    BY <2>1, <2>a DEF ObjectType, runEnableFeatureFlagsCommand, CLIFails, nodeVars
  <2>3. left' \subseteq Node /\ flags' \subseteq Node
    BY <1>11 DEF ObjectType, runEnableFeatureFlagsCommand, CLIFails, nodeVars, Existing
  <2>4. QED
    BY <1>11, <2>2, <2>3 DEF ObjectType, runEnableFeatureFlagsCommand, CLIFails, Changed,
                             childVars, nodeVars
<1>12. CASE runQueueRebalanceCommand
  BY <1>12 DEF ObjectType, runQueueRebalanceCommand, CLIFails, childVars, nodeVars
<1>13. CASE deferredStatusUpdate
  BY <1>13, ConstantsAssumption DEF ObjectType, deferredStatusUpdate, childVars
<1>14. CASE panicGetChildResources \/ Crash
  <2>1. Restarted
    BY <1>14 DEF panicGetChildResources, Crash
  <2>2. QED
    BY <2>1, CachedType, ConstantsAssumption DEF ObjectType, Restarted, childVars
<1>15. CASE cacheSync \/ ChildSync \/ tick
  <2>0. CASE ChildSync
    BY <2>0, ChildSyncEffect DEF ObjectType, childVars, envVars
  <2>1. CASE cacheSync
    BY <2>1 DEF ObjectType, cacheSync, childVars, nodeVars, envVars
  <2>2. CASE tick
    <3>1. now' \in Nat \ {0}
      BY <2>2 DEF ObjectType, tick
    <3>2. QED
      BY <2>2, <3>1 DEF ObjectType, tick, childVars, nodeVars
  <2>3. QED
    BY <1>15, <2>0, <2>1, <2>2
<1>16. CASE UserEditsSpec \/ UserPauses \/ UserWritesSecret
  <2>1. CASE \E obj : UserWrites(obj)
    BY <2>1 DEF ObjectType, UserWrites, childVars, nodeVars
  <2>2. CASE UserWritesSecret
    BY <2>2 DEF ObjectType, UserWritesSecret, childVars, nodeVars
  <2>3. QED
    BY <1>16, <2>1, <2>2, Zenon DEF UserEditsSpec, UserPauses
<1>17. CASE \E i \in Node : NodeStep(i) \/ podFail(i)
  <2>1. PICK i \in Node : stsObserve(i) \/ podStop(i) \/ podStart(i) \/ podFail(i)
    BY <1>17 DEF NodeStep
  <2>2. sts' \in [Node -> StatefulSet]
    <3>1. [sts[i] EXCEPT !.seen = TRUE, !.updating = ~RunsTemplate(i)] \in StatefulSet
      BY DEF ObjectType, RunsTemplate, StatefulSet
    <3>2. CASE stsObserve(i)
      BY <3>1, <3>2 DEF ObjectType, stsObserve
    <3>3. CASE podStart(i)
      BY <3>3 DEF ObjectType, podStart, StatefulSet
    <3>4. CASE podStop(i) \/ podFail(i)
      BY <3>4 DEF ObjectType, podStop, podFail
    <3>5. QED
      BY <2>1, <3>2, <3>3, <3>4
  <2>3. CASE podStart(i)
    <3>1. pod' \in [Node -> Pod]
      BY <2>3 DEF ObjectType, podStart, Pod, StatefulSet, ServerConfigMap,
                  PluginsConfigMap
    <3>2. QED
      BY <2>2, <2>3, <3>1 DEF ObjectType, podStart, NodeEvent, Changed, childVars
  <2>4. CASE stsObserve(i) \/ podStop(i) \/ podFail(i)
    <3>a. [pod[i] EXCEPT !.up = FALSE] \in Pod
      BY DEF ObjectType, Pod
    <3>1. pod' \in [Node -> Pod]
      BY <2>4, <3>a DEF ObjectType, stsObserve, podStop, podFail
    <3>2. QED
      BY <2>2, <2>4, <3>1
         DEF ObjectType, stsObserve, podStop, podFail, NodeEvent, Changed, childVars
  <2>5. QED
    BY <2>1, <2>3, <2>4
<1>18. CASE UNCHANGED vars
  BY <1>18 DEF ObjectType, vars, childVars, nodeVars, envVars
<1>19. QED
  BY <1>1, <1>2, <1>3, <1>4, <1>5, <1>6, <1>7, <1>8, <1>9, <1>10, <1>11, <1>12,
     <1>13, <1>14, <1>15, <1>16, <1>17, <1>18
     DEF Next, OperatorStep

\* No step adds to what is left of the bounds on the environment.
LEMMA BudgetStep ==
    ASSUME TypeOK, [Next]_vars
    PROVE  /\ budget'.edits <= budget.edits /\ budget'.crashes <= budget.crashes
           /\ budget'.failures <= budget.failures /\ budget'.pods <= budget.pods
<1> SUFFICES \/ budget' = budget
             \/ budget' = [budget EXCEPT !.edits = @ - 1]
             \/ budget' = [budget EXCEPT !.crashes = @ - 1]
             \/ budget' = [budget EXCEPT !.failures = @ - 1]
             \/ budget' = [budget EXCEPT !.pods = @ - 1]
  BY DEF TypeOK, Budget
<1>1. CASE \E i \in Node : NodeStep(i) \/ podFail(i) \/ buildSts(i)
                           \/ restartStatefulSetIfNeeded(i)
                           \/ runEnableFeatureFlagsCommand(i)
  BY <1>1 DEF NodeStep, stsObserve, podStop, podStart, podFail, buildSts, Built, envVars,
              restartStatefulSetIfNeeded, WriteFails, runEnableFeatureFlagsCommand
<1>2. CASE annotatePlugins \/ annotateServer \/ annotateSts \/ runSetPluginsCommand
  BY <1>2 DEF annotatePlugins, annotateServer, annotateSts, Annotated, WriteFails,
              runSetPluginsCommand
<1>3. CASE waitResourceReady \/ buildDone \/ noRestartNeeded \/ featureFlagsDone
           \/ addFinalizer \/ reconcilePaused \/ reconcileOperatorDefaults
  BY <1>3
     DEF waitResourceReady, buildDone, noRestartNeeded, featureFlagsDone, Continue,
         addFinalizer, reconcilePaused, reconcileOperatorDefaults, Return,
         UpdateCluster, Store, Refused, WriteFails
<1>4. CASE reconcileStatusConditions \/ reconcileTLS \/ reconcileQueueRebalanced
           \/ reconcileScaleDown \/ reconcileStatus
  BY <1>4
     DEF reconcileStatusConditions, reconcileTLS, reconcileQueueRebalanced,
         reconcileScaleDown, reconcileStatus, Continue, Return, UpdateCluster,
         updateStatus, Store, Refused, WriteFails
<1>5. CASE buildBase \/ buildPlugins \/ buildServer \/ buildRbac \/ buildFails
  BY <1>5
     DEF buildBase, buildPlugins, buildServer, buildRbac, buildFails, Built, envVars,
         WriteFails
<1>6. CASE reconcileRabbitmqCLI \/ removePluginsConfigUpdatedFlag
           \/ runQueueRebalanceCommand \/ reconcileSuccess \/ deferredStatusUpdate
  BY <1>6
     DEF reconcileRabbitmqCLI, removePluginsConfigUpdatedFlag, Continue, WriteFails,
         runQueueRebalanceCommand, reconcileSuccess, deferredStatusUpdate, Store, Refused
<1>7. CASE getRabbitmqCluster \/ panicGetChildResources \/ Crash \/ cacheSync \/ ChildSync
           \/ UserEditsSpec \/ UserPauses \/ UserWritesSecret \/ tick
  <2>1. CASE ChildSync
    BY <2>1, ChildSyncEffect, TypeParts DEF envVars
  <2>2. CASE UserEditsSpec \/ UserPauses
    <3>1. PICK obj : UserWrites(obj)
      BY <2>2, Zenon DEF UserEditsSpec, UserPauses
    <3>2. QED
      BY <3>1 DEF UserWrites
  <2>3. CASE getRabbitmqCluster \/ panicGetChildResources \/ Crash \/ cacheSync
             \/ UserWritesSecret \/ tick
    BY <2>3 DEF getRabbitmqCluster, panicGetChildResources, Crash, cacheSync,
                UserWritesSecret, tick, envVars
  <2>4. QED
    BY <1>7, <2>1, <2>2, <2>3
<1>8. CASE UNCHANGED vars
  BY <1>8 DEF vars, envVars
<1>9. QED
  BY <1>1, <1>2, <1>3, <1>4, <1>5, <1>6, <1>7, <1>8 DEF Next, OperatorStep

\* Every variable of the reconciler keeps its type.
THEOREM TypeCorrect == Spec => []TypeOK
<1>1. TypeOK /\ [Next]_vars => TypeOK'
  BY ControlTypeStep, ObjectTypeStep, TypeParts DEF TypeOK, ControlType, ObjectType
<1>2. QED
  BY <1>1, InitType, PTL DEF Spec

-----------------------------------------------------------------------------
(***************************************************************************)
(* What a step may do to the three copies of the cluster.                  *)
(***************************************************************************)
\* A status computed by the running reconcile.
StatusStep(st) ==
    /\ st \in ClusterStatus
    /\ \/ st.replicas = mem.st.replicas
       \/ /\ pc = "status"
          /\ st.replicas = mem.spec.replicas /\ st.replicas > mem.st.replicas
    /\ \/ st.obsGen = mem.st.obsGen /\ (st.success = "Success" => mem.st.success = "Success")
       \/ pc = "cliRebalance" /\ st.obsGen = mem.gen

\* A spec completed by the operator.
Defaulted(spec) ==
    /\ spec = [mem.spec EXCEPT !.image = DefaultImage]
    /\ ControlRabbitmqImage \/ mem.spec.image = Unset

SameCopies == UNCHANGED <<rmq, cache, cacheFresh, mem, memFresh>>

StatusInMem ==
    /\ UNCHANGED <<rmq, cache, cacheFresh, memFresh>>
    /\ \E st : StatusStep(st) /\ mem' = [mem EXCEPT !.st = st]

Stored ==
    /\ memFresh /\ memFresh'
    /\ UNCHANGED cache
    /\ mem' = rmq'
    /\ cacheFresh' => cacheFresh /\ rmq' = rmq
    /\ rmq'.st = rmq.st \/ StatusStep(rmq'.st)
    /\ \/ rmq'.gen = mem.gen /\ rmq'.spec = mem.spec
       \/ rmq'.gen = mem.gen + 1 /\ pc' = "return" /\ Defaulted(rmq'.spec)

ReadFromCache ==
    /\ pc = "idle" /\ pc' = "delete"
    /\ mem' = cache /\ memFresh' = cacheFresh
    /\ UNCHANGED <<rmq, cache, cacheFresh>>

EndReconcile ==
    /\ pc # "idle" /\ pc' = "idle"
    /\ mem' = Blank /\ memFresh' = FALSE
    /\ \/ UNCHANGED <<rmq, cache, cacheFresh>>
       \/ UNCHANGED rmq /\ cache' = rmq
       \/ /\ memFresh
          /\ rmq' = [rmq EXCEPT !.st = mem.st]
          /\ UNCHANGED cache
          /\ cacheFresh' => cacheFresh /\ rmq.st = mem.st

SyncCache ==
    /\ cache' = rmq
    /\ UNCHANGED <<rmq, mem, memFresh, pc>>

UserWrote ==
    /\ UserEditsSpec \/ UserPauses
    /\ cacheFresh' = FALSE /\ memFresh' = FALSE
    /\ UNCHANGED <<cache, mem, pc>>
    /\ rmq'.st = rmq.st
    /\ budget'.edits # budget.edits
    /\ \/ rmq'.gen = rmq.gen /\ rmq'.spec = rmq.spec
       \/ rmq'.gen = rmq.gen + 1

InReconcile ==
    /\ pc' = "idle" <=> pc = "idle"
    /\ pc = "return" => pc' = "return"

CopiesStep ==
    \/ (SameCopies \/ StatusInMem \/ Stored) /\ InReconcile
    \/ ReadFromCache \/ EndReconcile \/ SyncCache \/ UserWrote

\* The writes of the cluster: what they store, or what refusing them leaves.
LEMMA UpdateClusterEffect ==
    ASSUME TypeOK, pc \notin {"idle", "return"},
           NEW obj \in Cluster, NEW next \in Steps \ {"idle"},
           UpdateCluster(obj, next),
           \/ obj.gen = mem.gen /\ obj.spec = mem.spec
           \/ obj.gen = mem.gen + 1 /\ next = "return" /\ Defaulted(obj.spec)
    PROVE  CopiesStep
<1>1. rmq.st \in ClusterStatus
  BY DEF TypeOK, Cluster
<1>2. CASE Store([obj EXCEPT !.st = rmq.st]) /\ pc' = next
  <2> DEFINE o == [obj EXCEPT !.st = rmq.st]
  <2>1. o.st = rmq.st /\ o.gen = obj.gen /\ o.spec = obj.spec
    BY DEF Cluster
  <2>2. Stored
    BY <1>2, <2>1 DEF Store, Stored
  <2>3. QED
    BY <1>2, <2>2 DEF CopiesStep, InReconcile
<1>3. CASE Refused /\ pc' = "return" /\ UNCHANGED memVars
  BY <1>3 DEF Refused, CopiesStep, SameCopies, InReconcile, rmqVars, memVars
<1>4. QED
  BY <1>2, <1>3 DEF UpdateCluster

\* What a write of the status does to the copies of the cluster.
LEMMA updateStatusEffect ==
    ASSUME TypeOK, pc \notin {"idle", "return"}, FreshInv,
           NEW st, StatusStep(st), updateStatus(st)
    PROVE  CopiesStep
<1>1. [mem EXCEPT !.st = st].st = st /\ [mem EXCEPT !.st = st].gen = mem.gen
      /\ [mem EXCEPT !.st = st].spec = mem.spec
  BY DEF TypeOK, Cluster
<1>2. CASE Store([mem EXCEPT !.st = st])
  <2>1. Stored
    BY <1>1, <1>2 DEF Store, Stored
  <2>2. QED
    BY <2>1 DEF updateStatus, CopiesStep, InReconcile
<1>3. CASE Refused /\ mem' = [mem EXCEPT !.st = st] /\ UNCHANGED <<memFresh, before>>
  BY <1>3 DEF Refused, updateStatus, CopiesStep, StatusInMem, InReconcile, rmqVars
<1>4. QED
  BY <1>2, <1>3 DEF updateStatus

\* Going on to the next step touches no copy of the cluster.
LEMMA ContinueEffect ==
    ASSUME pc \notin {"idle", "return"}, NEW next \in Steps \ {"idle"}, Continue(next)
    PROVE  CopiesStep
BY DEF Continue, CopiesStep, SameCopies, InReconcile, rmqVars, memVars

\* An early return changes only the status held in memory.
LEMMA ReturnEffect ==
    ASSUME pc \notin {"idle", "return"}, NEW st, StatusStep(st), Return(st)
    PROVE  CopiesStep
BY DEF Return, CopiesStep, StatusInMem, InReconcile, rmqVars

\* A reason other than Success is a status of the running reconcile.
LEMMA FailureStatus ==
    ASSUME TypeOK, NEW reason \in SuccessReason \ {"Success"}
    PROVE  StatusStep(SetCondition(mem.st, reason))
<1>1. mem.st \in ClusterStatus
  BY DEF TypeOK, Cluster
<1>2. QED
  BY <1>1, SetConditionType DEF StatusStep, SetCondition, ClusterStatus

\* A failed command changes only the status held in memory, to no success.
LEMMA CLIFailsEffect ==
    ASSUME TypeOK, pc \notin {"idle", "return"}, CLIFails PROVE CopiesStep
BY FailureStatus
   DEF CLIFails, CopiesStep, StatusInMem, InReconcile, rmqVars, SuccessReason

\* Every step does one of these things to the copies.
LEMMA CopiesEffect == TypeOK /\ FreshInv /\ [Next]_vars => CopiesStep
<1> SUFFICES ASSUME TypeOK, FreshInv, [Next]_vars PROVE CopiesStep
  OBVIOUS
<1>a. mem \in Cluster /\ rmq \in Cluster /\ now \in Time
  BY DEF TypeOK, Time
<1>b. mem.st \in ClusterStatus /\ mem.spec \in ClusterSpec
  BY <1>a DEF Cluster
<1>1. CASE getRabbitmqCluster
  BY <1>1 DEF getRabbitmqCluster, CopiesStep, ReadFromCache, rmqVars
<1>2. CASE addFinalizer
  <2>1. /\ [mem EXCEPT !.finalizer = TRUE] \in Cluster
        /\ [mem EXCEPT !.finalizer = TRUE].gen = mem.gen
        /\ [mem EXCEPT !.finalizer = TRUE].spec = mem.spec
    BY <1>a DEF Cluster
  <2>2. QED
    BY <1>2, <2>1, UpdateClusterEffect, ContinueEffect DEF addFinalizer, Steps
<1>3. CASE reconcilePaused
  <2>1. StatusStep([mem.st EXCEPT !.paused = @ \/ mem.st.success # "None"])
    BY <1>b DEF StatusStep, ClusterStatus
  <2>2. QED
    BY <1>3, <2>1, ReturnEffect, ContinueEffect DEF reconcilePaused, Steps
<1>4. CASE reconcileOperatorDefaults
  <2> DEFINE spec == [mem.spec EXCEPT !.image = DefaultImage]
             gen == IF spec = mem.spec THEN mem.gen ELSE mem.gen + 1
             obj == [mem EXCEPT !.spec = spec, !.gen = gen]
  <2>1. spec \in ClusterSpec /\ gen \in Nat
    BY <1>a, <1>b, ConstantsAssumption DEF Cluster, ClusterSpec
  <2>2. obj \in Cluster /\ obj.gen = gen /\ obj.spec = spec
    BY <1>a, <2>1 DEF Cluster
  <2>3. (gen = mem.gen /\ spec = mem.spec) \/ gen = mem.gen + 1
    OBVIOUS
  <2> HIDE DEF spec, gen, obj
  <2>4. pc = "defaults" /\ (Continue("conditions")
           \/ (UpdateCluster(obj, "return") /\ Defaulted(spec)))
    BY <1>4 DEF reconcileOperatorDefaults, Defaulted, spec, gen, obj
  <2>5. QED
    BY <2>2, <2>3, <2>4, UpdateClusterEffect, ContinueEffect DEF Steps
<1>5. CASE reconcileStatusConditions
  <2>1. PICK ready \in AllReplicasReadyCondition :
          LET st == SetConditions(mem.st, ready) IN
          IF st = mem.st THEN Continue("tls") ELSE updateStatus(st)
    BY <1>5 DEF reconcileStatusConditions
  <2>2. ready \in {"Unknown", "True", "False"}
    BY DEF AllReplicasReadyCondition
  <2>3. StatusStep(SetConditions(mem.st, ready))
    <3>1. ClusterAvailableCondition \in {"False", "Unknown"}
      BY DEF ClusterAvailableCondition
    <3>2. QED
      BY <1>b, <2>2, <3>1 DEF StatusStep, SetConditions, ClusterStatus, SuccessReason
  <2>4. QED
    BY <1>5, <2>1, <2>3, updateStatusEffect, ContinueEffect
       DEF reconcileStatusConditions, Steps
<1>6. CASE reconcileTLS
  BY <1>6, FailureStatus, ReturnEffect, ContinueEffect DEF reconcileTLS, Steps, SuccessReason
<1>7. CASE reconcileQueueRebalanced
  <2>1. /\ [mem EXCEPT !.rebal = now] \in Cluster
        /\ [mem EXCEPT !.rebal = now].gen = mem.gen
        /\ [mem EXCEPT !.rebal = now].spec = mem.spec
    BY <1>a DEF Cluster
  <2>2. QED
    BY <1>7, <2>1, UpdateClusterEffect, ContinueEffect DEF reconcileQueueRebalanced, Steps
<1>8. CASE reconcileScaleDown
  BY <1>8, FailureStatus, ReturnEffect, ContinueEffect
     DEF reconcileScaleDown, Steps, SuccessReason
<1>9. CASE waitResourceReady \/ buildDone \/ noRestartNeeded \/ featureFlagsDone
           \/ reconcileRabbitmqCLI
  BY <1>9, ContinueEffect
     DEF waitResourceReady, buildDone, noRestartNeeded, featureFlagsDone,
         reconcileRabbitmqCLI, Steps
<1>10. CASE buildBase \/ buildRbac \/ buildPlugins \/ buildServer
            \/ \E i \in Node : buildSts(i)
  <2>1. pc = "build" /\ \E next \in {"return", "annotatePlugins", "annotateServer",
                                     "annotateSts"} :
                                    \E copyCurrent : Built(copyCurrent, next)
    BY <1>10 DEF buildBase, buildRbac, buildPlugins, buildServer, buildSts
  <2>2. QED
    BY <2>1 DEF Built, CopiesStep, SameCopies, InReconcile, rmqVars, memVars
<1>11. CASE buildFails
  BY <1>11, FailureStatus
     DEF buildFails, CopiesStep, StatusInMem, InReconcile, rmqVars, SuccessReason
<1>12. CASE annotatePlugins \/ annotateServer \/ annotateSts
            \/ \E i \in Node : restartStatefulSetIfNeeded(i)
  <2>1. /\ pc \notin {"idle", "return"} /\ pc' = "return"
        /\ UNCHANGED <<rmqVars, memVars>>
    BY <1>12, Zenon
       DEF annotatePlugins, annotateServer, annotateSts, Annotated,
           restartStatefulSetIfNeeded
  <2>2. QED
    BY <2>1 DEF CopiesStep, SameCopies, InReconcile, rmqVars, memVars
<1>13. CASE reconcileStatus
  <2> DEFINE n == IF mem.spec.replicas > mem.st.replicas
                  THEN mem.spec.replicas ELSE mem.st.replicas
             st == [mem.st EXCEPT !.replicas = n, !.user = TRUE]
  <2>1. n \in 0..MaxReplicas
    BY <1>b, ConstantsAssumption DEF ClusterSpec, ClusterStatus
  <2>2. st \in ClusterStatus /\ st.replicas = n /\ st.obsGen = mem.st.obsGen
        /\ st.success = mem.st.success
    BY <1>b, <2>1 DEF ClusterStatus
  <2>3. StatusStep(st)
    BY <1>13, <2>2 DEF StatusStep, reconcileStatus
  <2>4. QED
    BY <1>13, <2>3, updateStatusEffect, ContinueEffect DEF reconcileStatus, Steps
<1>14. CASE runSetPluginsCommand
  BY <1>14, CLIFailsEffect
     DEF runSetPluginsCommand, CopiesStep, SameCopies, InReconcile, rmqVars, memVars
<1>15. CASE removePluginsConfigUpdatedFlag
  BY <1>15, CLIFailsEffect
     DEF removePluginsConfigUpdatedFlag, CopiesStep, SameCopies, InReconcile,
         rmqVars, memVars
<1>16. CASE \E i \in Node : runEnableFeatureFlagsCommand(i)
  BY <1>16, CLIFailsEffect
     DEF runEnableFeatureFlagsCommand, CopiesStep, SameCopies, InReconcile,
         rmqVars, memVars
<1>17. CASE runQueueRebalanceCommand
  <2> DEFINE obj == [mem EXCEPT !.rebal = 0, !.st = rmq.st]
  <2>1. obj.gen = mem.gen /\ obj.spec = mem.spec /\ obj.st = rmq.st
    BY <1>a DEF Cluster
  <2>2. pc = "cliRebalance" /\ (CLIFails \/ (Store(obj) /\ pc' = "cliRebalance"))
    BY <1>17 DEF runQueueRebalanceCommand
  <2> HIDE DEF obj
  <2>3. CASE Store(obj) /\ pc' = "cliRebalance"
    <3>a. /\ memFresh /\ memFresh' = memFresh /\ rmq' = obj /\ mem' = obj
          /\ cache' = cache /\ cacheFresh' = (cacheFresh /\ obj = rmq)
      BY <2>3 DEF Store
    <3>b. /\ rmq'.st = rmq.st /\ rmq'.gen = mem.gen /\ rmq'.spec = mem.spec
          /\ cacheFresh' => cacheFresh /\ rmq' = rmq
      BY <2>1, <3>a
    <3>1. Stored
      BY <3>a, <3>b DEF Stored
    <3>2. QED
      BY <2>2, <2>3, <3>1 DEF CopiesStep, InReconcile
  <2>4. QED
    BY <2>2, <2>3, CLIFailsEffect
<1>18. CASE reconcileSuccess
  <2> DEFINE st == [SetCondition(mem.st, "Success") EXCEPT !.obsGen = mem.gen]
  <2>1. SetCondition(mem.st, "Success") \in ClusterStatus
    BY <1>b, SetConditionType DEF SuccessReason
  <2>2. st \in ClusterStatus /\ st.obsGen = mem.gen /\ st.replicas = mem.st.replicas
    BY <1>a, <1>b, <2>1 DEF Cluster, ClusterStatus, SetCondition
  <2>3. StatusStep(st)
    BY <1>18, <2>2 DEF StatusStep, reconcileSuccess
  <2>4. QED
    BY <1>18, <2>3
       DEF reconcileSuccess, CopiesStep, StatusInMem, InReconcile, rmqVars
<1>19. CASE deferredStatusUpdate
  BY <1>19 DEF deferredStatusUpdate, Refused, CopiesStep, EndReconcile, rmqVars
<1>20. CASE panicGetChildResources \/ Crash
  BY <1>20 DEF panicGetChildResources, Crash, Restarted, CopiesStep, EndReconcile
<1>21. CASE cacheSync
  BY <1>21 DEF cacheSync, CopiesStep, SyncCache, memVars
<1>a21. CASE ChildSync
  BY <1>a21, ChildSyncEffect, TypeParts
     DEF CopiesStep, SameCopies, InReconcile, rmqVars, memVars
<1>22. CASE UserEditsSpec
  <2>1. PICK spec : UserWrites([rmq EXCEPT !.spec = spec, !.gen = @ + 1])
    BY <1>22, Zenon DEF UserEditsSpec
  <2>2. rmq'.st = rmq.st /\ rmq'.gen = rmq.gen + 1
    BY <1>a, <2>1 DEF UserWrites, Cluster
  <2>3. budget'.edits # budget.edits
    BY <2>1 DEF UserWrites, TypeOK, Budget
  <2>4. QED
    BY <1>22, <2>1, <2>2, <2>3 DEF UserWrites, CopiesStep, UserWrote
<1>23. CASE UserPauses
  <2>1. rmq'.st = rmq.st /\ rmq'.gen = rmq.gen /\ rmq'.spec = rmq.spec
    BY <1>23, <1>a DEF UserPauses, UserWrites, Cluster
  <2>2. budget'.edits # budget.edits
    BY <1>23 DEF UserPauses, UserWrites, TypeOK, Budget
  <2>3. QED
    BY <1>23, <2>1, <2>2 DEF UserPauses, UserWrites, CopiesStep, UserWrote
<1>24. CASE UserWritesSecret \/ tick \/ \E i \in Node : NodeStep(i) \/ podFail(i)
  BY <1>24
     DEF UserWritesSecret, tick, NodeStep, stsObserve, podStop, podStart, podFail,
         NodeEvent, CopiesStep, SameCopies, InReconcile, rmqVars, memVars
<1>25. CASE UNCHANGED vars
  BY <1>25 DEF vars, CopiesStep, SameCopies, InReconcile, rmqVars, memVars
<1>26. QED
  BY <1>1, <1>2, <1>3, <1>4, <1>5, <1>6, <1>7, <1>8, <1>9, <1>10, <1>11, <1>12,
     <1>13, <1>14, <1>15, <1>16, <1>17, <1>18, <1>19, <1>20, <1>21, <1>22, <1>23,
     <1>24, <1>25, <1>a21
     DEF Next, OperatorStep

-----------------------------------------------------------------------------
(***************************************************************************)
(* The copies stay fresh and their generations ordered.                    *)
(***************************************************************************)
LEMMA FreshStep ==
    TypeOK /\ TypeOK' /\ FreshInv /\ CopiesStep => FreshInv'
<1> SUFFICES ASSUME TypeOK, TypeOK', FreshInv, CopiesStep PROVE FreshInv'
  OBVIOUS
<1>a. /\ mem.st.replicas \in Nat /\ rmq.st.replicas \in Nat
      /\ mem'.st.replicas \in Nat /\ rmq'.st.replicas \in Nat
  BY ConstantsAssumption DEF TypeOK, Cluster, ClusterStatus
<1>1. CASE SameCopies
  BY <1>1 DEF SameCopies, FreshInv
<1>2. CASE StatusInMem
  <2>1. PICK st : StatusStep(st) /\ mem' = [mem EXCEPT !.st = st]
    BY <1>2 DEF StatusInMem
  <2>2. /\ mem'.gen = mem.gen /\ mem'.spec = mem.spec /\ mem'.paused = mem.paused
        /\ mem'.finalizer = mem.finalizer /\ mem'.rebal = mem.rebal /\ mem'.st = st
    BY <2>1 DEF TypeOK, Cluster
  <2>3. st.replicas >= mem.st.replicas
    BY <1>a, <2>1, <2>2 DEF StatusStep
  <2>4. QED
    BY <1>2, <1>a, <2>2, <2>3 DEF StatusInMem, FreshInv
<1>3. CASE Stored
  BY <1>3, <1>a DEF Stored, FreshInv
<1>4. CASE ReadFromCache
  BY <1>4, <1>a DEF ReadFromCache, FreshInv
<1>5. CASE EndReconcile
  <2>1. CASE UNCHANGED <<rmq, cache, cacheFresh>>
    BY <1>5, <2>1 DEF EndReconcile, FreshInv
  <2>2. CASE UNCHANGED rmq /\ cache' = rmq
    BY <1>5, <2>2 DEF EndReconcile, FreshInv
  <2>3. CASE rmq' = [rmq EXCEPT !.st = mem.st] /\ UNCHANGED cache
             /\ (cacheFresh' => cacheFresh /\ rmq.st = mem.st)
    <3>1. rmq.st = mem.st => rmq' = rmq
      BY <2>3 DEF TypeOK, Cluster
    <3>2. QED
      BY <1>5, <2>3, <3>1 DEF EndReconcile, FreshInv
  <2>4. QED
    BY <1>5, <2>1, <2>2, <2>3 DEF EndReconcile
<1>6. CASE SyncCache
  BY <1>6 DEF SyncCache, FreshInv
<1>7. CASE UserWrote
  BY <1>7 DEF UserWrote, FreshInv
<1>8. QED
  BY <1>1, <1>2, <1>3, <1>4, <1>5, <1>6, <1>7 DEF CopiesStep

\* Every step keeps the generations of the copies in order.
LEMMA GenStep ==
    TypeOK /\ TypeOK' /\ FreshInv /\ GenInv /\ CopiesStep => GenInv'
<1> SUFFICES ASSUME TypeOK, TypeOK', FreshInv, GenInv, CopiesStep PROVE GenInv'
  OBVIOUS
<1>a. /\ mem.gen \in Nat /\ rmq.gen \in Nat /\ cache.gen \in Nat
      /\ mem.st.obsGen \in Nat /\ rmq.st.obsGen \in Nat /\ cache.st.obsGen \in Nat
  BY DEF TypeOK, Cluster, ClusterStatus
<1>b. /\ mem'.gen \in Nat /\ rmq'.gen \in Nat /\ cache'.gen \in Nat
      /\ mem'.st.obsGen \in Nat /\ rmq'.st.obsGen \in Nat /\ cache'.st.obsGen \in Nat
  BY DEF TypeOK, Cluster, ClusterStatus
<1>1. CASE SameCopies /\ InReconcile
  BY <1>1 DEF SameCopies, InReconcile, GenInv
<1>2. CASE StatusInMem /\ InReconcile
  <2>1. PICK st : StatusStep(st) /\ mem' = [mem EXCEPT !.st = st]
    BY <1>2 DEF StatusInMem
  <2>2. mem'.gen = mem.gen /\ mem'.spec = mem.spec /\ mem'.st = st
    BY <2>1 DEF TypeOK, Cluster
  <2>3. st.obsGen = mem.st.obsGen \/ (pc = "cliRebalance" /\ st.obsGen = mem.gen)
    BY <2>1 DEF StatusStep
  <2>4. st.obsGen <= cache.gen /\ (pc # "idle" => st.obsGen <= mem.gen)
    BY <1>a, <2>3 DEF GenInv
  <2>5. QED
    BY <1>2, <1>a, <2>2, <2>4 DEF StatusInMem, InReconcile, GenInv
<1>3. CASE Stored /\ InReconcile
  <2>1. mem.gen = rmq.gen /\ mem.spec = rmq.spec
    BY <1>3 DEF Stored, FreshInv
  <2>2. rmq'.st.obsGen = rmq.st.obsGen \/ rmq'.st.obsGen = mem.st.obsGen
        \/ (pc = "cliRebalance" /\ rmq'.st.obsGen = mem.gen)
    BY <1>3 DEF Stored, StatusStep
  <2>3. rmq'.st.obsGen <= cache.gen /\ (pc # "idle" => rmq'.st.obsGen <= mem.gen)
    BY <1>a, <2>2 DEF GenInv
  <2>4. rmq'.gen >= rmq.gen /\ rmq'.gen >= mem.gen
    BY <1>3, <1>a, <2>1 DEF Stored
  <2>5. cache.gen = rmq'.gen => cache.spec = rmq'.spec
    BY <1>3, <1>a, <2>1 DEF Stored, GenInv
  <2>6. pc' \notin {"idle", "return"} => mem'.gen <= cache.gen
    BY <1>3, <1>a DEF Stored, InReconcile, GenInv
  <2>7. QED
    BY <1>3, <1>a, <1>b, <2>3, <2>4, <2>5, <2>6 DEF Stored, InReconcile, GenInv
<1>4. CASE ReadFromCache
  BY <1>4, <1>a DEF ReadFromCache, GenInv
<1>5. CASE EndReconcile
  <2>1. Blank.gen = 1 /\ Blank.st.obsGen = 0
    BY DEF Blank, NewCluster, NewStatus
  <2>2. rmq'.gen = rmq.gen /\ rmq'.spec = rmq.spec
        /\ rmq'.st \in {rmq.st, mem.st} /\ cache' \in {cache, rmq}
    BY <1>5 DEF EndReconcile, TypeOK, Cluster
  <2>3. rmq.gen >= 1
    BY <1>5, <1>a DEF EndReconcile, GenInv
  <2>4. QED
    BY <1>5, <1>a, <2>1, <2>2, <2>3 DEF EndReconcile, GenInv
<1>6. CASE SyncCache
  BY <1>6, <1>a DEF SyncCache, GenInv
<1>7. CASE UserWrote
  BY <1>7, <1>a DEF UserWrote, GenInv
<1>8. QED
  BY <1>1, <1>2, <1>3, <1>4, <1>5, <1>6, <1>7 DEF CopiesStep

-----------------------------------------------------------------------------
(***************************************************************************)
(* What a step may do to the children: nothing is taken away, and only the *)
(* builders change what is applied, to what the reconciled spec asks for.  *)
(***************************************************************************)
StsKept == \A i \in Node : sts[i].ex => sts'[i].ex

AppliedKept ==
    \A spec \in ClusterSpec :
        Applied(spec) /\ (pc = "build" => spec = mem.spec) => Applied(spec)'

\* The fields Applied reads are unchanged.
SameApplied ==
    /\ base'.ex = base.ex /\ rbac'.ex = rbac.ex
    /\ plugins'.ex = plugins.ex /\ plugins'.val = plugins.val
    /\ server'.ex = server.ex /\ server'.conf = server.conf /\ server'.hint = server.hint
    /\ \A i \in Node : sts'[i].ex = sts[i].ex /\ sts'[i].template = sts[i].template

\* A step that leaves the desired fields of the children alone keeps both.
LEMMA SameAppliedKept == SameApplied => StsKept /\ AppliedKept
BY DEF SameApplied, StsKept, AppliedKept, Applied

\* When the builders have nothing left to do, the copies they read carry the
\* reconciled spec.
LEMMA DoneMeansCached ==
    ASSUME TypeOK, StsDone(mem.spec.replicas)
    PROVE  /\ cached.base.ex /\ cached.rbac.ex
           /\ cached.plugins.ex /\ cached.plugins.val = mem.spec.plugins
           /\ cached.server.ex /\ cached.server.conf = serverConf(mem.spec)
           /\ cached.server.hint = mem.spec.replicas
           /\ \A i \in Node : i < mem.spec.replicas =>
                 cached.sts[i].ex /\ cached.sts[i].template = podTemplate(mem.spec)
<1>a. cached \in View
  BY CachedType, TypeParts
<1>1. cached.base.ex /\ cached.rbac.ex
  BY DEF StsDone, RbacDone, ServerDone, PluginsDone, BaseDone, wantBase, wantRbac
<1>2. cached.plugins.ex /\ cached.plugins.val = mem.spec.plugins
  <2>1. cached.plugins = wantPlugins /\ cached.plugins \in PluginsConfigMap
    BY <1>a DEF StsDone, RbacDone, ServerDone, PluginsDone, View
  <2>2. QED
    BY <2>1 DEF wantPlugins, PluginsConfigMap
<1>3. cached.server.ex /\ cached.server.conf = serverConf(mem.spec)
      /\ cached.server.hint = mem.spec.replicas
  <2>1. cached.server = wantServer /\ cached.server \in ServerConfigMap
    BY <1>a DEF StsDone, RbacDone, ServerDone, View
  <2>2. QED
    BY <2>1 DEF wantServer, ServerConfigMap
<1>4. ASSUME NEW i \in Node, i < mem.spec.replicas
      PROVE  cached.sts[i].ex /\ cached.sts[i].template = podTemplate(mem.spec)
  <2>1. cached.sts[i] = wantSts(i) /\ cached.sts[i] \in StatefulSet
    BY <1>a, <1>4 DEF StsDone, View
  <2>2. QED
    BY <2>1 DEF wantSts, StatefulSet
<1>5. QED
  BY <1>1, <1>2, <1>3, <1>4

\* If these copies are current, the children carry it.
LEMMA DoneMeansApplied ==
    ASSUME TypeOK, StsDone(mem.spec.replicas), ~ChildLag \/ view = current
    PROVE  Applied(mem.spec)
<1>1. cached = current
  BY DEF cached
<1>2. /\ current.base = base /\ current.rbac = rbac /\ current.plugins = plugins
      /\ current.server = server /\ current.sts = sts
  BY DEF current
<1>3. QED
  BY <1>1, <1>2, DoneMeansCached DEF Applied

\* What the builders write carries the reconciled spec, whatever the copy was.
LEMMA WantedFields ==
    ASSUME TypeOK
    PROVE  /\ wantBase.ex /\ wantRbac.ex
           /\ wantPlugins.ex /\ wantPlugins.val = mem.spec.plugins
           /\ wantServer.ex /\ wantServer.conf = serverConf(mem.spec)
           /\ wantServer.hint = mem.spec.replicas
           /\ \A i \in Node : /\ wantSts(i).ex
                              /\ wantSts(i).template = podTemplate(mem.spec)
                              /\ wantSts(i).restartAt = cached.sts[i].restartAt
                              /\ wantSts(i).created = cached.sts[i].created
<1>a. /\ cached.plugins \in PluginsConfigMap /\ cached.server \in ServerConfigMap
      /\ \A i \in Node : cached.sts[i] \in StatefulSet
  BY CachedType, TypeParts DEF View
<1>1. wantBase.ex /\ wantRbac.ex
  BY DEF wantBase, wantRbac
<1>2. wantPlugins.ex /\ wantPlugins.val = mem.spec.plugins
  BY <1>a DEF wantPlugins, PluginsConfigMap
<1>3. /\ wantServer.ex /\ wantServer.conf = serverConf(mem.spec)
      /\ wantServer.hint = mem.spec.replicas
  BY <1>a DEF wantServer, ServerConfigMap
<1>4. ASSUME NEW i \in Node
      PROVE  /\ wantSts(i).ex /\ wantSts(i).template = podTemplate(mem.spec)
             /\ wantSts(i).restartAt = cached.sts[i].restartAt
             /\ wantSts(i).created = cached.sts[i].created
  BY <1>a DEF wantSts, StatefulSet
<1>5. QED
  BY <1>1, <1>2, <1>3, <1>4

\* No step deletes a StatefulSet, and none but a builder changes what the
\* children were written from.
LEMMA ChildEffect == TypeOK /\ [Next]_vars => StsKept /\ AppliedKept
<1> SUFFICES ASSUME TypeOK, [Next]_vars PROVE StsKept /\ AppliedKept
  OBVIOUS
<1>a. /\ plugins \in PluginsConfigMap /\ server \in ServerConfigMap
      /\ \A i \in Node : sts[i] \in StatefulSet
      /\ DOMAIN sts = Node
  BY DEF TypeOK
<1>1. CASE UNCHANGED <<base, plugins, server, rbac, sts>>
  BY <1>1, SameAppliedKept DEF SameApplied
<1>2. CASE buildBase \/ buildRbac \/ buildPlugins \/ buildServer
  <2>1. /\ pc = "build" /\ UNCHANGED sts
        /\ base' \in {base, wantBase} /\ rbac' \in {rbac, wantRbac}
        /\ plugins' \in {plugins, wantPlugins} /\ server' \in {server, wantServer}
    BY <1>2 DEF buildBase, buildRbac, buildPlugins, buildServer
  <2>2. QED
    BY <2>1, WantedFields DEF StsKept, AppliedKept, Applied
<1>5. CASE \E i \in Node : buildSts(i)
  <2>1. PICK i \in Node : buildSts(i)
    BY <1>5
  <2>2. wantSts(i).ex /\ wantSts(i).template = podTemplate(mem.spec)
    BY WantedFields
  <2>3. sts'[i].ex /\ sts'[i].template = podTemplate(mem.spec)
    BY <1>a, <2>1, <2>2, WantedType, TemplatedType DEF buildSts
  <2>4. \A j \in Node : j # i => sts'[j] = sts[j]
    BY <1>a, <2>1 DEF buildSts
  <2>5. pc = "build" /\ UNCHANGED <<base, plugins, server, rbac>>
    BY <2>1 DEF buildSts, childVars
  <2>6. QED
    BY <2>3, <2>4, <2>5 DEF StsKept, AppliedKept, Applied
<1>6. CASE annotatePlugins \/ annotateServer \/ removePluginsConfigUpdatedFlag
  <2>1. /\ plugins'.ex = plugins.ex /\ plugins'.val = plugins.val
        /\ server'.ex = server.ex /\ server'.conf = server.conf
        /\ server'.hint = server.hint /\ UNCHANGED <<base, rbac, sts>>
    BY <1>6, <1>a
       DEF annotatePlugins, annotateServer, removePluginsConfigUpdatedFlag, Annotated,
           CLIFails, childVars, nodeVars, PluginsConfigMap, ServerConfigMap
  <2>2. QED
    BY <2>1, SameAppliedKept DEF SameApplied
<1>7. CASE annotateSts \/ \E i \in Node : stsObserve(i) \/ podStart(i)
  <2>a. \A s \in StatefulSet, b \in BOOLEAN :
          /\ [s EXCEPT !.created = b].ex = s.ex /\ [s EXCEPT !.created = b].template = s.template
          /\ [s EXCEPT !.updating = b].ex = s.ex /\ [s EXCEPT !.updating = b].template = s.template
    BY DEF StatefulSet
  <2> DEFINE Kept == \A i \in Node : sts'[i].ex = sts[i].ex /\ sts'[i].template = sts[i].template
  <2>b. ASSUME annotateSts PROVE Kept
    <3>1. sts' = sts \/ sts' = [sts EXCEPT ![idx] = [sts[idx] EXCEPT !.created = TRUE]]
      BY <2>b DEF annotateSts, Annotated
    <3>2. \A j \in Node : sts'[j] = sts[j] \/ sts'[j] = [sts[j] EXCEPT !.created = TRUE]
      BY <3>1, <1>a
    <3>3. QED
      BY <3>2, <2>a, <1>a
  <2>c. ASSUME NEW i \in Node, stsObserve(i) PROVE Kept
    <3>1. LET new == [sts[i] EXCEPT !.seen = TRUE, !.updating = ~RunsTemplate(i)]
          IN  new.ex = sts[i].ex /\ new.template = sts[i].template
      BY <1>a DEF StatefulSet
    <3>2. QED
      BY <2>c, <3>1, <1>a DEF stsObserve
  <2>d. ASSUME NEW i \in Node, podStart(i) PROVE Kept
    BY <2>a, <2>d, <1>a DEF podStart
  <2>1. Kept
    BY <1>7, <2>b, <2>c, <2>d
  <2>2. UNCHANGED <<base, plugins, server, rbac>>
    BY <1>7 DEF annotateSts, Annotated, stsObserve, podStart, NodeEvent, childVars
  <2>3. QED
    BY <2>1, <2>2, SameAppliedKept DEF SameApplied
<1>8. CASE \E i \in Node : restartStatefulSetIfNeeded(i)
  <2>1. PICK i \in Node : restartStatefulSetIfNeeded(i)
    BY <1>8
  <2> DEFINE new == [sts[i] EXCEPT !.restartAt = now]
  <2>2. new \in StatefulSet /\ new.ex = sts[i].ex /\ new.template = sts[i].template
    BY <1>a DEF TypeOK, StatefulSet, Time
  <2>a. Templated(sts[i], new).ex = sts[i].ex /\ Templated(sts[i], new).template = sts[i].template
    BY <1>a, <2>2, TemplatedType
  <2>b. sts' = sts \/ sts' = [sts EXCEPT ![i] = Templated(sts[i], new)]
    BY <2>1 DEF restartStatefulSetIfNeeded
  <2>3. \A j \in Node : sts'[j].ex = sts[j].ex /\ sts'[j].template = sts[j].template
    BY <1>a, <2>a, <2>b
  <2>4. UNCHANGED <<base, plugins, server, rbac>>
    BY <2>1 DEF restartStatefulSetIfNeeded, childVars
  <2>5. QED
    BY <2>3, <2>4, SameAppliedKept DEF SameApplied
<1>9. CASE \E i \in Node : runEnableFeatureFlagsCommand(i)
  <2>1. PICK i \in Node : runEnableFeatureFlagsCommand(i)
    BY <1>9
  <2> DEFINE new == [sts[i] EXCEPT !.created = FALSE]
  <2>2. new.ex = sts[i].ex /\ new.template = sts[i].template
    BY <1>a DEF StatefulSet
  <2>3. sts' = sts \/ sts' = [sts EXCEPT ![i] = new]
    BY <2>1 DEF runEnableFeatureFlagsCommand, CLIFails, nodeVars
  <2>4. \A j \in Node : sts'[j].ex = sts[j].ex /\ sts'[j].template = sts[j].template
    BY <1>a, <2>2, <2>3
  <2>5. UNCHANGED <<base, plugins, server, rbac>>
    BY <2>1 DEF runEnableFeatureFlagsCommand, CLIFails, childVars
  <2>6. QED
    BY <2>4, <2>5, SameAppliedKept DEF SameApplied
<1>10. CASE addFinalizer \/ reconcilePaused \/ reconcileOperatorDefaults
          \/ reconcileStatusConditions \/ reconcileTLS \/ reconcileQueueRebalanced
          \/ reconcileScaleDown \/ waitResourceReady \/ buildFails \/ buildDone
          \/ noRestartNeeded \/ reconcileStatus \/ featureFlagsDone \/ reconcileSuccess
  <2>1. NoChildWrite
    BY <1>10, NoChildWriteSteps, Zenon
  <2>2. QED
    BY <1>1, <2>1 DEF NoChildWrite, childVars, nodeVars
<1>11. CASE getRabbitmqCluster \/ reconcileRabbitmqCLI \/ runSetPluginsCommand
            \/ runQueueRebalanceCommand \/ deferredStatusUpdate
            \/ panicGetChildResources \/ Crash \/ cacheSync \/ ChildSync \/ tick
            \/ UserEditsSpec \/ UserPauses \/ UserWritesSecret
            \/ \E i \in Node : podStop(i) \/ podFail(i)
  <2> DEFINE Same == UNCHANGED <<base, plugins, server, rbac, sts>>
  <2>a. CASE ChildSync
    BY <1>1, <2>a, ChildSyncEffect, TypeParts DEF childVars
  <2>b. CASE UserEditsSpec \/ UserPauses
    <3>1. PICK obj : UserWrites(obj)
      BY <2>b, Zenon DEF UserEditsSpec, UserPauses
    <3>2. QED
      BY <1>1, <3>1 DEF UserWrites, childVars, nodeVars
  <2>c. CASE getRabbitmqCluster \/ reconcileRabbitmqCLI \/ runSetPluginsCommand
             \/ runQueueRebalanceCommand \/ deferredStatusUpdate
             \/ panicGetChildResources \/ Crash
    <3>1. Same
      BY <2>c
         DEF getRabbitmqCluster, reconcileRabbitmqCLI, runSetPluginsCommand,
             runQueueRebalanceCommand, CLIFails, deferredStatusUpdate,
             panicGetChildResources, Crash, Restarted, childVars, nodeVars
    <3>2. QED
      BY <1>1, <3>1
  <2>d. CASE cacheSync \/ tick \/ UserWritesSecret
             \/ \E i \in Node : podStop(i) \/ podFail(i)
    <3>1. Same
      BY <2>d DEF cacheSync, tick, UserWritesSecret, podStop, podFail, NodeEvent,
                  childVars, nodeVars
    <3>2. QED
      BY <1>1, <3>1
  <2>e. QED
    BY <1>11, <2>a, <2>b, <2>c, <2>d
<1>12. CASE UNCHANGED vars
  BY <1>1, <1>12 DEF vars, childVars, nodeVars
<1>13. QED
  BY <1>2, <1>5, <1>6, <1>7, <1>8, <1>9, <1>10, <1>11, <1>12
     DEF Next, OperatorStep, NodeStep

-----------------------------------------------------------------------------
(***************************************************************************)
(* The rest of the inductive invariant.                                    *)
(***************************************************************************)
PostBuild == {"restart", "status", "cli", "cliPlugins", "cliFlags", "cliRebalance",
              "succeed"}

\* The steps after reconcileResources are reached through buildDone only, and no
\* step on the way changes the reconciled spec.
LEMMA PostBuildStep ==
    ASSUME TypeOK, FreshInv, [Next]_vars, pc' \in PostBuild
    PROVE  /\ pc \in PostBuild \/ buildDone
           /\ pc' \in {"restart", "status"} => pc \in {"restart", "status"} \/ buildDone
           /\ mem'.spec = mem.spec
<1>a. TypeOK' /\ CopiesStep
  BY ControlTypeStep, ObjectTypeStep, CopiesEffect DEF TypeOK, ControlType, ObjectType
<1>1. mem'.spec = mem.spec
  <2>1. CASE SameCopies \/ SyncCache \/ UserWrote
    BY <2>1 DEF SameCopies, SyncCache, UserWrote
  <2>2. CASE StatusInMem
    BY <2>2 DEF StatusInMem, TypeOK, Cluster
  <2>3. CASE Stored
    BY <2>3 DEF Stored, PostBuild
  <2>4. QED
    BY <1>a, <2>1, <2>2, <2>3 DEF CopiesStep, ReadFromCache, EndReconcile, PostBuild
<1>2. CASE buildDone
  BY <1>1, <1>2
<1>3. CASE UNCHANGED pc
  BY <1>1, <1>3 DEF PostBuild
<1>4. CASE noRestartNeeded \/ reconcileStatus \/ reconcileRabbitmqCLI
           \/ removePluginsConfigUpdatedFlag \/ runSetPluginsCommand
           \/ (\E i \in Node : runEnableFeatureFlagsCommand(i))
           \/ featureFlagsDone \/ runQueueRebalanceCommand \/ reconcileSuccess
  <2>1. /\ pc \in PostBuild
        /\ (pc' \in {"restart", "status"} => pc \in {"restart", "status"})
    BY <1>4
       DEF noRestartNeeded, reconcileStatus, reconcileRabbitmqCLI,
           removePluginsConfigUpdatedFlag, runSetPluginsCommand,
           runEnableFeatureFlagsCommand, featureFlagsDone, runQueueRebalanceCommand,
           reconcileSuccess, Continue, CLIFails, updateStatus, PostBuild
  <2>2. QED
    BY <1>1, <2>1
<1>5. CASE getRabbitmqCluster \/ addFinalizer \/ reconcilePaused
           \/ reconcileOperatorDefaults \/ reconcileStatusConditions \/ reconcileTLS
           \/ reconcileQueueRebalanced \/ reconcileScaleDown \/ waitResourceReady
  <2>1. pc' \notin PostBuild
    BY <1>5
       DEF getRabbitmqCluster, addFinalizer, reconcilePaused,
           reconcileOperatorDefaults, reconcileStatusConditions, reconcileTLS,
           reconcileQueueRebalanced, reconcileScaleDown, waitResourceReady,
           Continue, UpdateCluster, updateStatus, Return, PostBuild
  <2>2. QED
    BY <2>1
<1>6. CASE buildBase \/ buildPlugins \/ buildServer \/ buildRbac
           \/ (\E i \in Node : buildSts(i)) \/ buildFails
           \/ annotatePlugins \/ annotateServer \/ annotateSts
           \/ (\E i \in Node : restartStatefulSetIfNeeded(i))
           \/ deferredStatusUpdate \/ panicGetChildResources \/ Crash
  <2>a. CASE buildBase \/ buildPlugins \/ buildServer \/ buildRbac
             \/ (\E i \in Node : buildSts(i))
    BY <2>a DEF buildBase, buildPlugins, buildServer, buildRbac, buildSts, Built,
                PostBuild
  <2>b. CASE \E i \in Node : restartStatefulSetIfNeeded(i)
    BY <2>b DEF restartStatefulSetIfNeeded, PostBuild
  <2>c. CASE buildFails \/ annotatePlugins \/ annotateServer \/ annotateSts
             \/ deferredStatusUpdate \/ panicGetChildResources \/ Crash
    BY <2>c DEF buildFails, annotatePlugins, annotateServer, annotateSts, Annotated,
                deferredStatusUpdate, panicGetChildResources, Crash, Restarted, PostBuild
  <2>d. QED
    BY <1>6, <2>a, <2>b, <2>c
<1>7. CASE cacheSync \/ ChildSync \/ UserEditsSpec \/ UserPauses \/ UserWritesSecret
           \/ tick \/ \E i \in Node : NodeStep(i) \/ podFail(i)
  <2>1. CASE ChildSync
    BY <1>3, <2>1, ChildSyncEffect, TypeParts
  <2>2. CASE UserEditsSpec \/ UserPauses
    <3>1. PICK obj : UserWrites(obj)
      BY <2>2, Zenon DEF UserEditsSpec, UserPauses
    <3>2. QED
      BY <1>3, <3>1 DEF UserWrites
  <2>3. CASE cacheSync \/ UserWritesSecret \/ tick
             \/ \E i \in Node : NodeStep(i) \/ podFail(i)
    BY <1>3, <2>3
       DEF cacheSync, UserWritesSecret, tick, NodeStep, stsObserve, podStop, podStart,
           podFail, NodeEvent
  <2>4. QED
    BY <1>7, <2>1, <2>2, <2>3
<1>8. CASE UNCHANGED vars
  BY <1>3, <1>8 DEF vars
<1>9. QED
  BY <1>2, <1>4, <1>5, <1>6, <1>7, <1>8 DEF Next, OperatorStep

\* A step leaves the informers' copy of a StatefulSet, and of the server config map,
\* alone or makes it current.
LEMMA ViewEffect ==
    ASSUME TypeOK, [Next]_vars
    PROVE  /\ view'.server = view.server \/ view'.server = server
           /\ \A i \in Node : view'.sts[i] = view.sts[i] \/ view'.sts[i] = sts[i]
<1>a. view \in View
  BY DEF TypeOK
<1>1. CASE UNCHANGED view
  BY <1>1
<1>2. CASE panicGetChildResources \/ Crash
  BY <1>2 DEF panicGetChildResources, Crash, Restarted, current
<1>3. CASE \E i \in Node : restartStatefulSetIfNeeded(i)
  <2>1. PICK i \in Node : restartStatefulSetIfNeeded(i)
    BY <1>3
  <2>2. CASE view' = [view EXCEPT !.sts[i] = sts[i], !.up[i] = pod[i].up]
    BY <1>a, <2>2 DEF View
  <2>3. QED
    BY <2>1, <2>2 DEF restartStatefulSetIfNeeded
<1>4. CASE ChildSync
  BY <1>4, ChildSyncEffect, TypeParts
<1>5. CASE annotatePlugins \/ annotateServer \/ annotateSts \/ runSetPluginsCommand
           \/ removePluginsConfigUpdatedFlag \/ runQueueRebalanceCommand
           \/ deferredStatusUpdate \/ getRabbitmqCluster \/ reconcileRabbitmqCLI
           \/ \E i \in Node : runEnableFeatureFlagsCommand(i)
  BY <1>1, <1>5
     DEF annotatePlugins, annotateServer, annotateSts, Annotated, runSetPluginsCommand,
         removePluginsConfigUpdatedFlag, runQueueRebalanceCommand, CLIFails,
         deferredStatusUpdate, getRabbitmqCluster, reconcileRabbitmqCLI,
         runEnableFeatureFlagsCommand, nodeVars
<1>6. CASE addFinalizer \/ reconcilePaused \/ reconcileOperatorDefaults
          \/ reconcileStatusConditions \/ reconcileTLS \/ reconcileQueueRebalanced
          \/ reconcileScaleDown \/ waitResourceReady \/ buildFails \/ buildDone
          \/ noRestartNeeded \/ reconcileStatus \/ featureFlagsDone \/ reconcileSuccess
  <2>1. NoChildWrite
    BY <1>6, NoChildWriteSteps, Zenon
  <2>2. QED
    BY <1>1, <2>1 DEF NoChildWrite, nodeVars
<1>7. CASE buildBase \/ buildPlugins \/ buildServer \/ buildRbac
           \/ \E i \in Node : buildSts(i)
  BY <1>1, <1>7 DEF buildBase, buildPlugins, buildServer, buildRbac, buildSts, Built
<1>8. CASE UserEditsSpec \/ UserPauses
  <2>1. PICK obj : UserWrites(obj)
    BY <1>8, Zenon DEF UserEditsSpec, UserPauses
  <2>2. QED
    BY <1>1, <2>1 DEF UserWrites, nodeVars
<1>9. CASE cacheSync \/ UserWritesSecret \/ tick
           \/ \E i \in Node : NodeStep(i) \/ podFail(i)
  BY <1>1, <1>9
     DEF cacheSync, UserWritesSecret, tick, NodeStep, stsObserve, podStop, podStart,
         podFail, NodeEvent, nodeVars
<1>10. CASE UNCHANGED vars
  BY <1>1, <1>10 DEF vars, nodeVars
<1>11. QED
  BY <1>2, <1>3, <1>4, <1>5, <1>6, <1>7, <1>8, <1>9, <1>10 DEF Next, OperatorStep

\* Every step keeps status.replicas backed by StatefulSets.
LEMMA BackedStep ==
    TypeOK /\ FreshInv /\ BackedInv /\ [Next]_vars => BackedInv'
<1> SUFFICES ASSUME TypeOK, FreshInv, BackedInv, [Next]_vars PROVE BackedInv'
  OBVIOUS
<1>a. TypeOK' /\ CopiesStep /\ StsKept
  BY ControlTypeStep, ObjectTypeStep, CopiesEffect, ChildEffect
     DEF TypeOK, ControlType, ObjectType
<1> DEFINE Backed(st) == \A i \in Node : i < st.replicas => sts[i].ex
           BackedNow(st) == \A i \in Node : i < st.replicas => sts'[i].ex
<1>b. \A st : Backed(st) => BackedNow(st)
  BY <1>a DEF StsKept
<1>c. BackedNow(rmq.st) /\ BackedNow(cache.st) /\ BackedNow(mem.st)
  BY <1>b DEF BackedInv
<1>d. \A st : StatusStep(st) => BackedNow(st)
  <2> SUFFICES ASSUME NEW st, StatusStep(st) PROVE BackedNow(st)
    OBVIOUS
  <2>1. CASE st.replicas = mem.st.replicas
    BY <1>c, <2>1
  <2>2. CASE pc = "status" /\ st.replicas = mem.spec.replicas
    BY <1>a, <2>2 DEF BackedInv, StsKept
  <2>3. QED
    BY <2>1, <2>2 DEF StatusStep
<1>1. BackedNow(rmq'.st) /\ BackedNow(cache'.st) /\ BackedNow(mem'.st)
  <2> HIDE DEF BackedNow
  <2>1. CASE SameCopies
    BY <1>c, <2>1 DEF SameCopies
  <2>2. CASE StatusInMem
    <3>1. PICK st : StatusStep(st) /\ mem' = [mem EXCEPT !.st = st]
      BY <2>2 DEF StatusInMem
    <3>2. mem'.st = st
      BY <3>1 DEF TypeOK, Cluster
    <3>3. QED
      BY <1>c, <1>d, <2>2, <3>1, <3>2 DEF StatusInMem
  <2>3. CASE Stored
    BY <1>c, <1>d, <2>3 DEF Stored
  <2>4. CASE ReadFromCache
    BY <1>c, <2>4 DEF ReadFromCache
  <2>5. CASE EndReconcile
    <3>1. rmq'.st \in {rmq.st, mem.st} /\ cache'.st \in {cache.st, rmq.st}
      BY <2>5 DEF EndReconcile, TypeOK, Cluster
    <3>2. mem'.st.replicas = 0
      BY <2>5 DEF EndReconcile, Blank, NewCluster, NewStatus
    <3>3. BackedNow(mem'.st)
      BY <3>2, ConstantsAssumption DEF BackedNow, Node
    <3>4. QED
      BY <1>c, <3>1, <3>3
  <2>6. CASE SyncCache
    BY <1>c, <2>6 DEF SyncCache
  <2>7. CASE UserWrote
    BY <1>c, <2>7 DEF UserWrote
  <2>8. QED
    BY <1>a, <2>1, <2>2, <2>3, <2>4, <2>5, <2>6, <2>7 DEF CopiesStep
<1>2. ASSUME pc' \in {"restart", "status"}
      PROVE  \A i \in Node : i < mem'.spec.replicas => sts'[i].ex
  <2>1. mem'.spec = mem.spec
        /\ (pc \in {"restart", "status"} \/ StsDone(mem.spec.replicas))
    BY <1>2, PostBuildStep DEF PostBuild, buildDone
  <2>a. \A i \in Node : cached.sts[i].ex => sts[i].ex
    BY DEF BackedInv, cached, current
  <2>2. \A i \in Node : i < mem.spec.replicas => sts[i].ex
    BY <2>1, <2>a, DoneMeansCached DEF BackedInv
  <2>3. QED
    BY <1>a, <2>1, <2>2 DEF StsKept
<1>3. \A i \in Node : view'.sts[i].ex => sts'[i].ex
  <2>1. \A i \in Node : view'.sts[i] = view.sts[i] \/ view'.sts[i] = sts[i]
    BY ViewEffect
  <2>2. QED
    BY <1>a, <2>1 DEF BackedInv, StsKept
<1>4. QED
  BY <1>1, <1>2, <1>3 DEF BackedInv

\* A status that reports success for the current generation.
Claims(st) == st.success = "Success" /\ st.obsGen = rmq.gen

\* After a step the current generation is claimed only if it was before, or by the
\* reconcile that has just run the last command for it; a new generation is claimed
\* by nobody.
LEMMA ClaimsStep ==
    ASSUME IndInv, [Next]_vars, NEW st \in {rmq'.st, cache'.st, mem'.st},
           st.success = "Success", st.obsGen = rmq'.gen
    PROVE  /\ rmq'.gen = rmq.gen /\ rmq'.spec = rmq.spec
           /\ \/ \E old \in {rmq.st, cache.st, mem.st} : Claims(old)
              \/ pc = "cliRebalance" /\ mem.spec = rmq.spec
<1> USE DEF IndInv
<1>a. TypeOK' /\ CopiesStep
  BY ControlTypeStep, ObjectTypeStep, CopiesEffect
     DEF TypeOK, ControlType, ObjectType
<1>b. /\ mem.gen \in Nat /\ rmq.gen \in Nat /\ cache.gen \in Nat /\ rmq'.gen \in Nat
      /\ rmq.st.obsGen \in Nat /\ cache.st.obsGen \in Nat /\ mem.st.obsGen \in Nat
  BY <1>a DEF TypeOK, Cluster, ClusterStatus
<1> DEFINE Kept == rmq'.gen = rmq.gen /\ rmq'.spec = rmq.spec
\* A new generation is claimed by nobody.
<1>c. ASSUME st \in {rmq.st, cache.st, mem.st} \/ StatusStep(st),
             rmq'.gen = rmq.gen + 1
      PROVE  st.obsGen # rmq'.gen
  <2>1. CASE st \in {rmq.st, cache.st, mem.st}
    BY <1>b, <1>c, <2>1 DEF GenInv
  <2>2. CASE StatusStep(st)
    BY <1>b, <1>c, <2>2 DEF GenInv, StatusStep
  <2>3. QED
    BY <1>c, <2>1, <2>2
<1>d. Kept \/ rmq'.gen = rmq.gen + 1
  <2>1. CASE Stored
    BY <2>1 DEF Stored, FreshInv
  <2>2. CASE EndReconcile
    BY <2>2 DEF EndReconcile, TypeOK, Cluster
  <2>3. CASE UserWrote
    BY <2>3 DEF UserWrote
  <2>4. QED
    BY <1>a, <2>1, <2>2, <2>3
       DEF CopiesStep, SameCopies, StatusInMem, ReadFromCache, SyncCache
<1>e. st \in {rmq.st, cache.st, mem.st} \/ StatusStep(st)
  <2>1. CASE SameCopies
    BY <2>1 DEF SameCopies
  <2>2. CASE StatusInMem
    <3>1. PICK new : StatusStep(new) /\ mem' = [mem EXCEPT !.st = new]
      BY <2>2 DEF StatusInMem
    <3>2. mem'.st = new
      BY <3>1 DEF TypeOK, Cluster
    <3>3. QED
      BY <2>2, <3>1, <3>2 DEF StatusInMem
  <2>3. CASE Stored
    BY <2>3 DEF Stored
  <2>4. CASE ReadFromCache
    BY <2>4 DEF ReadFromCache
  <2>5. CASE EndReconcile
    <3>1. rmq'.st \in {rmq.st, mem.st} /\ cache'.st \in {cache.st, rmq.st}
      BY <2>5 DEF EndReconcile, TypeOK, Cluster
    <3>2. mem'.st.success # "Success"
      BY <2>5 DEF EndReconcile, Blank, NewCluster, NewStatus
    <3>3. QED
      BY <3>1, <3>2
  <2>6. CASE SyncCache
    BY <2>6 DEF SyncCache
  <2>7. CASE UserWrote
    BY <2>7 DEF UserWrote
  <2>8. QED
    BY <1>a, <2>1, <2>2, <2>3, <2>4, <2>5, <2>6, <2>7 DEF CopiesStep
<1>1. Kept
  BY <1>c, <1>d, <1>e
<1>2. CASE st \in {rmq.st, cache.st, mem.st}
  BY <1>1, <1>2 DEF Claims
<1>3. CASE StatusStep(st)
  <2>1. CASE st.obsGen = mem.st.obsGen /\ mem.st.success = "Success"
    BY <1>1, <2>1 DEF Claims
  <2>2. CASE pc = "cliRebalance" /\ st.obsGen = mem.gen
    BY <1>1, <2>2 DEF GenInv
  <2>3. QED
    BY <1>3, <2>1, <2>2 DEF StatusStep
<1>4. QED
  BY <1>1, <1>2, <1>3, <1>e

\* Every step keeps the success of a generation backed by its children.
LEMMA AppliedStep ==
    ASSUME ChildLag = FALSE, IndInv, AppliedInv, [Next]_vars PROVE AppliedInv'
<1> USE DEF IndInv
<1>a. AppliedKept
  BY ChildEffect DEF TypeOK, ControlType, ObjectType
<1>b. mem.spec \in ClusterSpec /\ rmq.spec \in ClusterSpec
      /\ mem.gen \in Nat /\ rmq.gen \in Nat
  BY DEF TypeOK, Cluster
<1>1. ASSUME NEW st \in {rmq'.st, cache'.st, mem'.st},
             st.success = "Success", st.obsGen = rmq'.gen
      PROVE  Applied(rmq.spec)'
  <2>1. /\ rmq'.spec = rmq.spec
        /\ \/ \E old \in {rmq.st, cache.st, mem.st} : Claims(old)
           \/ pc = "cliRebalance" /\ mem.spec = rmq.spec
    BY <1>1, ClaimsStep
  <2>2. Applied(rmq.spec) /\ (pc = "build" => rmq.spec = mem.spec)
    <3>1. CASE pc = "cliRebalance" /\ mem.spec = rmq.spec
      BY <3>1 DEF AppliedInv
    <3>2. CASE \E old \in {rmq.st, cache.st, mem.st} : Claims(old)
      <4>1. PICK old \in {rmq.st, cache.st, mem.st} : Claims(old)
        BY <3>2
      <4>2. pc = "build" => mem.gen = rmq.gen
        BY <1>b, <4>1 DEF GenInv, Claims
      <4>3. QED
        BY <4>1, <4>2 DEF GenInv, AppliedInv, Claims
    <3>3. QED
      BY <2>1, <3>1, <3>2
  <2>3. \A spec : spec = rmq.spec => Applied(spec)'
    BY <1>a, <1>b, <2>2 DEF AppliedKept
  <2>4. QED
    BY <2>1, <2>3
<1>2. ASSUME pc' \in PostBuild PROVE Applied(mem.spec)'
  <2>1. mem'.spec = mem.spec /\ Applied(mem.spec)
    BY <1>2, PostBuildStep, DoneMeansApplied DEF AppliedInv, PostBuild, buildDone
  <2>2. \A spec : spec = mem.spec => Applied(spec)'
    BY <1>a, <1>b, <2>1 DEF AppliedKept
  <2>3. QED
    BY <2>1, <2>2
<1>3. QED
  BY <1>1, <1>2 DEF AppliedInv, PostBuild

-----------------------------------------------------------------------------
(***************************************************************************)
(* The theorems.                                                           *)
(***************************************************************************)
\* The initial states satisfy the inductive invariant.
LEMMA InitIndInv == Init => IndInv
<1> SUFFICES ASSUME Init PROVE IndInv
  OBVIOUS
<1>1. TypeOK
  BY InitType
<1>2. /\ rmq.gen = 1 /\ rmq.st = NewStatus /\ cache = rmq
      /\ mem = Blank /\ Blank.gen = 1 /\ Blank.st = NewStatus
      /\ ~memFresh /\ pc = "idle"
  BY DEF Init, NewCluster, Blank
<1>3. NewStatus.replicas = 0 /\ NewStatus.obsGen = 0 /\ NewStatus.success = "None"
  BY DEF NewStatus
<1>4. BackedInv
  <2>1. view.sts = sts
    BY DEF Init, current
  <2>2. QED
    BY <1>2, <1>3, <2>1, ConstantsAssumption DEF BackedInv, Node
<1>5. QED
  BY <1>1, <1>2, <1>3, <1>4 DEF IndInv, FreshInv, GenInv

\* The inductive invariant holds in every reachable state.
THEOREM Invariance == Spec => []IndInv
<1>1. IndInv /\ [Next]_vars => IndInv'
  <2> SUFFICES ASSUME IndInv, [Next]_vars PROVE IndInv'
    OBVIOUS
  <2>1. TypeOK' /\ CopiesStep
    BY ControlTypeStep, ObjectTypeStep, CopiesEffect
       DEF IndInv, TypeOK, ControlType, ObjectType
  <2>2. QED
    BY <2>1, FreshStep, GenStep, BackedStep DEF IndInv
<1>2. QED
  BY <1>1, InitIndInv, PTL DEF Spec

\* No copy of the status claims more than the children carry, if these are read as
\* they are.
THEOREM AppliedInvariance ==
    ASSUME ChildLag = FALSE
    PROVE  Spec => []AppliedInv
<1>1. Init => AppliedInv
  <2> SUFFICES ASSUME Init PROVE AppliedInv
    OBVIOUS
  <2>1. rmq.st.success = "None" /\ cache.st.success = "None" /\ mem.st.success = "None"
        /\ pc = "idle"
    BY DEF Init, NewCluster, Blank, NewStatus
  <2>2. QED
    BY <2>1 DEF AppliedInv
<1>2. IndInv /\ AppliedInv /\ [Next]_vars => AppliedInv'
  BY AppliedStep, Zenon
<1>3. QED
  BY <1>1, <1>2, Invariance, PTL DEF Spec

\* If the children are read as they are, ReconcileSuccess is True for the current
\* generation only when every child was written from the current spec.
THEOREM SuccessApplied ==
    ASSUME ChildLag = FALSE
    PROVE  Spec => []SuccessMeansApplied
<1>1. AppliedInv => SuccessMeansApplied
  BY DEF AppliedInv, SuccessMeansApplied, Observed
<1>2. QED
  BY <1>1, AppliedInvariance, PTL

\* status.replicas never counts a node that was not created.
THEOREM ReplicasBacked == Spec => []StatusReplicasBacked
<1>1. IndInv => StatusReplicasBacked
  BY DEF IndInv, BackedInv, StatusReplicasBacked
<1>2. QED
  BY <1>1, Invariance, PTL

\* status.replicas never goes down.
THEOREM ReplicasMonotone == Spec => StatusReplicasMonotone
<1>1. IndInv /\ [Next]_vars => rmq'.st.replicas >= rmq.st.replicas
  <2> SUFFICES ASSUME IndInv, [Next]_vars PROVE rmq'.st.replicas >= rmq.st.replicas
    OBVIOUS
  <2>1. TypeOK' /\ CopiesStep
    BY ControlTypeStep, ObjectTypeStep, CopiesEffect
       DEF IndInv, TypeOK, ControlType, ObjectType
  <2>2. mem.st.replicas \in Nat /\ rmq.st.replicas \in Nat /\ rmq'.st.replicas \in Nat
    BY <2>1, ConstantsAssumption DEF IndInv, TypeOK, Cluster, ClusterStatus
  <2>3. CASE Stored
    BY <2>2, <2>3 DEF IndInv, FreshInv, Stored, StatusStep
  <2>4. CASE EndReconcile
    <3>1. rmq' = rmq \/ (memFresh /\ rmq'.st = mem.st)
      BY <2>4 DEF EndReconcile, IndInv, TypeOK, Cluster
    <3>2. QED
      BY <2>2, <3>1 DEF IndInv, FreshInv
  <2>5. QED
    BY <2>1, <2>2, <2>3, <2>4
       DEF CopiesStep, SameCopies, StatusInMem, ReadFromCache, SyncCache, UserWrote
<1>2. QED
  BY <1>1, Invariance, PTL DEF Spec, StatusReplicasMonotone

\* The operator only ever fills in the image a user left empty.
THEOREM SpecPreserved == Spec => OperatorPreservesSpec
<1> DEFINE Preserved ==
      budget'.edits = budget.edits /\ ~ControlRabbitmqImage =>
         \/ rmq'.spec = rmq.spec
         \/ rmq.spec.image = Unset
            /\ rmq'.spec = [rmq.spec EXCEPT !.image = DefaultImage]
<1>1. IndInv /\ [Next]_vars => Preserved
  <2> SUFFICES ASSUME IndInv, [Next]_vars PROVE Preserved
    OBVIOUS
  <2>1. CopiesStep
    BY CopiesEffect DEF IndInv
  <2>2. CASE Stored
    BY <2>2 DEF IndInv, FreshInv, Stored, Defaulted
  <2>3. CASE EndReconcile
    BY <2>3 DEF EndReconcile, IndInv, TypeOK, Cluster
  <2>4. QED
    BY <2>1, <2>2, <2>3
       DEF CopiesStep, SameCopies, StatusInMem, ReadFromCache, SyncCache, UserWrote
<1>2. QED
  BY <1>1, Invariance, PTL DEF Spec, OperatorPreservesSpec

=============================================================================
