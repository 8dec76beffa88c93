-------------------------- MODULE Quiescence_proofs --------------------------
(***************************************************************************)
(* No wakeup is lost in RabbitmqClusterReconciler: once the operator is    *)
(* idle with nothing queued, the cluster it has reported on is the current *)
(* one, and the children carry it, for any number of nodes, edits, crashes *)
(* and failing pods, and whether or not the status of a StatefulSet and    *)
(* the informers' copies of the children lag.                              *)
(***************************************************************************)
EXTENDS RabbitmqClusterReconciler_proofs

\* A reconcile that nothing has overtaken: no event since it started, no write of
\* the cluster, and no early return.  It is the only one that can end with an empty
\* work queue.
Quiet == pc \notin {"idle", "return"} /\ ~queued /\ cacheFresh

BeforeTLS == {"delete", "paused", "defaults", "conditions"}
Commands == {"cliPlugins", "cliFlags", "cliRebalance", "succeed"}

\* The copies that the steps read carry what the given spec asks for.
Carried(spec) ==
    /\ cached.base.ex /\ cached.rbac.ex
    /\ cached.plugins.ex /\ cached.plugins.val = spec.plugins
    /\ cached.server.ex /\ cached.server.conf = serverConf(spec)
    /\ cached.server.hint = spec.replicas
    /\ \A i \in Node : i < spec.replicas =>
          cached.sts[i].ex /\ cached.sts[i].template = podTemplate(spec)
AllUp == \A i \in Listed : cached.up[i]

\* What such a reconcile has found out, of the copies it reads, is still the case.
QuietMem == Quiet => memFresh /\ before = rmq.st
QuietReady == Quiet /\ pc \notin BeforeTLS =>
    mem.st.ready \in AllReplicasReadyCondition /\ mem.st.success # "None"
QuietCarried == Quiet /\ pc \in PostBuild => Carried(mem.spec)
QuietUp == Quiet /\ pc \in Commands =>
    AllUp /\ Cardinality(Listed) = mem.spec.replicas
QuietSuccess == Quiet /\ pc = "succeed" =>
    mem.st.success = "Success" /\ mem.st.obsGen = mem.gen
FailureBudget == budget.failures <= MaxFailures

\* And it is while the operator is idle, until the next event.
Idle == pc = "idle" /\ ~queued /\ cacheFresh
IdleCarried == Idle => Carried(rmq.spec)
IdleObserved == Idle /\ budget.failures = MaxFailures =>
    Observed /\ rmq.st.ready = "True" /\ AllUp

QuietInv == /\ QuietMem /\ QuietReady /\ QuietCarried /\ QuietUp /\ QuietSuccess
            /\ FailureBudget /\ IdleCarried /\ IdleObserved

\* A quiet step within a reconcile: a condition it depends on was found to hold.
QuietStep ==
    /\ Quiet
    /\ UNCHANGED <<rmq, memFresh, before>>
    /\ cached' = cached
    /\ \/ mem' = mem /\ (pc' = "succeed" => pc = "succeed")
       \/ pc = "cliRebalance" /\ reconcileSuccess
    /\ \/ pc' \in BeforeTLS \/ pc \notin BeforeTLS
       \/ mem' = mem /\ mem.st.ready \in AllReplicasReadyCondition
          /\ mem.st.success # "None"
    /\ \/ pc' \notin Commands \/ pc \in Commands
       \/ mem' = mem /\ AllUp /\ Cardinality(Listed) = mem.spec.replicas

\* A step that writes no child leaves the copies as they are.
LEMMA SameCopiesRead ==
    ASSUME UNCHANGED <<childVars, sts, view, pod>> PROVE cached' = cached
BY DEF childVars, cached, current

\* A step that is quiet afterwards is the first of a reconcile, which reads the
\* current cluster, or the next of a quiet one: whatever writes an object or the
\* cluster, and whatever happens to a node, queues the cluster, is a write that a
\* watch event follows, or returns early.
LEMMA QuietSteps ==
    ASSUME TypeOK, FreshInv, QuietMem, [Next]_vars, Quiet'
    PROVE  getRabbitmqCluster \/ QuietStep
<1> USE DEF Quiet
<1>a. NoChildWrite => cached' = cached
  BY SameCopiesRead DEF NoChildWrite, nodeVars
<1>1. CASE addFinalizer \/ reconcilePaused \/ reconcileOperatorDefaults
  <2>1. /\ NoChildWrite /\ pc \in BeforeTLS
        /\ Continue("paused") \/ Continue("defaults") \/ Continue("conditions")
    BY <1>1 DEF addFinalizer, reconcilePaused, reconcileOperatorDefaults,
                UpdateCluster, Return, BeforeTLS
  <2>2. QED
    BY <2>1, <1>a DEF QuietStep, Continue, NoChildWrite, rmqVars, memVars, BeforeTLS,
                      Commands
<1>2. CASE reconcileStatusConditions
  <2>1. PICK ready \in AllReplicasReadyCondition :
          SetConditions(mem.st, ready) = mem.st /\ Continue("tls")
    BY <1>2 DEF reconcileStatusConditions, updateStatus
  <2>2. mem.st \in ClusterStatus
    BY DEF TypeOK, Cluster
  <2>3. mem.st.ready = ready /\ mem.st.success # "None"
    BY <2>1, <2>2 DEF SetConditions, ClusterStatus
  <2>4. QED
    BY <1>2, <1>a, <2>1, <2>3
       DEF reconcileStatusConditions, QuietStep, Continue, NoChildWrite, rmqVars,
           memVars, BeforeTLS, Commands
<1>3. CASE reconcileTLS \/ reconcileQueueRebalanced \/ reconcileScaleDown
           \/ waitResourceReady \/ buildDone \/ noRestartNeeded \/ reconcileStatus
           \/ featureFlagsDone
  <2>1. /\ NoChildWrite /\ pc \notin BeforeTLS \cup {"idle", "return"}
        /\ \/ Continue("rebalance") \/ Continue("scaledown") \/ Continue("wait")
           \/ Continue("build") \/ Continue("restart") \/ Continue("status")
           \/ Continue("cli")
           \/ pc = "cliFlags" /\ Continue("cliRebalance")
    BY <1>3 DEF reconcileTLS, reconcileQueueRebalanced, reconcileScaleDown,
                waitResourceReady, buildDone, noRestartNeeded, reconcileStatus,
                featureFlagsDone, UpdateCluster, updateStatus, Return, Continue, BeforeTLS
  <2>2. QED
    BY <2>1, <1>a DEF QuietStep, Continue, NoChildWrite, rmqVars, memVars, BeforeTLS,
                      Commands
<1>4. CASE reconcileRabbitmqCLI
  <2>1. /\ pc = "cli" /\ UNCHANGED <<queued, childVars, sts, view, pod>>
        /\ allReplicasReadyAndUpdated /\ Cardinality(Listed) = mem.spec.replicas
        /\ Continue("cliFlags") \/ Continue("cliPlugins")
    BY <1>4 DEF reconcileRabbitmqCLI, Continue
  <2>2. AllUp
    BY <2>1 DEF allReplicasReadyAndUpdated, AllUp
  <2>3. cached' = cached
    BY <2>1, SameCopiesRead
  <2>4. QED
    BY <2>1, <2>2, <2>3 DEF QuietStep, Continue, rmqVars, memVars, BeforeTLS, Commands
<1>5. CASE runSetPluginsCommand
  <2>1. /\ pod' = [pod EXCEPT ![idx].plugins = mem.spec.plugins]
        /\ UNCHANGED <<rmqVars, memVars, pc, queued, childVars, sts, view>>
        /\ pc = "cliPlugins"
    BY <1>5 DEF runSetPluginsCommand, CLIFails
  <2>2. \A i \in Node : pod'[i].up = pod[i].up
    BY <2>1 DEF TypeOK, Pod
  <2>3. current' = current
    BY <2>1, <2>2 DEF current, childVars
  <2>4. cached' = cached
    BY <2>1, <2>3 DEF cached
  <2>5. QED
    BY <2>1, <2>4 DEF QuietStep, rmqVars, memVars, BeforeTLS, Commands
<1>6. CASE runQueueRebalanceCommand
  <2> DEFINE obj == [mem EXCEPT !.rebal = 0, !.st = rmq.st]
  <2>1. Store(obj) /\ mem.rebal # 0
    BY <1>6 DEF runQueueRebalanceCommand, CLIFails
  <2>2. obj = rmq /\ mem.rebal = rmq.rebal
    BY <2>1 DEF Store, FreshInv
  <2>3. obj.rebal = 0
    BY DEF TypeOK, Cluster
  <2>4. QED
    BY <2>1, <2>2, <2>3
<1>7. CASE reconcileSuccess
  BY <1>7, <1>a DEF reconcileSuccess, NoChildWrite, QuietStep, rmqVars, BeforeTLS, Commands
<1>8. CASE buildFails \/ annotatePlugins \/ annotateServer \/ annotateSts
           \/ (\E i \in Node : restartStatefulSetIfNeeded(i))
           \/ deferredStatusUpdate \/ panicGetChildResources \/ Crash
           \/ buildBase \/ buildRbac
  <2>1. pc' \in {"idle", "return"}
    BY <1>8, Zenon
       DEF buildFails, annotatePlugins, annotateServer, annotateSts, Annotated,
           restartStatefulSetIfNeeded, deferredStatusUpdate, panicGetChildResources,
           Crash, Restarted, buildBase, buildRbac, Built
  <2>2. QED
    BY <2>1
<1>9. CASE buildPlugins \/ buildServer \/ \E i \in Node : buildSts(i)
  <2>1. CASE buildPlugins \/ buildServer
    <3>1. /\ pc = "build" /\ UNCHANGED <<rmqVars, memVars, view>>
          /\ queued' = (queued \/ ~ChildLag)
          /\ pc' \in {"return", "annotatePlugins", "annotateServer"}
      BY <2>1 DEF buildPlugins, buildServer, Built, Changed
    <3>2. cached' = cached
      BY <3>1 DEF cached
    <3>3. QED
      BY <3>1, <3>2 DEF QuietStep, rmqVars, memVars, BeforeTLS, Commands
  <2>2. CASE \E i \in Node : buildSts(i)
    <3>1. PICK i \in Node : buildSts(i)
      BY <2>2
    <3>2. /\ pc = "build" /\ UNCHANGED <<rmqVars, memVars, view>>
          /\ queued' = (queued \/ ~ChildLag)
          /\ pc' \in {"return", "annotateSts"}
      BY <3>1 DEF buildSts, Built, Changed
    <3>3. cached' = cached
      BY <3>2 DEF cached
    <3>4. QED
      BY <3>2, <3>3 DEF QuietStep, rmqVars, memVars, BeforeTLS, Commands
  <2>3. QED
    BY <1>9, <2>1, <2>2
<1>10. CASE removePluginsConfigUpdatedFlag
            \/ \E i \in Node : runEnableFeatureFlagsCommand(i)
  <2>1. /\ pc \in {"cliPlugins", "cliFlags"} /\ pc' \in {"cliPlugins", "cliFlags"}
        /\ UNCHANGED <<rmqVars, memVars, view>> /\ Changed
    BY <1>10, Zenon
       DEF removePluginsConfigUpdatedFlag, runEnableFeatureFlagsCommand, CLIFails,
           nodeVars
  <2>2. cached' = cached
    BY <2>1 DEF cached, Changed
  <2>3. QED
    BY <2>1, <2>2 DEF QuietStep, Changed, rmqVars, memVars, BeforeTLS, Commands
<1>11. CASE \E i \in Node : NodeStep(i) \/ podFail(i)
  <2>1. UNCHANGED <<rmqVars, memVars, pc, view>> /\ Changed
    BY <1>11, Zenon DEF NodeStep, stsObserve, podStop, podStart, podFail, NodeEvent
  <2>2. cached' = cached
    BY <2>1 DEF cached, Changed
  <2>3. QED
    BY <2>1, <2>2 DEF QuietStep, Changed, rmqVars, memVars, BeforeTLS, Commands
<1>12. CASE cacheSync \/ ChildSync \/ UserEditsSpec \/ UserPauses \/ tick
  <2>1. CASE ChildSync
    BY <2>1, ChildSyncEffect, TypeParts
  <2>2. CASE UserEditsSpec \/ UserPauses
    <3>1. PICK obj : UserWrites(obj)
      BY <2>2, Zenon DEF UserEditsSpec, UserPauses
    <3>2. QED
      BY <3>1 DEF UserWrites
  <2>3. QED
    BY <1>12, <2>1, <2>2 DEF cacheSync, tick
<1>13. CASE UserWritesSecret \/ UNCHANGED vars
  <2>1. UNCHANGED <<rmqVars, memVars, pc, queued, childVars, sts, view, pod>>
    BY <1>13 DEF UserWritesSecret, vars, nodeVars
  <2>2. QED
    BY <2>1, SameCopiesRead DEF QuietStep, rmqVars, memVars
<1>14. QED
  BY <1>1, <1>2, <1>3, <1>4, <1>5, <1>6, <1>7, <1>8, <1>9, <1>10, <1>11, <1>12, <1>13,
     Zenon DEF Next, OperatorStep

\* What is found out of the copies does not change while they stay as they are.
LEMMA SameConditions ==
    ASSUME cached' = cached
    PROVE  /\ Listed' = Listed /\ AllUp' = AllUp
           /\ \A spec : Carried(spec)' = Carried(spec)
           /\ mem'.spec = mem.spec =>
                 AllReplicasReadyCondition' = AllReplicasReadyCondition
<1>1. Listed' = Listed
  BY DEF Listed
<1>2. QED
  BY <1>1 DEF AllReplicasReadyCondition, AllUp, Carried

\* A quiet reconcile keeps what it has found out.
LEMMA QuietKept ==
    ASSUME TypeOK, FreshInv, QuietInv, [Next]_vars
    PROVE  QuietMem' /\ QuietReady' /\ QuietCarried' /\ QuietUp' /\ QuietSuccess'
<1> USE DEF QuietInv
<1> SUFFICES ASSUME Quiet'
             PROVE  QuietMem' /\ QuietReady' /\ QuietCarried' /\ QuietUp' /\ QuietSuccess'
  BY DEF QuietMem, QuietReady, QuietCarried, QuietUp, QuietSuccess
<1>1. CASE getRabbitmqCluster
  <2>1. pc' = "delete" /\ before' = rmq'.st /\ memFresh'
    BY <1>1 DEF getRabbitmqCluster, Quiet, rmqVars, FreshInv
  <2>2. QED
    BY <2>1 DEF QuietMem, QuietReady, QuietCarried, QuietUp, QuietSuccess, BeforeTLS,
                Commands, PostBuild
<1>2. CASE QuietStep
  <2>1. mem.st \in ClusterStatus /\ mem \in Cluster
    BY DEF TypeOK, Cluster
  <2>2. \/ mem' = mem /\ (pc' = "succeed" => pc = "succeed")
        \/ /\ pc = "cliRebalance" /\ pc' = "succeed"
           /\ mem' = [mem EXCEPT !.st = [SetCondition(@, "Success")
                                           EXCEPT !.obsGen = mem.gen]]
    BY <1>2 DEF QuietStep, reconcileSuccess
  <2> DEFINE new == [SetCondition(mem.st, "Success") EXCEPT !.obsGen = mem.gen]
  <2>a. SetCondition(mem.st, "Success") \in ClusterStatus
    BY <2>1, SetConditionType DEF SuccessReason
  <2>b. /\ mem.st.success # "None" => new.success = "Success"
        /\ new.obsGen = mem.gen /\ new.ready = mem.st.ready
    BY <2>1, <2>a DEF SetCondition, ClusterStatus
  <2> HIDE DEF new
  <2>c. [mem EXCEPT !.st = new].spec = mem.spec /\ [mem EXCEPT !.st = new].gen = mem.gen
        /\ [mem EXCEPT !.st = new].st = new
    BY <2>1 DEF Cluster
  <2>3. mem'.spec = mem.spec /\ mem'.gen = mem.gen
        /\ (mem'.st = mem.st \/ (pc = "cliRebalance" /\ mem'.st = new))
        /\ (pc' = "succeed" => mem'.st = new \/ (pc = "succeed" /\ mem' = mem))
    BY <2>2, <2>c DEF new
  <2>4. QuietMem'
    BY <1>2 DEF QuietStep, QuietMem
  <2>5. QuietReady'
    <3> SUFFICES ASSUME pc' \notin BeforeTLS
                 PROVE  /\ mem'.st.ready \in AllReplicasReadyCondition'
                        /\ mem'.st.success # "None"
      BY DEF QuietReady
    <3>1. mem.st.ready \in AllReplicasReadyCondition /\ mem.st.success # "None"
      BY <1>2 DEF QuietStep, QuietReady
    <3>2. mem'.st.ready = mem.st.ready /\ mem'.st.success # "None"
      BY <2>3, <2>b, <3>1
    <3>3. QED
      BY <1>2, <2>3, <3>1, <3>2, SameConditions DEF QuietStep
  <2>6. QuietUp'
    <3> SUFFICES ASSUME pc' \in Commands
                 PROVE  AllUp' /\ Cardinality(Listed') = mem'.spec.replicas
      BY DEF QuietUp
    <3>1. AllUp /\ Cardinality(Listed) = mem.spec.replicas
      BY <1>2 DEF QuietStep, QuietUp
    <3>2. QED
      BY <1>2, <2>3, <3>1, SameConditions DEF QuietStep
  <2>d. QuietCarried'
    <3> SUFFICES ASSUME pc' \in PostBuild PROVE Carried(mem.spec)'
      BY DEF QuietCarried
    <3>1. pc \in PostBuild \/ buildDone
      BY PostBuildStep
    <3>2. buildDone => Carried(mem.spec)
      BY DoneMeansCached DEF buildDone, Carried
    <3>3. Carried(mem.spec)
      BY <1>2, <3>1, <3>2 DEF QuietStep, QuietCarried
    <3>4. QED
      BY <1>2, <2>3, <3>3, SameConditions DEF QuietStep, Carried
  <2>7. QuietSuccess'
    <3> SUFFICES ASSUME pc' = "succeed"
                 PROVE  mem'.st.success = "Success" /\ mem'.st.obsGen = mem'.gen
      BY DEF QuietSuccess
    <3>1. CASE pc = "succeed" /\ mem' = mem
      BY <1>2, <3>1 DEF QuietStep, QuietSuccess
    <3>2. CASE pc = "cliRebalance" /\ mem'.st = new
      BY <1>2, <2>3, <2>b, <3>2 DEF QuietStep, QuietReady, BeforeTLS
    <3>3. QED
      BY <2>2, <2>3, <2>c, <3>1, <3>2 DEF new
  <2>8. QED
    BY <2>4, <2>5, <2>6, <2>d, <2>7
<1>3. QED
  BY <1>1, <1>2, QuietSteps

\* The last step of a quiet reconcile leaves the work queue empty only if the status
\* it has computed is the one the cluster has.
LEMMA QuietEnd ==
    ASSUME IndInv, QuietInv, deferredStatusUpdate PROVE IdleCarried' /\ IdleObserved'
<1> USE DEF IndInv, QuietInv
<1> SUFFICES ASSUME ~queued', cacheFresh'
             PROVE  /\ Carried(rmq.spec)'
                    /\ budget'.failures = MaxFailures =>
                          (Observed /\ rmq.st.ready = "True" /\ AllUp)'
  BY DEF IdleCarried, IdleObserved, Idle
<1>1. pc = "succeed" /\ ~queued
  BY DEF deferredStatusUpdate
<1>2. cacheFresh
  BY DEF deferredStatusUpdate, Refused, rmqVars
<1>3. Quiet
  BY <1>1, <1>2 DEF Quiet
<1>4. /\ memFresh /\ before = rmq.st /\ mem.gen = rmq.gen /\ mem.spec = rmq.spec
      /\ mem.st.success = "Success" /\ mem.st.obsGen = mem.gen
      /\ mem.st.ready \in AllReplicasReadyCondition
      /\ AllUp /\ Cardinality(Listed) = mem.spec.replicas /\ Carried(mem.spec)
  BY <1>1, <1>3
     DEF QuietMem, QuietReady, QuietCarried, QuietUp, QuietSuccess, FreshInv,
         BeforeTLS, Commands, PostBuild
<1>5. cached' = cached
  BY SameCopiesRead DEF deferredStatusUpdate
<1>6. rmq'.spec = rmq.spec
  BY DEF deferredStatusUpdate, Refused, rmqVars, TypeOK, Cluster
<1>7. Carried(rmq.spec)'
  BY <1>4, <1>5, <1>6 DEF Carried
<1>8. ASSUME budget'.failures = MaxFailures PROVE rmq' = rmq /\ mem.st = before
  <2>1. CASE mem.st = before /\ UNCHANGED <<rmqVars, budget>>
    BY <2>1 DEF rmqVars
  <2>2. CASE mem.st # before /\ Refused
    <3>1. WriteFails
      BY <1>4, <2>2 DEF Refused
    <3>2. budget'.failures = budget.failures - 1 /\ budget.failures \in Nat
      BY <3>1 DEF WriteFails, TypeOK, Budget
    <3>3. QED
      BY <1>8, <3>2, ConstantsAssumption DEF FailureBudget
  <2>3. CASE mem.st # before /\ cacheFresh' = (cacheFresh /\ rmq.st = mem.st)
    BY <1>4, <2>3
  <2>4. QED
    BY <2>1, <2>2, <2>3 DEF deferredStatusUpdate
<1>9. mem.spec.replicas \in Nat
  BY ConstantsAssumption DEF TypeOK, Cluster, ClusterSpec
<1>10. mem.st.ready = "True"
  BY <1>4, <1>9 DEF AllReplicasReadyCondition, AllUp
<1>11. AllUp'
  BY <1>4, <1>5, SameConditions
<1>12. QED
  BY <1>4, <1>7, <1>8, <1>10, <1>11 DEF Observed

\* An idle operator misses nothing: what changes a copy it reads queues the cluster,
\* and what changes the cluster is followed by a watch event.
LEMMA IdleKept ==
    ASSUME TypeOK, QuietInv, [Next]_vars, ~deferredStatusUpdate
    PROVE  IdleCarried' /\ IdleObserved'
<1> SUFFICES ASSUME pc' = "idle", ~queued', cacheFresh'
             PROVE  IdleCarried' /\ IdleObserved'
  BY DEF IdleCarried, IdleObserved, Idle
<1>1. \/ UserWritesSecret \/ tick \/ UNCHANGED vars
      \/ \E i \in Node : NodeStep(i) \/ podFail(i)
  <2>1. CASE addFinalizer \/ reconcilePaused \/ reconcileOperatorDefaults
             \/ reconcileStatusConditions \/ reconcileTLS \/ reconcileQueueRebalanced
             \/ reconcileScaleDown \/ waitResourceReady \/ buildFails \/ buildDone
             \/ noRestartNeeded \/ reconcileStatus \/ reconcileRabbitmqCLI
             \/ featureFlagsDone \/ reconcileSuccess \/ getRabbitmqCluster
    BY <2>1 DEF addFinalizer, reconcilePaused, reconcileOperatorDefaults,
                reconcileStatusConditions, reconcileTLS, reconcileQueueRebalanced,
                reconcileScaleDown, waitResourceReady, buildFails, buildDone,
                noRestartNeeded, reconcileStatus, reconcileRabbitmqCLI,
                featureFlagsDone, reconcileSuccess, getRabbitmqCluster,
                UpdateCluster, updateStatus, Return, Continue
  <2>2. CASE buildBase \/ buildPlugins \/ buildServer \/ buildRbac
             \/ \E i \in Node : buildSts(i)
    BY <2>2 DEF buildBase, buildPlugins, buildServer, buildRbac, buildSts, Built
  <2>3. CASE \E i \in Node : restartStatefulSetIfNeeded(i)
    BY <2>3 DEF restartStatefulSetIfNeeded
  <2>4. CASE annotatePlugins \/ annotateServer \/ annotateSts
             \/ runSetPluginsCommand \/ removePluginsConfigUpdatedFlag
             \/ (\E i \in Node : runEnableFeatureFlagsCommand(i))
             \/ runQueueRebalanceCommand \/ panicGetChildResources \/ Crash
    BY <2>4 DEF runEnableFeatureFlagsCommand, CLIFails,
                annotatePlugins, annotateServer, annotateSts, Annotated,
                runSetPluginsCommand, removePluginsConfigUpdatedFlag,
                runQueueRebalanceCommand, panicGetChildResources, Crash, Restarted
  <2>5. CASE cacheSync \/ ChildSync \/ UserEditsSpec \/ UserPauses
    <3>1. CASE ChildSync
      BY <3>1, ChildSyncEffect, TypeParts
    <3>2. CASE UserEditsSpec \/ UserPauses
      <4>1. PICK obj : UserWrites(obj)
        BY <3>2, Zenon DEF UserEditsSpec, UserPauses
      <4>2. QED
        BY <4>1 DEF UserWrites
    <3>3. QED
      BY <2>5, <3>1, <3>2 DEF cacheSync
  <2>6. QED
    BY <2>1, <2>2, <2>3, <2>4, <2>5, Zenon DEF Next, OperatorStep
<1>2. UNCHANGED <<rmq, cacheFresh, pc, queued>> /\ cached' = cached
      /\ budget'.failures = budget.failures
  <2>1. CASE \E i \in Node : NodeStep(i) \/ podFail(i)
    <3>1. UNCHANGED <<rmqVars, pc, view>> /\ Changed
      BY <2>1, Zenon DEF NodeStep, stsObserve, podStop, podStart, podFail, NodeEvent
    <3>2. budget' = budget \/ budget' = [budget EXCEPT !.pods = @ - 1]
      BY <2>1, Zenon DEF NodeStep, stsObserve, podStop, podStart, podFail
    <3>3. QED
      BY <3>1, <3>2 DEF cached, Changed, rmqVars, TypeOK, Budget
  <2>2. CASE UserWritesSecret \/ tick \/ UNCHANGED vars
    <3>1. /\ UNCHANGED <<rmqVars, pc, queued, childVars, sts, view, pod>>
          /\ budget'.failures = budget.failures
      BY <2>2 DEF UserWritesSecret, tick, vars, nodeVars, envVars, TypeOK, Budget
    <3>2. QED
      BY <3>1, SameCopiesRead DEF rmqVars
  <2>3. QED
    BY <1>1, <2>1, <2>2
<1>3. IdleCarried'
  BY <1>2 DEF QuietInv, IdleCarried, Idle, Carried
<1>4. AllUp' = AllUp
  BY <1>2, SameConditions
<1>5. IdleObserved'
  BY <1>2, <1>4 DEF QuietInv, IdleObserved, Idle, Observed
<1>6. QED
  BY <1>3, <1>5

\* What a quiet reconcile and an idle operator know is an invariant.
LEMMA QuietInvariance == Spec => []QuietInv
<1>1. Init => QuietInv
  BY ConstantsAssumption
     DEF Init, QuietInv, QuietMem, QuietReady, QuietCarried, QuietUp, QuietSuccess,
         Quiet, FailureBudget, IdleCarried, IdleObserved, Idle
<1>2. IndInv /\ TypeOK' /\ QuietInv /\ [Next]_vars => QuietInv'
  <2> SUFFICES ASSUME IndInv, TypeOK', QuietInv, [Next]_vars PROVE QuietInv'
    OBVIOUS
  <2>1. QuietMem' /\ QuietReady' /\ QuietCarried' /\ QuietUp' /\ QuietSuccess'
    BY QuietKept DEF IndInv
  <2>2. IdleCarried' /\ IdleObserved'
    BY QuietEnd, IdleKept DEF IndInv
  <2>3. budget.failures \in Nat /\ budget'.failures \in Nat
    BY DEF IndInv, TypeOK, Budget
  <2>4. FailureBudget'
    BY <2>3, BudgetStep, ConstantsAssumption DEF IndInv, QuietInv, FailureBudget
  <2>5. QED
    BY <2>1, <2>2, <2>4 DEF QuietInv
<1>3. QED
  BY <1>1, <1>2, Invariance, TypeCorrect, PTL DEF Spec

\* At rest the copies are current.
LEMMA RestIsCurrent ==
    ASSUME AtRest
    PROVE  /\ Idle /\ cached = current
           /\ Listed = Existing /\ (AllUp <=> \A i \in Existing : pod[i].up)
<1>1. Idle /\ cached = current
  BY DEF AtRest, Idle, cached
<1>2. Listed = Existing
  BY <1>1 DEF Listed, Existing, current
<1>3. \A i \in Existing : cached.up[i] = pod[i].up
  BY <1>1 DEF current, Existing
<1>4. QED
  BY <1>1, <1>2, <1>3 DEF AllUp

\* When the operator is idle, the work queue is empty, no event is on its way and no
\* write has failed, the current generation has been reconciled and reported, all
\* pods are up and AllReplicasReady is True.
THEOREM NoLostWakeup == Spec => []QuiescentMeansObserved
<1>1. QuietInv => QuiescentMeansObserved
  BY RestIsCurrent DEF QuietInv, IdleObserved, QuiescentMeansObserved
<1>2. QED
  BY <1>1, QuietInvariance, PTL

\* However old the copies of the children have been, and whatever has crashed or
\* failed, the operator is not at rest before every child carries the current spec.
THEOREM RestApplied == Spec => []RestMeansApplied
<1>1. QuietInv => RestMeansApplied
  <2> SUFFICES ASSUME QuietInv, AtRest PROVE Applied(rmq.spec)
    BY DEF RestMeansApplied
  <2>1. Carried(rmq.spec) /\ cached = current
    BY RestIsCurrent DEF QuietInv, IdleCarried
  <2>2. QED
    BY <2>1 DEF Carried, Applied, current
<1>2. QED
  BY <1>1, QuietInvariance, PTL

=============================================================================
