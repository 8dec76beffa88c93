---------------------------- MODULE RollOut_proofs ----------------------------
(***************************************************************************)
(* The roll-out of RabbitmqClusterReconciler, when neither the status of a *)
(* StatefulSet lags behind its spec nor the copies of the children behind  *)
(* the children: it disturbs one node at a time, the queues are rebalanced *)
(* after it, and it implements RollingUpdate.                              *)
(***************************************************************************)
EXTENDS RabbitmqClusterReconciler_proofs

\* What the roll-out depends on of a node.
Facts(i) == <<sts[i].ex, sts[i].template, sts[i].restartAt, sts[i].seen,
              sts[i].updating, pod[i].up, pod[i].template, pod[i].restartAt>>

\* A step that leaves the nodes as they are; it gets to the builders only from
\* them, or through waitResourceReady.
Elsewhere ==
    /\ \A i \in Node : Facts(i)' = Facts(i)
    /\ pc' \in PostWait => pc \in PostWait \/ allReplicasReadyAndUpdated

\* A step that writes the StatefulSet of a node.
Written(i) ==
    /\ pc \in PostWait /\ pc' \notin PostWait
    /\ \E new \in StatefulSet :
          /\ new.ex /\ new.seen = sts[i].seen /\ new.updating = sts[i].updating
          /\ sts' = [sts EXCEPT ![i] = Templated(@, new)]
    /\ pod' = pod

\* The ways a step can affect the nodes.
LEMMA RollOutSteps ==
    ASSUME ChildLag = FALSE, TypeOK, [Next]_vars
    PROVE  \/ Elsewhere
           \/ \E i \in Node : Written(i)
           \/ \E i \in Node : (NodeStep(i) \/ podFail(i)) /\ pc' = pc
<1> USE DEF PostWait
<1>1. CASE \E i \in Node : NodeStep(i) \/ podFail(i)
  BY <1>1 DEF NodeStep, stsObserve, podStop, podStart, podFail, NodeEvent
<1>2. CASE \E i \in Node : buildSts(i)
  <2>1. PICK i \in Node : buildSts(i)
    BY <1>2
  <2>2. wantSts(i) \in StatefulSet /\ wantSts(i).ex
    BY WantedType, WantedFields
  <2>3. cached.sts[i] = sts[i] /\ sts[i] \in StatefulSet
    BY CachedIsCurrent DEF TypeOK
  <2>4. wantSts(i).seen = sts[i].seen /\ wantSts(i).updating = sts[i].updating
    BY <2>3 DEF wantSts, StatefulSet
  <2>5. /\ pc = "build" /\ pc' \in {"return", "annotateSts"} /\ pod' = pod
        /\ sts' = [sts EXCEPT ![i] = Templated(@, wantSts(i))]
    BY <2>1 DEF buildSts, Built
  <2>6. Written(i)
    BY <2>2, <2>4, <2>5 DEF Written
  <2>7. QED
    BY <2>6
<1>3. CASE \E i \in Node : restartStatefulSetIfNeeded(i)
  <2>1. PICK i \in Node : restartStatefulSetIfNeeded(i)
    BY <1>3
  <2> DEFINE new == [sts[i] EXCEPT !.restartAt = now]
  <2>2. new \in StatefulSet /\ new.seen = sts[i].seen /\ new.updating = sts[i].updating
    BY DEF TypeOK, StatefulSet, Time
  <2>3. new.ex
    BY <2>1, CachedIsCurrent
       DEF restartStatefulSetIfNeeded, NeedsRestart, TypeOK, StatefulSet
  <2>4. CASE UNCHANGED sts
    BY <2>1, <2>4 DEF restartStatefulSetIfNeeded, Elsewhere, Facts
  <2>5. CASE sts' = [sts EXCEPT ![i] = Templated(@, [@ EXCEPT !.restartAt = now])]
    <3>1. sts' = [sts EXCEPT ![i] = Templated(@, new)]
      BY <2>5
    <3>2. pc = "restart" /\ pc' = "return" /\ pod' = pod
      BY <2>1 DEF restartStatefulSetIfNeeded
    <3> HIDE DEF new
    <3>3. Written(i)
      BY <2>2, <2>3, <3>1, <3>2 DEF Written
    <3>4. QED
      BY <3>3
  <2>6. QED
    BY <2>1, <2>4, <2>5 DEF restartStatefulSetIfNeeded
<1>4. CASE annotatePlugins \/ annotateServer \/ annotateSts
  <2>1. pc' = "return" /\ pod' = pod
    BY <1>4 DEF annotatePlugins, annotateServer, annotateSts, Annotated
  <2>2. sts' = sts \/ sts' = [sts EXCEPT ![idx].created = TRUE]
    BY <1>4 DEF annotatePlugins, annotateServer, annotateSts, Annotated
  <2>3. \A i \in Node : Facts(i)' = Facts(i)
    BY <2>1, <2>2 DEF Facts, TypeOK, StatefulSet
  <2>4. QED
    BY <2>1, <2>3 DEF Elsewhere
<1>5. CASE runSetPluginsCommand
  <2>1. (pc' = pc \/ pc' = "return") /\ sts' = sts
    BY <1>5 DEF runSetPluginsCommand, CLIFails, nodeVars
  <2>2. pod' = pod \/ pod' = [pod EXCEPT ![idx].plugins = mem.spec.plugins]
    BY <1>5 DEF runSetPluginsCommand, CLIFails, nodeVars
  <2>3. \A i \in Node : Facts(i)' = Facts(i)
    BY <2>1, <2>2 DEF Facts, TypeOK, Pod
  <2>4. QED
    BY <2>1, <2>3 DEF Elsewhere
<1>6. CASE \E i \in Node : runEnableFeatureFlagsCommand(i)
  <2>1. PICK i \in Node : runEnableFeatureFlagsCommand(i)
    BY <1>6
  <2>2. (pc' = pc \/ pc' = "return") /\ pod' = pod
    BY <2>1, Zenon DEF runEnableFeatureFlagsCommand, CLIFails, nodeVars
  <2>3. sts' = sts \/ sts' = [sts EXCEPT ![i].created = FALSE]
    BY <2>1, Zenon DEF runEnableFeatureFlagsCommand, CLIFails, nodeVars
  <2>4. \A j \in Node : Facts(j)' = Facts(j)
    BY <2>2, <2>3 DEF Facts, TypeOK, StatefulSet
  <2>5. QED
    BY <2>2, <2>4 DEF Elsewhere
<1>7. CASE /\ UNCHANGED <<sts, pod>>
           /\ pc' \in PostWait => pc \in PostWait \/ allReplicasReadyAndUpdated
  BY <1>7 DEF Elsewhere, Facts
<1>a. CASE NoChildWrite /\ (pc' \in PostWait => pc \in PostWait \/ allReplicasReadyAndUpdated)
  BY <1>7, <1>a DEF NoChildWrite, nodeVars
<1>8. CASE waitResourceReady \/ buildDone \/ noRestartNeeded \/ featureFlagsDone
  <2>1. pc' \in PostWait => pc \in PostWait \/ allReplicasReadyAndUpdated
    BY <1>8 DEF waitResourceReady, buildDone, noRestartNeeded, featureFlagsDone, Continue
  <2>2. QED
    BY <1>8, <1>a, <2>1, NoChildWriteSteps
<1>9. CASE addFinalizer \/ reconcilePaused \/ reconcileOperatorDefaults
           \/ reconcileStatusConditions \/ reconcileTLS
  <2>1. pc' \notin PostWait
    BY <1>9 DEF addFinalizer, reconcilePaused, reconcileOperatorDefaults,
                reconcileStatusConditions, reconcileTLS, Continue, Return,
                UpdateCluster, updateStatus
  <2>2. QED
    BY <1>9, <1>a, <2>1, NoChildWriteSteps
<1>10. CASE reconcileQueueRebalanced \/ reconcileScaleDown \/ reconcileStatus
  <2>1. pc' \notin PostWait \/ pc \in PostWait
    BY <1>10 DEF reconcileQueueRebalanced, reconcileScaleDown, reconcileStatus,
                 Continue, Return, UpdateCluster, updateStatus
  <2>2. QED
    BY <1>10, <1>a, <2>1, NoChildWriteSteps
<1>11. CASE buildBase \/ buildPlugins \/ buildServer \/ buildRbac \/ buildFails
  <2>1. CASE buildFails
    BY <1>a, <2>1, NoChildWriteSteps DEF buildFails
  <2>2. (UNCHANGED <<sts, pod>> /\ pc = "build") \/ buildFails
    BY <1>11, Zenon DEF buildBase, buildPlugins, buildServer, buildRbac, Built
  <2>3. QED
    BY <1>7, <2>1, <2>2
<1>12. CASE reconcileRabbitmqCLI \/ removePluginsConfigUpdatedFlag
  <2>1. UNCHANGED <<sts, pod>> /\ pc \in {"cli", "cliPlugins"}
    BY <1>12 DEF reconcileRabbitmqCLI, removePluginsConfigUpdatedFlag, CLIFails, nodeVars
  <2>2. QED
    BY <1>7, <2>1
<1>13. CASE runQueueRebalanceCommand \/ reconcileSuccess \/ deferredStatusUpdate
  <2>1. UNCHANGED <<sts, pod>> /\ (pc = "cliRebalance" \/ pc' = "idle")
    BY <1>13 DEF runQueueRebalanceCommand, reconcileSuccess, deferredStatusUpdate,
                 CLIFails, NoChildWrite, nodeVars
  <2>2. QED
    BY <1>7, <2>1
<1>14. CASE getRabbitmqCluster \/ panicGetChildResources \/ Crash
  BY <1>7, <1>14
     DEF getRabbitmqCluster, panicGetChildResources, Crash, Restarted, nodeVars
<1>15. CASE cacheSync \/ ChildSync \/ UserEditsSpec \/ UserPauses \/ UserWritesSecret \/ tick
  <2>1. CASE ChildSync
    BY <1>7, <2>1, ChildSyncEffect, TypeParts
  <2>2. CASE UserEditsSpec \/ UserPauses
    <3>1. PICK obj : UserWrites(obj)
      BY <2>2, Zenon DEF UserEditsSpec, UserPauses
    <3>2. QED
      BY <1>7, <3>1 DEF UserWrites, nodeVars
  <2>3. CASE cacheSync \/ UserWritesSecret \/ tick
    BY <1>7, <2>3 DEF cacheSync, UserWritesSecret, tick, nodeVars
  <2>4. QED
    BY <1>15, <2>1, <2>2, <2>3
<1>16. CASE UNCHANGED vars
  BY <1>7, <1>16 DEF vars, nodeVars
<1>17. QED
  BY <1>1, <1>2, <1>3, <1>4, <1>5, <1>6, <1>8, <1>9, <1>10, <1>11, <1>12, <1>13,
     <1>14, <1>15, <1>16, Zenon
     DEF Next, OperatorStep

-----------------------------------------------------------------------------
\* The initial states satisfy the invariant of the roll-out: no node exists.
LEMMA InitRoll == Init => RollInv
BY DEF Init, RollInv, OneNodeAtATime, Outdated, RunsTemplate, NoSts, NoPod

\* A StatefulSet that is written with another template is being updated.
LEMMA TemplatedFacts ==
    ASSUME StsLag = FALSE, NEW old \in StatefulSet, NEW new \in StatefulSet,
           new.ex, new.seen = old.seen, new.updating = old.updating
    PROVE  LET res == Templated(old, new) IN
           /\ res.ex /\ res.seen = old.seen
           /\ res.template = new.template /\ res.restartAt = new.restartAt
           /\ \/ ~old.ex
              \/ /\ res.template = old.template /\ res.restartAt = old.restartAt
                 /\ res.updating = old.updating
              \/ res.updating
BY DEF Templated, StatefulSet

\* While a StatefulSet is written no other node is outdated, and the write shows.
LEMMA WrittenRoll ==
    ASSUME StsLag = FALSE, TypeOK, RollInv, NEW i \in Node, Written(i)
    PROVE  RollInv'
<1>1. PICK new \in StatefulSet :
         /\ new.ex /\ new.seen = sts[i].seen /\ new.updating = sts[i].updating
         /\ sts' = [sts EXCEPT ![i] = Templated(@, new)]
  BY DEF Written
<1>2. sts[i] \in StatefulSet /\ sts \in [Node -> StatefulSet]
  BY DEF TypeOK
<1>3. pod' = pod /\ pc' \notin PostWait /\ \A j \in Node : ~Outdated(j)
  BY DEF Written, RollInv
<1>4. \A j \in Node : j # i => sts'[j] = sts[j]
  BY <1>1, <1>2
<1>5. sts'[i] = Templated(sts[i], new)
  BY <1>1, <1>2
<1>6. /\ sts'[i].ex /\ sts'[i].seen = sts[i].seen
      /\ \/ ~sts[i].ex
         \/ /\ sts'[i].template = sts[i].template
            /\ sts'[i].restartAt = sts[i].restartAt
            /\ sts'[i].updating = sts[i].updating
         \/ sts'[i].updating
  BY <1>1, <1>2, <1>5, TemplatedFacts
<1>7. \A j \in Node : j # i => ~Outdated(j)'
  BY <1>3, <1>4 DEF Outdated, RunsTemplate
<1>8. Outdated(i)' => sts'[i].updating \/ ~pod'[i].up
  BY <1>3, <1>6 DEF RollInv, Outdated, RunsTemplate
<1>9. \A j \in Node : sts'[j].seen
  BY <1>4, <1>6 DEF RollInv
<1>10. \A j \in Node : ~sts'[j].ex => RunsTemplate(j)' /\ ~pod'[j].up
  BY <1>3, <1>4, <1>6 DEF RollInv, RunsTemplate
<1>11. QED
  BY <1>3, <1>7, <1>8, <1>9, <1>10 DEF RollInv, OneNodeAtATime

\* The StatefulSet controller and failing pods make no node outdated.
LEMMA NodeStepRoll ==
    ASSUME TypeOK, RollInv, NEW i \in Node, NodeStep(i) \/ podFail(i), pc' = pc
    PROVE  RollInv'
<1> USE DEF TypeOK, StatefulSet, Pod, RollInv, OneNodeAtATime, Outdated, RunsTemplate
<1>1. CASE stsObserve(i)
  BY <1>1 DEF stsObserve
<1>2. CASE podStop(i)
  BY <1>2 DEF podStop
<1>3. CASE podStart(i)
  BY <1>3 DEF podStart
<1>4. CASE podFail(i)
  BY <1>4 DEF podFail
<1>5. QED
  BY <1>1, <1>2, <1>3, <1>4 DEF NodeStep

\* A step that leaves the nodes alone keeps the invariant; waitResourceReady only
\* goes on when no node is outdated.
LEMMA ElsewhereRoll ==
    ASSUME ChildLag = FALSE, TypeOK, RollInv, Elsewhere PROVE RollInv'
<1>1. allReplicasReadyAndUpdated => \A i \in Node : ~Outdated(i)
  BY CachedIsCurrent
     DEF allReplicasReadyAndUpdated, statefulSetBeingUpdated, Existing, RollInv, Outdated
<1>2. \A i \in Node :
         /\ sts'[i].ex = sts[i].ex /\ sts'[i].seen = sts[i].seen
         /\ sts'[i].updating = sts[i].updating /\ pod'[i].up = pod[i].up
         /\ RunsTemplate(i)' <=> RunsTemplate(i)
  BY DEF Elsewhere, Facts, RunsTemplate
<1>3. QED
  BY <1>1, <1>2 DEF Elsewhere, RollInv, OneNodeAtATime, Outdated

\* The invariant of the roll-out is inductive, if nothing lags.
LEMMA RollStep ==
    ASSUME StsLag = FALSE, ChildLag = FALSE, TypeOK, RollInv, [Next]_vars
    PROVE  RollInv'
BY RollOutSteps, WrittenRoll, NodeStepRoll, ElsewhereRoll

\* Whatever is rolled out, with any number of edits, crashes, failed writes and
\* failing pods, at most one node is outdated at a time.
THEOREM OneAtATime ==
    ASSUME StsLag = FALSE, ChildLag = FALSE
    PROVE  Spec => []OneNodeAtATime
<1>1. Init => RollInv
  BY InitRoll
<1>2. TypeOK /\ RollInv /\ [Next]_vars => RollInv'
  BY RollStep
<1>3. RollInv => OneNodeAtATime
  BY DEF RollInv
<1>4. QED
  BY <1>1, <1>2, <1>3, TypeCorrect, PTL DEF Spec

-----------------------------------------------------------------------------
(***************************************************************************)
(* The marker that asks for a rebalance of the queues, on the three copies *)
(* of the cluster.                                                         *)
(***************************************************************************)
\* It is set while a node is updated, in a reconcile that then returns, and removed
\* after the command.
MarkerSet == /\ pc = "rebalance" /\ pc' = "return"
             /\ \E i \in Node : cached.sts[i].ex /\ cached.sts[i].updating
MarkerRemoved == pc = "cliRebalance" /\ pc' = "cliRebalance" /\ memFresh

MarkerStep ==
    /\ \/ rmq'.rebal = rmq.rebal
       \/ (MarkerSet /\ rmq'.rebal # 0) \/ (MarkerRemoved /\ rmq'.rebal = 0)
    /\ \/ mem'.rebal = mem.rebal \/ MarkerSet \/ (MarkerRemoved /\ mem'.rebal = 0)
       \/ pc' = "idle" /\ mem'.rebal = 0
       \/ getRabbitmqCluster
    /\ cache'.rebal \in {cache.rebal, rmq.rebal}
    /\ memFresh' => memFresh \/ getRabbitmqCluster

\* A write of the cluster with the marker mem has leaves it as it was.
LEMMA SameMarker ==
    ASSUME TypeOK, FreshInv, NEW obj \in Cluster, obj.rebal = mem.rebal,
           \/ Store(obj)
           \/ Refused /\ UNCHANGED memFresh /\ (mem' = mem \/ mem' = obj)
    PROVE  MarkerStep
BY DEF Store, Refused, rmqVars, FreshInv, MarkerStep

\* Every step does one of these things to the marker.
LEMMA MarkerSteps ==
    ASSUME TypeOK, FreshInv, [Next]_vars
    PROVE  MarkerStep
<1>a. mem \in Cluster /\ rmq \in Cluster /\ now # 0 /\ rmq.st \in ClusterStatus
      /\ mem.st \in ClusterStatus
  BY DEF TypeOK, Cluster
<1>b. Blank.rebal = 0
  BY DEF Blank, NewCluster
<1>c. CASE UNCHANGED <<rmq, cache, mem, memFresh>>
  BY <1>c DEF MarkerStep
<1>d. ASSUME NEW obj \in Cluster, obj.rebal = mem.rebal, UpdateCluster(obj, "return")
      PROVE  MarkerStep
  <2>1. [obj EXCEPT !.st = rmq.st] \in Cluster /\ [obj EXCEPT !.st = rmq.st].rebal = mem.rebal
    BY <1>a, <1>d DEF Cluster
  <2>2. QED
    BY <1>d, <2>1, SameMarker DEF UpdateCluster, memVars
<1>e. ASSUME NEW st \in ClusterStatus, updateStatus(st) \/ Return(st) PROVE MarkerStep
  <2>1. [mem EXCEPT !.st = st] \in Cluster /\ [mem EXCEPT !.st = st].rebal = mem.rebal
    BY <1>a, <1>e DEF Cluster
  <2>2. CASE updateStatus(st)
    BY <2>1, <2>2, SameMarker DEF updateStatus
  <2>3. CASE Return(st)
    BY <2>1, <2>3 DEF Return, rmqVars, MarkerStep
  <2>4. QED
    BY <1>e, <2>2, <2>3
<1>f. CASE /\ UNCHANGED <<rmqVars, memFresh>>
           /\ \E st : mem' = [mem EXCEPT !.st = st]
  BY <1>a, <1>f DEF MarkerStep, rmqVars, Cluster
<1>1. CASE addFinalizer
  <2>1. /\ [mem EXCEPT !.finalizer = TRUE] \in Cluster
        /\ [mem EXCEPT !.finalizer = TRUE].rebal = mem.rebal
    BY <1>a DEF Cluster
  <2>2. QED
    BY <1>1, <1>c, <1>d, <2>1 DEF addFinalizer, Continue, rmqVars, memVars
<1>2. CASE reconcileOperatorDefaults
  <2> DEFINE spec == [mem.spec EXCEPT !.image = DefaultImage]
             gen == IF spec = mem.spec THEN mem.gen ELSE mem.gen + 1
             obj == [mem EXCEPT !.spec = spec, !.gen = gen]
  <2>1. spec \in ClusterSpec /\ gen \in Nat
    BY <1>a, ConstantsAssumption DEF Cluster, ClusterSpec
  <2>2. obj \in Cluster /\ obj.rebal = mem.rebal
    BY <1>a, <2>1 DEF Cluster
  <2>3. Continue("conditions") \/ UpdateCluster(obj, "return")
    BY <1>2 DEF reconcileOperatorDefaults
  <2> HIDE DEF spec, gen, obj
  <2>4. QED
    BY <1>c, <1>d, <2>2, <2>3 DEF Continue, rmqVars, memVars
<1>3. CASE reconcileQueueRebalanced
  <2>1. CASE Continue("scaledown")
    BY <1>c, <2>1 DEF Continue, rmqVars, memVars
  <2>2. CASE /\ \E i \in Listed : statefulSetNeedsQueueRebalance(i)
             /\ UpdateCluster([mem EXCEPT !.rebal = now], "return")
    <3>1. MarkerSet
      BY <1>3, <2>2 DEF MarkerSet, reconcileQueueRebalanced, UpdateCluster, Listed,
                  statefulSetNeedsQueueRebalance, statefulSetBeingUpdated
    <3>2. [[mem EXCEPT !.rebal = now] EXCEPT !.st = rmq.st].rebal = now
      BY <1>a DEF Cluster
    <3>3. CASE Store([[mem EXCEPT !.rebal = now] EXCEPT !.st = rmq.st])
      BY <1>a, <3>1, <3>2, <3>3 DEF MarkerStep, Store
    <3>4. CASE Refused /\ UNCHANGED memVars
      BY <1>c, <3>4 DEF Refused, rmqVars, memVars
    <3>5. QED
      BY <2>2, <3>3, <3>4 DEF UpdateCluster
  <2>3. QED
    BY <1>3, <2>1, <2>2 DEF reconcileQueueRebalanced
<1>4. CASE reconcileStatusConditions
  <2>1. PICK ready \in AllReplicasReadyCondition :
          \/ Continue("tls") \/ updateStatus(SetConditions(mem.st, ready))
    BY <1>4 DEF reconcileStatusConditions
  <2>a. ClusterAvailableCondition \in {"False", "Unknown"}
    BY DEF ClusterAvailableCondition
  <2>b. ready \in {"True", "False", "Unknown"}
    BY DEF AllReplicasReadyCondition
  <2>2. SetConditions(mem.st, ready) \in ClusterStatus
    BY <1>a, <2>a, <2>b DEF SetConditions, ClusterStatus, SuccessReason
  <2>3. QED
    BY <1>c, <1>e, <2>1, <2>2 DEF Continue, rmqVars, memVars
<1>5. CASE reconcileStatus
  <2> DEFINE n == IF mem.spec.replicas > mem.st.replicas
                  THEN mem.spec.replicas ELSE mem.st.replicas
             st == [mem.st EXCEPT !.replicas = n, !.user = TRUE]
  <2>1. n \in 0..MaxReplicas
    BY <1>a, ConstantsAssumption DEF Cluster, ClusterSpec, ClusterStatus
  <2>2. st \in ClusterStatus
    BY <1>a, <2>1 DEF ClusterStatus
  <2>3. Continue("cli") \/ updateStatus(st)
    BY <1>5 DEF reconcileStatus
  <2>4. QED
    BY <1>c, <1>e, <2>2, <2>3 DEF Continue, rmqVars, memVars
<1>6. CASE reconcilePaused \/ reconcileTLS \/ reconcileScaleDown
  <2>1. \/ UNCHANGED <<rmq, cache, mem, memFresh>>
        \/ UNCHANGED <<rmqVars, memFresh>> /\ \E st : mem' = [mem EXCEPT !.st = st]
    BY <1>6 DEF reconcilePaused, reconcileTLS, reconcileScaleDown, Continue, Return,
                rmqVars, memVars
  <2>2. QED
    BY <1>c, <1>f, <2>1
<1>7. CASE buildFails \/ reconcileSuccess
  BY <1>f, <1>7 DEF buildFails, reconcileSuccess
<1>8. CASE runSetPluginsCommand \/ removePluginsConfigUpdatedFlag
           \/ \E i \in Node : runEnableFeatureFlagsCommand(i)
  <2>1. CLIFails \/ UNCHANGED <<rmq, cache, mem, memFresh>>
    BY <1>8 DEF runSetPluginsCommand, removePluginsConfigUpdatedFlag,
                runEnableFeatureFlagsCommand, rmqVars, memVars
  <2>2. QED
    BY <1>c, <1>f, <2>1 DEF CLIFails
<1>9. CASE runQueueRebalanceCommand
  <2> DEFINE obj == [mem EXCEPT !.rebal = 0, !.st = rmq.st]
  <2>1. CASE CLIFails
    BY <1>f, <2>1 DEF CLIFails
  <2>2. CASE Store(obj) /\ pc = "cliRebalance" /\ pc' = "cliRebalance"
    <3>1. obj.rebal = 0
      BY <1>a DEF Cluster
    <3>2. QED
      BY <2>2, <3>1 DEF Store, MarkerStep, MarkerRemoved
  <2>3. QED
    BY <1>9, <2>1, <2>2 DEF runQueueRebalanceCommand
<1>10. CASE deferredStatusUpdate
  <2>1. rmq'.rebal = rmq.rebal
    BY <1>10, <1>a DEF deferredStatusUpdate, Refused, rmqVars, Cluster
  <2>2. QED
    BY <1>10, <1>b, <2>1 DEF deferredStatusUpdate, Refused, rmqVars, MarkerStep
<1>11. CASE panicGetChildResources \/ Crash
  BY <1>11, <1>b DEF panicGetChildResources, Crash, Restarted, MarkerStep
<1>12. CASE getRabbitmqCluster
  BY <1>12 DEF getRabbitmqCluster, MarkerStep, rmqVars
<1>13. CASE cacheSync
  BY <1>13 DEF cacheSync, MarkerStep, memVars
<1>14. CASE UserEditsSpec \/ UserPauses
  <2>1. \A spec, gen : [rmq EXCEPT !.spec = spec, !.gen = gen].rebal = rmq.rebal
    BY <1>a DEF Cluster
  <2>2. \A b : [rmq EXCEPT !.paused = b].rebal = rmq.rebal
    BY <1>a DEF Cluster
  <2>3. CASE UserEditsSpec
    <3>1. PICK spec : UserWrites([rmq EXCEPT !.spec = spec, !.gen = @ + 1])
      BY <2>3, Zenon DEF UserEditsSpec
    <3>2. QED
      BY <2>1, <3>1 DEF UserWrites, MarkerStep
  <2>4. CASE UserPauses
    BY <2>2, <2>4 DEF UserPauses, UserWrites, MarkerStep
  <2>5. QED
    BY <1>14, <2>3, <2>4
<1>15. CASE waitResourceReady \/ buildDone \/ noRestartNeeded \/ reconcileRabbitmqCLI
           \/ featureFlagsDone \/ UserWritesSecret \/ tick
           \/ buildBase \/ buildPlugins \/ buildServer \/ buildRbac
           \/ annotatePlugins \/ annotateServer \/ annotateSts
  <2>1. UNCHANGED <<rmqVars, memVars>>
    BY <1>15, Zenon
       DEF waitResourceReady, buildDone, noRestartNeeded, reconcileRabbitmqCLI,
           featureFlagsDone, Continue, UserWritesSecret, tick, buildBase, buildPlugins,
           buildServer, buildRbac, Built, annotatePlugins, annotateServer, annotateSts,
           Annotated
  <2>2. QED
    BY <1>c, <2>1 DEF rmqVars, memVars
<1>16. CASE (\E i \in Node : buildSts(i) \/ restartStatefulSetIfNeeded(i)
                              \/ NodeStep(i) \/ podFail(i))
            \/ ChildSync \/ UNCHANGED vars
  <2>1. UNCHANGED <<rmqVars, memVars>> \/ ChildSync \/ UNCHANGED vars
    BY <1>16, Zenon
       DEF buildSts, Built, restartStatefulSetIfNeeded, NodeStep, stsObserve, podStop,
           podStart, podFail, NodeEvent
  <2>2. UNCHANGED <<rmqVars, memVars>>
    BY <2>1, ChildSyncEffect, TypeParts DEF vars
  <2>3. QED
    BY <1>c, <2>2 DEF rmqVars, memVars
<1>17. QED
  BY <1>1, <1>2, <1>3, <1>4, <1>5, <1>6, <1>7, <1>8, <1>9, <1>10, <1>11, <1>12,
     <1>13, <1>14, <1>15, <1>16, Zenon DEF Next, OperatorStep

\* The marker that asks for a rebalance of the queues is removed only once every node
\* runs its template, which is that of the current spec, whatever was edited,
\* crashed or failed since it was set.
THEOREM RebalancedLast ==
    ASSUME StsLag = FALSE, ChildLag = FALSE
    PROVE  Spec => RebalanceAfterRollout
<1> DEFINE Over == \A i \in Node : i < rmq.spec.replicas =>
                      RunsTemplate(i) /\ sts[i].template = podTemplate(rmq.spec)
<1>1. TypeOK /\ RollInv /\ [Next]_vars => RollInv'
  BY RollStep
<1>2. IndInv /\ AppliedInv /\ RollInv /\ [Next]_vars => (rmq.rebal # 0 /\ rmq'.rebal = 0 => Over)
  <2> SUFFICES ASSUME IndInv, AppliedInv, RollInv, [Next]_vars, rmq.rebal # 0, rmq'.rebal = 0
               PROVE  Over
    OBVIOUS
  <2>a. MarkerStep
    BY MarkerSteps DEF IndInv
  <2>1. pc = "cliRebalance" /\ memFresh
    BY <2>a DEF MarkerStep, MarkerRemoved
  <2>2. mem.spec = rmq.spec /\ Applied(mem.spec)
    BY <2>1 DEF IndInv, FreshInv, AppliedInv
  <2>3. \A i \in Node : ~Outdated(i)
    BY <2>1 DEF RollInv, PostWait
  <2>4. QED
    BY <2>2, <2>3 DEF Applied, Outdated
<1>3. QED
  BY <1>1, <1>2, InitRoll, Invariance, AppliedInvariance, TypeCorrect, PTL
     DEF Spec, RebalanceAfterRollout

-----------------------------------------------------------------------------
(***************************************************************************)
(* The refinement: the initial states of the reconciler are initial states *)
(* of RollingUpdate, and its steps are steps of RollingUpdate or leave its *)
(* variables alone.                                                        *)
(***************************************************************************)
want == [i \in Node |-> <<sts[i].template, sts[i].restartAt>>]
runs == [i \in Node |-> <<pod[i].template, pod[i].restartAt>>]
up == [i \in Node |-> pod[i].up]

\* No node exists in an initial state, and none runs.
LEMMA InitRefines == Init => Rolling!Init
BY DEF Init, Rolling!Init, NoSts, NoPod

\* What RollingUpdate calls outdated.
LEMMA SameOutdated ==
    ASSUME RollInv, NEW i \in Node PROVE Rolling!Outdated(i) <=> Outdated(i)
BY DEF Rolling!Outdated, Outdated, RunsTemplate, RollInv

\* A step that leaves the nodes alone is a stutter.
LEMMA ElsewhereRefines == Elsewhere => UNCHANGED Rolling!vars
<1> SUFFICES ASSUME Elsewhere PROVE UNCHANGED Rolling!vars
  OBVIOUS
<1>1. \A i \in Node :
         /\ sts'[i].template = sts[i].template /\ sts'[i].restartAt = sts[i].restartAt
         /\ pod'[i].template = pod[i].template /\ pod'[i].restartAt = pod[i].restartAt
         /\ pod'[i].up = pod[i].up
  BY DEF Elsewhere, Facts
<1>2. want' = want /\ runs' = runs /\ up' = up
  BY <1>1 DEF want, runs, up
<1>3. QED
  BY <1>2 DEF Rolling!vars, want, runs, up

\* A write of a StatefulSet is a change of its node.
LEMMA WrittenRefines ==
    ASSUME StsLag = FALSE, TypeOK, RollInv, NEW i \in Node, Written(i)
    PROVE  Rolling!Change(i)
<1>1. PICK new \in StatefulSet :
         /\ new.ex /\ new.seen = sts[i].seen /\ new.updating = sts[i].updating
         /\ sts' = [sts EXCEPT ![i] = Templated(@, new)]
  BY DEF Written
<1>2. sts[i] \in StatefulSet /\ sts \in [Node -> StatefulSet]
  BY DEF TypeOK
<1>3. pod' = pod
  BY DEF Written
<1>4. \A j \in Node : ~Rolling!Outdated(j)
  BY SameOutdated DEF Written, RollInv
<1>5. /\ sts'[i].template = new.template /\ sts'[i].restartAt = new.restartAt
      /\ \A j \in Node : j # i => sts'[j] = sts[j]
  BY <1>1, <1>2, TemplatedFacts
<1>6. <<new.template, new.restartAt>> \in PodTemplate \X Time
  BY DEF StatefulSet
<1>7. want' = [want EXCEPT ![i] = <<new.template, new.restartAt>>]
  BY <1>5 DEF want
<1>8. want'[i] \in PodTemplate \X Time /\ want' = [want EXCEPT ![i] = want'[i]]
  BY <1>6, <1>7 DEF want
<1>9. runs' = runs /\ up' = up
  BY <1>3 DEF runs, up
<1>10. QED
  BY <1>4, <1>8, <1>9 DEF Rolling!Change, want, runs, up

\* Pods fail by themselves only if the bound on their failures lets them.
PodBudget == budget.pods <= MaxPodFailures

\* The StatefulSet controller stops and starts pods as RollingUpdate does.
LEMMA NodeStepRefines ==
    ASSUME TypeOK, RollInv, PodBudget, NEW i \in Node, NodeStep(i) \/ podFail(i)
    PROVE  Rolling!Stop(i) \/ Rolling!Start(i)
<1> USE DEF TypeOK, StatefulSet, Pod
<1>1. CASE podStop(i)
  <2>1. pod[i].up /\ Outdated(i)
    BY <1>1 DEF podStop, Outdated
  <2>2. want' = want /\ runs' = runs /\ up' = [up EXCEPT ![i] = FALSE]
    BY <1>1 DEF podStop, want, runs, up
  <2>3. QED
    BY <2>1, <2>2, SameOutdated DEF Rolling!Stop, want, runs, up
<1>2. CASE podFail(i)
  <2>1. pod[i].up /\ MaxPodFailures > 0
    BY <1>2, ConstantsAssumption DEF podFail, PodBudget, Budget
  <2>2. want' = want /\ runs' = runs /\ up' = [up EXCEPT ![i] = FALSE]
    BY <1>2 DEF podFail, want, runs, up
  <2>3. QED
    BY <2>1, <2>2 DEF Rolling!Stop, want, runs, up
<1>3. CASE podStart(i)
  <2>1. ~pod[i].up /\ want' = want /\ up' = [up EXCEPT ![i] = TRUE]
    BY <1>3 DEF podStart, want, up
  <2>2. runs' = [runs EXCEPT ![i] = want[i]]
    BY <1>3 DEF podStart, want, runs
  <2>3. QED
    BY <2>1, <2>2 DEF Rolling!Start, want, runs, up
<1>4. CASE stsObserve(i)
  BY <1>4 DEF stsObserve, RollInv
<1>5. QED
  BY <1>1, <1>2, <1>3, <1>4 DEF NodeStep

\* Every step of the reconciler is one of RollingUpdate, or a stutter.
LEMMA StepRefines ==
    ASSUME StsLag = FALSE, ChildLag = FALSE, TypeOK, RollInv, PodBudget, [Next]_vars
    PROVE  [Rolling!Next]_(Rolling!vars)
<1>1. CASE Elsewhere
  BY <1>1, ElsewhereRefines
<1>2. CASE \E i \in Node : Written(i)
  BY <1>2, WrittenRefines DEF Rolling!Next
<1>3. CASE \E i \in Node : NodeStep(i) \/ podFail(i)
  BY <1>3, NodeStepRefines DEF Rolling!Next
<1>4. QED
  BY <1>1, <1>2, <1>3, RollOutSteps

\* The reconciler, with the API server, the StatefulSet controller, crashes, failed
\* writes and users it runs against, implements the abstract rolling update.
THEOREM Refinement ==
    ASSUME StsLag = FALSE, ChildLag = FALSE
    PROVE  Spec => ImplementsRollingUpdate
<1>1. Init => Rolling!Init /\ RollInv /\ PodBudget
  <2>1. Init => PodBudget
    BY ConstantsAssumption DEF Init, PodBudget
  <2>2. QED
    BY <2>1, InitRefines, InitRoll
<1>2. TypeOK /\ RollInv /\ [Next]_vars => RollInv'
  BY RollStep
<1>3. TypeOK /\ TypeOK' /\ PodBudget /\ [Next]_vars => PodBudget'
  BY BudgetStep, ConstantsAssumption DEF PodBudget, TypeOK, Budget
<1>4. TypeOK /\ RollInv /\ PodBudget /\ [Next]_vars => [Rolling!Next]_(Rolling!vars)
  BY StepRefines
<1>5. QED
  BY <1>1, <1>2, <1>3, <1>4, TypeCorrect, PTL DEF Spec, ImplementsRollingUpdate, Rolling!Spec

=============================================================================
