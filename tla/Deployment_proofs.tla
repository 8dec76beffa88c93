-------------------------- MODULE Deployment_proofs --------------------------
(***************************************************************************)
(* What ReconcileSuccess says of the nodes in RabbitmqClusterReconciler:   *)
(* they run the reported generation, with its feature flags enabled, if no *)
(* crash or failed write takes a marker away and no informer hides it; and *)
(* scaling out alone restarts none of them, whatever is hidden.            *)
(***************************************************************************)
EXTENDS RollOut_proofs, FiniteSetTheorems

\* The operator neither crashes nor fails to write.  The marker that a new server
\* configuration or a new StatefulSet gets is a second write: without it the restart,
\* or the command, it asks for is never done.
Uninterrupted == MaxCrashes = 0 /\ MaxFailures = 0

BudgetInv ==
    /\ budget.crashes <= MaxCrashes /\ budget.failures <= MaxFailures
    /\ budget.pods <= MaxPodFailures

NoFaults == budget.crashes = 0 /\ budget.failures = 0

\* The environment stays within its bounds.
LEMMA Bounded == Spec => []BudgetInv
<1>1. Init => BudgetInv
  BY ConstantsAssumption DEF Init, BudgetInv
<1>2. TypeOK /\ TypeOK' /\ BudgetInv /\ [Next]_vars => BudgetInv'
  BY BudgetStep, ConstantsAssumption DEF BudgetInv, TypeOK, Budget
<1>3. QED
  BY <1>1, <1>2, TypeCorrect, PTL DEF Spec

\* No faults are left to happen where none are allowed.
LEMMA Faultless == ASSUME Uninterrupted, TypeOK, BudgetInv PROVE NoFaults
BY DEF Uninterrupted, TypeOK, Budget, BudgetInv, NoFaults

-----------------------------------------------------------------------------
(***************************************************************************)
(* The steps by which the pipeline gets on.                                *)
(***************************************************************************)
Commands == {"cliPlugins", "cliFlags", "cliRebalance", "succeed"}
PluginsSet == {"cliFlags", "cliRebalance", "succeed"}
FlagsSet == {"cliRebalance", "succeed"}

\* Each part of the pipeline is entered through one step.
PcStep ==
    /\ pc' \in PostBuild => pc \in PostBuild \/ buildDone
    /\ pc' \in PostBuild \ {"restart"} =>
          pc \in PostBuild \ {"restart"} \/ noRestartNeeded
    /\ pc' \in Commands =>
          \/ pc \in Commands
          \/ /\ reconcileRabbitmqCLI /\ allReplicasReadyAndUpdated
             /\ Cardinality(Listed) = mem.spec.replicas
    /\ pc' \in PluginsSet =>
          \/ pc \in PluginsSet \/ plugins'.mark = 0
          \/ reconcileRabbitmqCLI /\ cached.plugins.mark = 0
    /\ pc' \in {"cliPlugins", "cliFlags"} =>
          \/ pc \in {"cliPlugins", "cliFlags"} /\ left' = left
          \/ \E i \in Node : runEnableFeatureFlagsCommand(i)
          \/ reconcileRabbitmqCLI /\ left' = {i \in Listed : cached.sts[i].created}
    /\ pc' \in FlagsSet => pc \in FlagsSet \/ featureFlagsDone
    /\ pc' = "cliPlugins" =>
          idx' = 0 \/ (pc = "cliPlugins" /\ (idx' = idx \/ runSetPluginsCommand))
    /\ pc' = "annotateServer" => pc = "annotateServer" \/ buildServer
    /\ pc \in {"annotateServer", "annotatePlugins", "annotateSts"} =>
          \/ pc' = pc /\ idx' = idx
          \/ annotateServer \/ annotatePlugins \/ annotateSts \/ Crash

\* What happens around the operator does not move it.
LEMMA Surroundings ==
    ASSUME TypeOK,
           \/ cacheSync \/ ChildSync \/ UserEditsSpec \/ UserPauses \/ UserWritesSecret
           \/ tick \/ (\E i \in Node : NodeStep(i) \/ podFail(i)) \/ UNCHANGED vars
    PROVE  UNCHANGED <<pc, idx, left, flags>>
<1>1. CASE ChildSync
  BY <1>1, ChildSyncEffect, TypeParts
<1>2. CASE UserEditsSpec \/ UserPauses
  <2>1. PICK obj : UserWrites(obj)
    BY <1>2, Zenon DEF UserEditsSpec, UserPauses
  <2>2. QED
    BY <2>1 DEF UserWrites, nodeVars
<1>3. CASE \E i \in Node : NodeStep(i) \/ podFail(i)
  BY <1>3, Zenon DEF NodeStep, stsObserve, podStop, podStart, podFail, NodeEvent
<1>4. CASE cacheSync \/ UserWritesSecret \/ tick \/ UNCHANGED vars
  BY <1>4 DEF cacheSync, UserWritesSecret, tick, vars, nodeVars
<1>5. QED
  BY <1>1, <1>2, <1>3, <1>4

\* Every step of Next gets on that way.
LEMMA Pipeline == ASSUME TypeOK, [Next]_vars PROVE PcStep
<1> USE DEF PcStep, PostBuild, Commands, PluginsSet, FlagsSet
<1>1. CASE getRabbitmqCluster \/ addFinalizer \/ reconcilePaused
           \/ reconcileOperatorDefaults \/ reconcileStatusConditions \/ reconcileTLS
           \/ reconcileQueueRebalanced \/ reconcileScaleDown \/ waitResourceReady
  <2>1. /\ pc' \notin PostBuild \cup {"annotateServer"}
        /\ pc \notin {"annotateServer", "annotatePlugins", "annotateSts"}
    BY <1>1 DEF getRabbitmqCluster, addFinalizer, reconcilePaused,
         reconcileOperatorDefaults, reconcileStatusConditions, reconcileTLS,
         reconcileQueueRebalanced, reconcileScaleDown, waitResourceReady,
         Continue, UpdateCluster, updateStatus, Return
  <2>2. QED
    BY <2>1
<1>2. CASE buildBase \/ buildPlugins \/ buildServer \/ buildRbac \/ buildFails
           \/ (\E i \in Node : buildSts(i))
           \/ \E i \in Node : restartStatefulSetIfNeeded(i)
  <2>1. CASE buildBase \/ buildPlugins \/ buildServer \/ buildRbac \/ buildFails
    BY <2>1 DEF buildBase, buildPlugins, buildServer, buildRbac, buildFails, Built
  <2>2. CASE \E i \in Node : buildSts(i)
    BY <2>2 DEF buildSts, Built
  <2>3. CASE \E i \in Node : restartStatefulSetIfNeeded(i)
    BY <2>3 DEF restartStatefulSetIfNeeded
  <2>4. QED
    BY <1>2, <2>1, <2>2, <2>3
<1>3. CASE annotatePlugins \/ annotateServer \/ annotateSts
  <2>1. pc' = "return"
    BY <1>3 DEF annotatePlugins, annotateServer, annotateSts, Annotated
  <2>2. QED
    BY <1>3, <2>1
<1>4. CASE buildDone \/ noRestartNeeded \/ featureFlagsDone
  BY <1>4 DEF buildDone, noRestartNeeded, featureFlagsDone, Continue
<1>5. CASE reconcileStatus
  BY <1>5 DEF reconcileStatus, Continue, updateStatus
<1>6. CASE reconcileRabbitmqCLI
  <2>1. /\ pc = "cli" /\ idx' = 0
        /\ pc' \in {"return", "cliFlags", "cliPlugins"}
        /\ pc' # "return" =>
              /\ allReplicasReadyAndUpdated /\ Cardinality(Listed) = mem.spec.replicas
              /\ left' = {i \in Listed : cached.sts[i].created}
        /\ pc' = "cliFlags" => cached.plugins.mark = 0
    BY <1>6 DEF reconcileRabbitmqCLI, Continue
  <2>2. QED
    BY <1>6, <2>1
<1>7. CASE runSetPluginsCommand \/ removePluginsConfigUpdatedFlag
  <2>1. CASE runSetPluginsCommand
    BY <2>1 DEF runSetPluginsCommand, CLIFails
  <2>2. CASE removePluginsConfigUpdatedFlag
    <3>1. [plugins EXCEPT !.mark = 0].mark = 0
      BY DEF TypeOK, PluginsConfigMap
    <3>2. QED
      BY <2>2, <3>1 DEF removePluginsConfigUpdatedFlag, CLIFails, nodeVars
  <2>3. QED
    BY <1>7, <2>1, <2>2
<1>8. CASE \E i \in Node : runEnableFeatureFlagsCommand(i)
  <2>1. pc = "cliFlags" /\ pc' \in {"cliFlags", "return"}
    BY <1>8, Zenon DEF runEnableFeatureFlagsCommand, CLIFails
  <2>2. QED
    BY <1>8, <2>1
<1>9. CASE runQueueRebalanceCommand \/ reconcileSuccess \/ deferredStatusUpdate
           \/ panicGetChildResources \/ Crash
  BY <1>9 DEF runQueueRebalanceCommand, CLIFails, reconcileSuccess,
              deferredStatusUpdate, panicGetChildResources, Crash, Restarted
<1>10. CASE UNCHANGED <<pc, idx, left>>
  BY <1>10
<1>11. CASE cacheSync \/ ChildSync \/ UserEditsSpec \/ UserPauses \/ UserWritesSecret
            \/ tick \/ (\E i \in Node : NodeStep(i) \/ podFail(i)) \/ UNCHANGED vars
  BY <1>10, <1>11, Surroundings, Zenon DEF memVars
<1>12. QED
  BY <1>1, <1>2, <1>3, <1>4, <1>5, <1>6, <1>7, <1>8, <1>9, <1>11, Zenon
     DEF Next, OperatorStep

\* The current generation is reported as reconciled, or about to be: only a status in
\* a copy at the current resourceVersion can still be written.
Claimed == Claims(rmq.st) \/ (memFresh /\ Claims(mem.st))

\* A claim is an old one, or that of the reconcile which has just run the last command.
LEMMA ClaimedStep ==
    ASSUME IndInv, [Next]_vars, Claimed'
    PROVE  /\ rmq'.gen = rmq.gen /\ rmq'.spec = rmq.spec
           /\ Claimed \/ (pc = "cliRebalance" /\ memFresh /\ mem.spec = rmq.spec)
<1> USE DEF IndInv, Claimed, Claims
<1>1. rmq'.gen = rmq.gen /\ rmq'.spec = rmq.spec
  BY ClaimsStep
<1>2. CopiesStep
  BY CopiesEffect
<1>3. ASSUME NEW st, StatusStep(st), st.success = "Success", st.obsGen = rmq.gen, memFresh
      PROVE  Claimed \/ (pc = "cliRebalance" /\ memFresh /\ mem.spec = rmq.spec)
  BY <1>3 DEF StatusStep, FreshInv
<1>4. CASE SameCopies
  BY <1>1, <1>4 DEF SameCopies
<1>5. CASE StatusInMem
  <2>1. PICK new : StatusStep(new) /\ mem' = [mem EXCEPT !.st = new]
    BY <1>5 DEF StatusInMem
  <2>2. mem'.st = new
    BY <2>1 DEF TypeOK, Cluster
  <2>3. QED
    BY <1>1, <1>3, <1>5, <2>1, <2>2 DEF StatusInMem
<1>6. CASE Stored
  BY <1>1, <1>3, <1>6 DEF Stored
<1>7. CASE ReadFromCache
  BY <1>1, <1>7 DEF ReadFromCache, FreshInv
<1>8. CASE EndReconcile
  <2>1. rmq'.st = rmq.st \/ (memFresh /\ rmq'.st = mem.st)
    BY <1>8 DEF EndReconcile, TypeOK, Cluster
  <2>2. QED
    BY <1>1, <1>8, <2>1 DEF EndReconcile
<1>9. CASE SyncCache \/ UserWrote
  BY <1>1, <1>9 DEF SyncCache, UserWrote
<1>10. QED
  BY <1>1, <1>2, <1>4, <1>5, <1>6, <1>7, <1>8, <1>9 DEF CopiesStep

\* While the current generation is claimed its children are written, and a running
\* reconcile works on its spec.
LEMMA ClaimedSpec ==
    ASSUME IndInv, AppliedInv, Claimed
    PROVE  Applied(rmq.spec) /\ (pc # "idle" => mem.spec = rmq.spec)
<1> USE DEF IndInv, Claimed, Claims
<1>1. Applied(rmq.spec)
  BY DEF AppliedInv
<1>2. mem.gen \in Nat /\ rmq.gen \in Nat
  BY DEF TypeOK, Cluster
<1>3. pc # "idle" => mem.gen = rmq.gen
  BY <1>2 DEF GenInv
<1>4. QED
  BY <1>1, <1>3 DEF GenInv

-----------------------------------------------------------------------------
(***************************************************************************)
(* Feature flags.                                                          *)
(***************************************************************************)
\* A StatefulSet whose flags were not enabled carries the marker that asks for it, or
\* is about to get it; the commands are run for all that carry it; past the commands
\* none is left, and a claim relies on that.
FlagsInv ==
    /\ \A i \in Node : sts[i].ex /\ i \notin flags =>
          sts[i].created \/ (pc = "annotateSts" /\ idx = i)
    /\ pc \in {"cliPlugins", "cliFlags"} =>
          \A i \in Node : sts[i].ex /\ sts[i].created => i \in left
    /\ pc \in FlagsSet => \A i \in Node : sts[i].ex => i \in flags
    /\ Claimed => \A i \in Node : i < rmq.spec.replicas => i \in flags

FlagFacts(i) == <<sts[i].ex, sts[i].created>>

SameFlags == flags' = flags /\ \A i \in Node : FlagFacts(i)' = FlagFacts(i)

\* A new StatefulSet, which is then annotated.
Created(i) ==
    /\ ~sts[i].ex /\ pc = "build"
    /\ pc' = "annotateSts" /\ idx' = i /\ flags' = flags
    /\ \A j \in Node : j # i => FlagFacts(j)' = FlagFacts(j)

Marked ==
    /\ pc = "annotateSts" /\ pc' = "return" /\ flags' = flags
    /\ \A i \in Node : /\ sts'[i].ex = sts[i].ex
                       /\ sts[i].created \/ idx = i => sts'[i].created

TurnedOn(i) ==
    /\ pc = "cliFlags" /\ pc' = "cliFlags"
    /\ flags' = Existing /\ left' = left \ {i}
    /\ \A j \in Node : /\ sts'[j].ex = sts[j].ex
                       /\ sts'[j].created => j # i /\ sts[j].created

\* What a step does to the flags and to the marker.
LEMMA FlagsEffect ==
    ASSUME TypeOK, NoFaults, [Next]_vars
    PROVE  SameFlags \/ (\E i \in Node : Created(i)) \/ Marked \/ (\E i \in Node : TurnedOn(i))
<1>1. CASE \E i \in Node : buildSts(i)
  <2>1. PICK i \in Node : buildSts(i)
    BY <1>1
  <2>2. /\ pc = "build" /\ sts' = [sts EXCEPT ![i] = Templated(@, wantSts(i))]
        /\ idx' = i /\ (~sts[i].ex => pc' = "annotateSts") /\ flags' = flags
        /\ cached.sts[i] = sts[i]
    BY <2>1 DEF buildSts, Built, StsCurrent
  <2>3. \A j \in Node : j # i => sts'[j] = sts[j]
    BY <2>2 DEF TypeOK
  <2>4. sts[i] \in StatefulSet /\ sts'[i] = Templated(sts[i], wantSts(i))
    BY <2>2 DEF TypeOK
  <2>a. /\ wantSts(i) \in StatefulSet /\ wantSts(i).ex
        /\ wantSts(i).created = sts[i].created
    BY <2>2, WantedType, WantedFields
  <2>b. Templated(sts[i], wantSts(i)).created = wantSts(i).created
    BY <2>4, <2>a DEF Templated, StatefulSet
  <2>5. sts[i].ex => FlagFacts(i)' = FlagFacts(i)
    BY <2>4, <2>a, <2>b, TemplatedType DEF FlagFacts
  <2>6. QED
    BY <2>2, <2>3, <2>5 DEF SameFlags, Created, FlagFacts
<1>2. CASE annotateSts
  <2>1. /\ sts' = [sts EXCEPT ![idx].created = TRUE]
        /\ pc = "annotateSts" /\ pc' = "return" /\ flags' = flags
    BY <1>2 DEF annotateSts, Annotated, WriteFails, NoFaults
  <2>2. QED
    BY <2>1 DEF Marked, TypeOK, StatefulSet
<1>3. CASE \E i \in Node : runEnableFeatureFlagsCommand(i)
  <2>1. PICK i \in Node : runEnableFeatureFlagsCommand(i)
    BY <1>3
  <2>2. \/ sts' = sts /\ flags' = flags
        \/ /\ sts' = [sts EXCEPT ![i].created = FALSE] /\ flags' = Existing
           /\ left' = left \ {i} /\ pc = "cliFlags" /\ pc' = "cliFlags"
    BY <2>1, Zenon DEF runEnableFeatureFlagsCommand, CLIFails, nodeVars
  <2>3. CASE sts' = sts /\ flags' = flags
    BY <2>3 DEF SameFlags, FlagFacts
  <2>4. CASE /\ sts' = [sts EXCEPT ![i].created = FALSE] /\ flags' = Existing
             /\ left' = left \ {i} /\ pc = "cliFlags" /\ pc' = "cliFlags"
    <3>1. \A j \in Node : /\ sts'[j].ex = sts[j].ex
                          /\ sts'[j].created => j # i /\ sts[j].created
      BY <2>4 DEF TypeOK, StatefulSet
    <3>2. TurnedOn(i)
      BY <2>4, <3>1 DEF TurnedOn
    <3>3. QED
      BY <3>2
  <2>5. QED
    BY <2>2, <2>3, <2>4
<1>4. CASE \E i \in Node : restartStatefulSetIfNeeded(i)
  <2>1. PICK i \in Node : restartStatefulSetIfNeeded(i)
    BY <1>4
  <2>2. /\ \/ sts' = sts
           \/ sts' = [sts EXCEPT ![i] = Templated(@, [@ EXCEPT !.restartAt = now])]
        /\ flags' = flags
    BY <2>1 DEF restartStatefulSetIfNeeded
  <2>3. ASSUME NEW j \in Node PROVE FlagFacts(j)' = FlagFacts(j)
    <3>1. sts[j] \in StatefulSet /\ sts \in [Node -> StatefulSet]
      BY DEF TypeOK
    <3>2. sts'[j] = sts[j] \/ sts'[j] = Templated(sts[j], [sts[j] EXCEPT !.restartAt = now])
      BY <2>2, <3>1
    <3>3. QED
      BY <3>1, <3>2 DEF FlagFacts, Templated, StatefulSet
  <2>4. QED
    BY <2>2, <2>3 DEF SameFlags
<1>5. CASE \E i \in Node : NodeStep(i) \/ podFail(i)
  <2>1. flags' = flags
    BY <1>5, Surroundings
  <2>2. \A i \in Node : FlagFacts(i)' = FlagFacts(i)
    BY <1>5 DEF NodeStep, stsObserve, podStop, podStart, podFail, FlagFacts, TypeOK,
                StatefulSet
  <2>3. QED
    BY <2>1, <2>2 DEF SameFlags
<1>6. CASE UNCHANGED <<sts, flags>>
  BY <1>6 DEF SameFlags, FlagFacts
<1>7. CASE \/ addFinalizer \/ reconcilePaused \/ reconcileOperatorDefaults
           \/ reconcileStatusConditions \/ reconcileTLS \/ reconcileQueueRebalanced
           \/ reconcileScaleDown \/ waitResourceReady \/ buildFails \/ buildDone
           \/ noRestartNeeded \/ reconcileStatus \/ featureFlagsDone \/ reconcileSuccess
  <2>1. NoChildWrite
    BY <1>7, NoChildWriteSteps, Zenon
  <2>2. QED
    BY <1>6, <2>1 DEF NoChildWrite, nodeVars
<1>8. CASE buildBase \/ buildPlugins \/ buildServer \/ buildRbac \/ annotatePlugins
           \/ annotateServer \/ reconcileRabbitmqCLI \/ runSetPluginsCommand
           \/ removePluginsConfigUpdatedFlag \/ runQueueRebalanceCommand
  <2>1. UNCHANGED <<sts, flags>>
    BY <1>8, Zenon
       DEF buildBase, buildPlugins, buildServer, buildRbac, Built, annotatePlugins,
           annotateServer, Annotated, reconcileRabbitmqCLI, runSetPluginsCommand,
           removePluginsConfigUpdatedFlag, runQueueRebalanceCommand, CLIFails, nodeVars
  <2>2. QED
    BY <1>6, <2>1
<1>9. CASE getRabbitmqCluster \/ deferredStatusUpdate \/ panicGetChildResources \/ Crash
           \/ cacheSync \/ UserWritesSecret \/ tick \/ UNCHANGED vars
  BY <1>6, <1>9
     DEF getRabbitmqCluster, deferredStatusUpdate, panicGetChildResources, Crash,
         Restarted, cacheSync, UserWritesSecret, tick, vars, nodeVars
<1>10. CASE ChildSync
  BY <1>6, <1>10, ChildSyncEffect, TypeParts
<1>11. CASE UserEditsSpec \/ UserPauses
  <2>1. PICK obj : UserWrites(obj)
    BY <1>11, Zenon DEF UserEditsSpec, UserPauses
  <2>2. QED
    BY <1>6, <2>1 DEF UserWrites, nodeVars
<1>12. QED
  BY <1>1, <1>2, <1>3, <1>4, <1>5, <1>7, <1>8, <1>9, <1>10, <1>11, Zenon
     DEF Next, OperatorStep

\* The invariant of the flags is inductive without crashes, failed writes and old
\* copies of the children.
LEMMA FlagsStep ==
    ASSUME ChildLag = FALSE, IndInv, AppliedInv, NoFaults, FlagsInv, [Next]_vars
    PROVE  FlagsInv'
<1> USE DEF IndInv
<1>a. PcStep
  BY Pipeline
<1>b. SameFlags \/ (\E i \in Node : Created(i)) \/ Marked \/ (\E i \in Node : TurnedOn(i))
  BY FlagsEffect
<1>c. ~Crash /\ StsKept
  BY ChildEffect DEF Crash, NoFaults
<1>1. ASSUME NEW i \in Node, sts'[i].ex, i \notin flags'
      PROVE  sts'[i].created \/ (pc' = "annotateSts" /\ idx' = i)
  <2>1. CASE SameFlags
    <3>1. FlagFacts(i)' = FlagFacts(i) /\ flags' = flags
      BY <2>1 DEF SameFlags
    <3>2. sts[i].created \/ (pc = "annotateSts" /\ idx = i)
      BY <1>1, <3>1 DEF FlagsInv, FlagFacts
    <3>3. CASE pc = "annotateSts" /\ idx = i
      <4>1. CASE pc' = pc /\ idx' = idx
        BY <3>3, <4>1
      <4>2. CASE annotateSts
        <5>1. sts' = [sts EXCEPT ![idx].created = TRUE]
          BY <4>2 DEF annotateSts, Annotated, WriteFails, NoFaults
        <5>2. QED
          BY <3>3, <5>1 DEF TypeOK, StatefulSet
      <4>3. QED
        BY <1>a, <1>c, <3>3, <4>1, <4>2 DEF PcStep, annotatePlugins, annotateServer
    <3>4. QED
      BY <3>1, <3>2, <3>3 DEF FlagFacts
  <2>2. CASE \E j \in Node : Created(j)
    BY <1>1, <2>2 DEF Created, FlagFacts, FlagsInv
  <2>3. CASE Marked
    BY <1>1, <2>3 DEF Marked, FlagsInv
  <2>4. CASE \E j \in Node : TurnedOn(j)
    BY <1>1, <2>4 DEF TurnedOn, Existing
  <2>5. QED
    BY <1>b, <2>1, <2>2, <2>3, <2>4
\* No step turns a flag off.
<1>2. ASSUME NEW i \in Node, sts[i].ex, i \in flags PROVE i \in flags'
  BY <1>b, <1>2 DEF SameFlags, Created, Marked, TurnedOn, Existing
<1>3. ASSUME pc' \in FlagsSet PROVE \A i \in Node : sts'[i].ex => i \in flags'
  <2>1. SameFlags
    BY <1>b, <1>3 DEF Created, Marked, TurnedOn, FlagsSet
  <2>2. pc \in FlagsSet \/ featureFlagsDone
    BY <1>a, <1>3 DEF PcStep
  <2>3. featureFlagsDone => pc = "cliFlags" /\ left = {}
    BY DEF featureFlagsDone
  <2>4. \A i \in Node : sts[i].ex => i \in flags
    BY <2>2, <2>3 DEF FlagsInv
  <2>5. QED
    BY <2>1, <2>4 DEF SameFlags, FlagFacts
<1>4. ASSUME Claimed' PROVE \A i \in Node : i < rmq'.spec.replicas => i \in flags'
  <2>1. /\ rmq'.spec = rmq.spec
        /\ Claimed \/ (pc = "cliRebalance" /\ memFresh /\ mem.spec = rmq.spec)
    BY <1>4, ClaimedStep
  <2>2. Applied(rmq.spec)
    BY <2>1, ClaimedSpec DEF AppliedInv
  <2>3. \A i \in Node : i < rmq.spec.replicas => sts[i].ex /\ i \in flags
    BY <2>1, <2>2 DEF FlagsInv, Applied, FlagsSet
  <2>4. QED
    BY <1>2, <2>1, <2>3
<1>5. ASSUME pc' \in {"cliPlugins", "cliFlags"}, NEW i \in Node, sts'[i].ex, sts'[i].created
      PROVE  i \in left'
  <2>1. SameFlags \/ \E j \in Node : TurnedOn(j)
    BY <1>b, <1>5 DEF Created, Marked
  <2>2. sts[i].ex /\ sts[i].created
    BY <1>5, <2>1 DEF SameFlags, FlagFacts, TurnedOn
  <2>3. CASE \E j \in Node : TurnedOn(j)
    BY <1>5, <2>2, <2>3 DEF TurnedOn, FlagsInv
  <2>4. CASE pc \in {"cliPlugins", "cliFlags"} /\ left' = left
    BY <2>2, <2>4 DEF FlagsInv
  <2>5. CASE left' = {j \in Listed : cached.sts[j].created}
    BY <2>2, <2>5, CachedIsCurrent DEF Existing
  <2>6. CASE \E j \in Node : runEnableFeatureFlagsCommand(j)
    <3>1. PICK j \in Node : runEnableFeatureFlagsCommand(j)
      BY <2>6
    <3>2. /\ sts' = [sts EXCEPT ![j].created = FALSE] /\ left' = left \ {j}
          /\ pc = "cliFlags"
      BY <1>5, <3>1, Zenon DEF runEnableFeatureFlagsCommand, CLIFails
    <3>3. i # j
      BY <1>5, <3>2 DEF TypeOK, StatefulSet
    <3>4. QED
      BY <2>2, <3>2, <3>3 DEF FlagsInv
  <2>7. QED
    BY <1>5, <1>a, <2>4, <2>5, <2>6 DEF PcStep
<1>6. QED
  BY <1>1, <1>3, <1>4, <1>5 DEF FlagsInv

\* ReconcileSuccess is True for the current generation only when the feature flags
\* have been enabled since its last node was created.
THEOREM FlagsEnabled ==
    ASSUME Uninterrupted, ChildLag = FALSE
    PROVE  Spec => []SuccessMeansFlagsEnabled
<1>1. Init => FlagsInv
  <2> SUFFICES ASSUME Init PROVE FlagsInv
    OBVIOUS
  <2>1. rmq.st.success = "None" /\ ~memFresh
    BY DEF Init, NewCluster, NewStatus
  <2>2. QED
    BY <2>1 DEF Init, FlagsInv, Claimed, Claims, FlagsSet, NoSts
<1>2. IndInv /\ AppliedInv /\ BudgetInv /\ FlagsInv /\ [Next]_vars => FlagsInv'
  BY FlagsStep, Faultless DEF IndInv
<1>3. FlagsInv => SuccessMeansFlagsEnabled
  BY DEF FlagsInv, SuccessMeansFlagsEnabled, Observed, Claimed, Claims
<1>4. QED
  BY <1>1, <1>2, <1>3, Invariance, AppliedInvariance, Bounded, PTL DEF Spec

-----------------------------------------------------------------------------
(***************************************************************************)
(* The steps that change what a node is to run, or runs.                   *)
(***************************************************************************)
NodeFacts(i) == <<Facts(i), pod[i].conf, pod[i].plugins>>

Still == UNCHANGED <<server, plugins, now>> /\ \A i \in Node : NodeFacts(i)' = NodeFacts(i)

NodeChange(i) == buildSts(i) \/ restartStatefulSetIfNeeded(i) \/ NodeStep(i) \/ podFail(i)

\* All other steps leave the config maps and the nodes as they are.
LEMMA NodeEffect ==
    ASSUME TypeOK, [Next]_vars
    PROVE  \/ Still \/ buildPlugins \/ annotatePlugins \/ buildServer \/ annotateServer
           \/ runSetPluginsCommand \/ removePluginsConfigUpdatedFlag \/ tick
           \/ \E i \in Node : NodeChange(i)
<1> USE DEF NodeChange
<1>1. CASE UNCHANGED <<server, plugins, now, sts, pod>>
  BY <1>1 DEF Still, NodeFacts, Facts
<1>2. CASE annotateSts
  <2>1. /\ UNCHANGED <<server, plugins, now, pod>>
        /\ sts' = sts \/ sts' = [sts EXCEPT ![idx].created = TRUE]
    BY <1>2 DEF annotateSts, Annotated
  <2>2. QED
    BY <2>1 DEF Still, NodeFacts, Facts, TypeOK, StatefulSet
<1>3. CASE \E i \in Node : runEnableFeatureFlagsCommand(i)
  <2>1. PICK i \in Node : runEnableFeatureFlagsCommand(i)
    BY <1>3
  <2>2. /\ UNCHANGED <<server, plugins, now, pod>>
        /\ sts' = sts \/ sts' = [sts EXCEPT ![i].created = FALSE]
    BY <2>1, Zenon DEF runEnableFeatureFlagsCommand, CLIFails, childVars, nodeVars
  <2>3. QED
    BY <2>2 DEF Still, NodeFacts, Facts, TypeOK, StatefulSet
<1>4. CASE \/ addFinalizer \/ reconcilePaused \/ reconcileOperatorDefaults
           \/ reconcileStatusConditions \/ reconcileTLS \/ reconcileQueueRebalanced
           \/ reconcileScaleDown \/ waitResourceReady \/ buildFails \/ buildDone
           \/ noRestartNeeded \/ reconcileStatus \/ featureFlagsDone \/ reconcileSuccess
  <2>1. NoChildWrite
    BY <1>4, NoChildWriteSteps, Zenon
  <2>2. QED
    BY <1>1, <2>1 DEF NoChildWrite, childVars, nodeVars
<1>5. CASE buildBase \/ buildRbac
  BY <1>1, <1>5 DEF buildBase, buildRbac, Built, envVars
<1>6. CASE reconcileRabbitmqCLI \/ runQueueRebalanceCommand \/ getRabbitmqCluster
           \/ deferredStatusUpdate \/ panicGetChildResources \/ Crash
  <2>1. UNCHANGED <<server, plugins, now, sts, pod>>
    BY <1>6, Zenon
       DEF reconcileRabbitmqCLI, runQueueRebalanceCommand, CLIFails, getRabbitmqCluster,
           deferredStatusUpdate, panicGetChildResources, Crash, Restarted, childVars,
           nodeVars, envVars
  <2>2. QED
    BY <1>1, <2>1
<1>7. CASE cacheSync \/ ChildSync \/ UserEditsSpec \/ UserPauses \/ UserWritesSecret
           \/ UNCHANGED vars
  <2>1. CASE ChildSync
    BY <1>1, <2>1, ChildSyncEffect, TypeParts DEF childVars, envVars
  <2>2. CASE UserEditsSpec \/ UserPauses
    <3>1. PICK obj : UserWrites(obj)
      BY <2>2, Zenon DEF UserEditsSpec, UserPauses
    <3>2. QED
      BY <1>1, <3>1 DEF UserWrites, childVars, nodeVars
  <2>3. CASE cacheSync \/ UserWritesSecret \/ UNCHANGED vars
    BY <1>1, <2>3 DEF cacheSync, UserWritesSecret, vars, childVars, nodeVars, envVars
  <2>4. QED
    BY <1>7, <2>1, <2>2, <2>3
<1>8. QED
  BY <1>2, <1>3, <1>4, <1>5, <1>6, <1>7, Zenon DEF Next, OperatorStep, NodeStep

\* The steps that write the config maps.
LEMMA ConfigMapEffect ==
    ASSUME TypeOK, [Next]_vars
    PROVE  /\ server' = server \/ buildServer \/ annotateServer
           /\ \/ plugins' = plugins \/ buildPlugins \/ annotatePlugins
              \/ removePluginsConfigUpdatedFlag
<1>1. CASE Still
  BY <1>1 DEF Still
<1>2. CASE buildPlugins \/ annotatePlugins \/ buildServer \/ annotateServer
           \/ runSetPluginsCommand \/ removePluginsConfigUpdatedFlag \/ tick
  BY <1>2, Zenon
     DEF buildPlugins, annotatePlugins, buildServer, annotateServer, Annotated,
         runSetPluginsCommand, removePluginsConfigUpdatedFlag, CLIFails, tick, childVars
<1>3. CASE \E i \in Node : NodeChange(i)
  <2>1. UNCHANGED childVars
    BY <1>3, Zenon DEF NodeChange, buildSts, restartStatefulSetIfNeeded, NodeStep,
                       stsObserve, podStop, podStart, podFail, NodeEvent
  <2>2. QED
    BY <2>1 DEF childVars
<1>4. QED
  BY <1>1, <1>2, <1>3, NodeEffect

-----------------------------------------------------------------------------
(***************************************************************************)
(* Scaling out.                                                            *)
(***************************************************************************)
\* The user changes nothing but the number of nodes, and pauses the cluster.
OnlyScaled == EditKinds \cap {"image", "conf", "plugins", "tls"} = {}

\* A spec that differs in its number of nodes only, and in the default image.
Plain(spec) ==
    /\ spec.conf = Blank.spec.conf /\ spec.plugins = Blank.spec.plugins
    /\ spec.tls = "off" /\ spec.image \in {Unset, DefaultImage}

PlainTemplate == <<DefaultImage, FALSE, Blank.spec.plugins \in PortPlugins>>

Early == {"idle", "delete", "paused", "defaults", "return"}

PlainServer(obj) == obj.conf = serverConf(Blank.spec) /\ obj.mark = 0
PlainSts(obj) == /\ obj.restartAt = 0 /\ obj.seen /\ ~obj.updating
                 /\ obj.ex => obj.template = PlainTemplate

\* Every StatefulSet is written with the default image, so none is updated, the queues
\* need no rebalance, and no annotation of the cluster gets to the config map.  Old
\* copies show nothing else.
ScaledInv ==
    /\ Plain(rmq.spec) /\ Plain(cache.spec) /\ Plain(mem.spec)
    /\ rmq.rebal = 0 /\ cache.rebal = 0 /\ mem.rebal = 0
    /\ pc \notin Early => mem.spec.image = DefaultImage
    /\ pc # "annotateServer"
    /\ PlainServer(server) /\ PlainServer(view.server)
    /\ \A i \in Node : PlainSts(sts[i]) /\ PlainSts(view.sts[i])

\* The builders run only for a spec whose image is set.
LEMMA EarlySteps ==
    ASSUME TypeOK, FreshInv, [Next]_vars, pc' \notin Early
    PROVE  /\ mem'.spec = mem.spec
           /\ pc \notin Early \/ mem.spec.image # Unset
<1>a. CopiesStep
  BY CopiesEffect
<1>1. mem'.spec = mem.spec
  <2>1. CASE StatusInMem
    BY <2>1 DEF StatusInMem, TypeOK, Cluster
  <2>2. QED
    BY <1>a, <2>1 DEF CopiesStep, SameCopies, Stored, SyncCache, UserWrote,
                      ReadFromCache, EndReconcile, Early
<1>2. CASE getRabbitmqCluster \/ addFinalizer \/ reconcilePaused
           \/ reconcileOperatorDefaults \/ deferredStatusUpdate
  BY <1>1, <1>2 DEF getRabbitmqCluster, addFinalizer, reconcilePaused,
         reconcileOperatorDefaults, deferredStatusUpdate, Continue, Return,
         UpdateCluster, Early
<1>3. CASE pc \notin Early
  BY <1>1, <1>3
<1>4. CASE reconcileStatusConditions \/ reconcileTLS \/ reconcileQueueRebalanced
           \/ reconcileScaleDown \/ waitResourceReady \/ buildFails \/ buildDone
           \/ noRestartNeeded \/ reconcileStatus \/ featureFlagsDone \/ reconcileSuccess
           \/ buildBase \/ buildPlugins \/ buildServer \/ buildRbac
           \/ annotatePlugins \/ annotateServer \/ annotateSts
  <2>1. pc \in {"conditions", "tls", "rebalance", "scaledown", "wait", "build",
                "restart", "status", "cliFlags", "cliRebalance", "annotatePlugins",
                "annotateServer", "annotateSts"}
    BY <1>4
       DEF reconcileStatusConditions, reconcileTLS, reconcileQueueRebalanced,
           reconcileScaleDown, waitResourceReady, buildFails, buildDone,
           noRestartNeeded, reconcileStatus, featureFlagsDone, reconcileSuccess,
           buildBase, buildPlugins, buildServer, buildRbac,
           annotatePlugins, annotateServer, annotateSts
  <2>2. QED
    BY <1>3, <2>1 DEF Early
<1>5. CASE reconcileRabbitmqCLI \/ runSetPluginsCommand
           \/ removePluginsConfigUpdatedFlag \/ runQueueRebalanceCommand
           \/ panicGetChildResources
           \/ \E i \in Node : buildSts(i) \/ restartStatefulSetIfNeeded(i)
                              \/ runEnableFeatureFlagsCommand(i)
  <2>1. pc = "cli" \/ pc = "cliPlugins" \/ pc = "cliRebalance" \/ pc = "conditions"
        \/ pc = "build" \/ pc = "restart" \/ pc = "cliFlags"
    BY <1>5, Zenon
       DEF reconcileRabbitmqCLI, runSetPluginsCommand, removePluginsConfigUpdatedFlag,
           runQueueRebalanceCommand, panicGetChildResources, buildSts,
           restartStatefulSetIfNeeded, runEnableFeatureFlagsCommand
  <2>2. QED
    BY <1>3, <2>1 DEF Early
<1>6. CASE Crash
  BY <1>6 DEF Crash, Restarted, Early
<1>7. CASE cacheSync \/ ChildSync \/ UserEditsSpec \/ UserPauses \/ UserWritesSecret
            \/ tick \/ (\E i \in Node : NodeStep(i) \/ podFail(i)) \/ UNCHANGED vars
  <2>1. pc' = pc
    BY <1>7, Surroundings
  <2>2. QED
    BY <1>3, <2>1
<1>8. QED
  BY <1>2, <1>4, <1>5, <1>6, <1>7, Zenon DEF Next, OperatorStep

\* Scaling keeps the specs plain.
LEMMA PlainStep ==
    ASSUME OnlyScaled, TypeOK, FreshInv, ScaledInv, [Next]_vars
    PROVE  Plain(rmq'.spec) /\ Plain(cache'.spec) /\ Plain(mem'.spec)
<1> USE DEF ScaledInv
<1>a. CopiesStep
  BY CopiesEffect
<1>b. Plain(Blank.spec)
  BY DEF Plain, Blank, NewCluster
<1>c. rmq.spec \in ClusterSpec /\ mem.spec \in ClusterSpec
  BY DEF TypeOK, Cluster
<1>1. CASE UserEditsSpec
  <2>1. PICK spec \in [replicas : IF "replicas" \in EditKinds THEN Replicas ELSE {rmq.spec.replicas},
                       image : {rmq.spec.image}, conf : {rmq.spec.conf},
                       plugins : {rmq.spec.plugins}, tls : {rmq.spec.tls}] :
            UserWrites([rmq EXCEPT !.spec = spec, !.gen = @ + 1])
    BY <1>1 DEF UserEditsSpec, OnlyScaled
  <2>2. Plain(spec)
    BY <2>1 DEF Plain
  <2>3. rmq'.spec = spec /\ UNCHANGED <<cache, mem>>
    BY <2>1 DEF UserWrites, TypeOK, Cluster
  <2>4. QED
    BY <2>2, <2>3
<1>2. CASE UserPauses
  BY <1>2 DEF UserPauses, UserWrites, TypeOK, Cluster
<1>3. CASE SameCopies
  BY <1>3 DEF SameCopies
<1>4. CASE StatusInMem
  BY <1>4 DEF StatusInMem, TypeOK, Cluster
<1>5. CASE Stored
  <2>1. \A spec : Defaulted(spec) => Plain(spec)
    BY <1>c DEF Defaulted, Plain, ClusterSpec
  <2>2. QED
    BY <1>5, <2>1 DEF Stored
<1>6. CASE ReadFromCache \/ SyncCache
  BY <1>6 DEF ReadFromCache, SyncCache
<1>7. CASE EndReconcile
  BY <1>7, <1>b DEF EndReconcile, TypeOK, Cluster
<1>8. QED
  BY <1>a, <1>1, <1>2, <1>3, <1>4, <1>5, <1>6, <1>7 DEF CopiesStep, UserWrote

\* What the builders take from a plain spec is always the same.
LEMMA PlainBuilds ==
    ASSUME NEW spec, Plain(spec)
    PROVE  /\ serverConf(spec) = serverConf(Blank.spec)
           /\ spec.image = DefaultImage => podTemplate(spec) = PlainTemplate
<1>1. Blank.spec.tls = "off"
  BY DEF Blank, NewCluster
<1>2. QED
  BY <1>1 DEF Plain, serverConf, podTemplate, TLSEnabled, PlainTemplate

\* The invariant of scaling is inductive, whatever crashes, fails or lags.
LEMMA ScaledStep ==
    ASSUME OnlyScaled, TypeOK, FreshInv, ScaledInv, [Next]_vars PROVE ScaledInv'
<1>a. PcStep /\ MarkerStep
  BY Pipeline, MarkerSteps
<1>c. PlainServer(cached.server) /\ \A i \in Node : PlainSts(cached.sts[i])
  BY DEF cached, current, ScaledInv
<1>1. Plain(rmq'.spec) /\ Plain(cache'.spec) /\ Plain(mem'.spec)
  BY PlainStep
<1>2. pc' \notin Early => mem'.spec.image = DefaultImage
  BY EarlySteps DEF ScaledInv, Plain
<1>3. rmq'.rebal = 0 /\ cache'.rebal = 0 /\ mem'.rebal = 0
  <2>1. ~MarkerSet
    BY <1>c DEF MarkerSet, PlainSts
  <2>2. getRabbitmqCluster => mem'.rebal = cache.rebal
    BY DEF getRabbitmqCluster
  <2>3. QED
    BY <1>a, <2>1, <2>2 DEF MarkerStep, ScaledInv
<1>b. mem.rebal = 0 /\ Plain(mem.spec) /\ cached.server \in ServerConfigMap
  BY CachedType, TypeParts DEF ScaledInv, View
<1>4. ~buildServer \/ (/\ pc' = "return" /\ server' = wantServer
                       /\ wantServer.mark = cached.server.mark)
  <2>1. wantServer.conf = cached.server.conf /\ wantServer.ann = cached.server.ann
        /\ wantServer.mark = cached.server.mark
    BY <1>b, <1>c, PlainBuilds
       DEF wantServer, ReconcileAnnotations, PlainServer, ServerConfigMap
  <2>2. QED
    BY <2>1 DEF buildServer, UpdateRequiresStsRestart, Built
<1>5. pc' # "annotateServer"
  BY <1>a, <1>4 DEF PcStep, ScaledInv
<1>6. PlainServer(server')
  <2>1. CASE buildServer
    <3>1. wantServer.conf = serverConf(Blank.spec)
      BY <1>b, PlainBuilds, WantedFields
    <3>2. QED
      BY <1>4, <1>c, <2>1, <3>1 DEF PlainServer
  <2>2. CASE server' = server
    BY <2>2 DEF ScaledInv
  <2>3. CASE annotateServer
    BY <2>3 DEF annotateServer, ScaledInv
  <2>4. QED
    BY <2>1, <2>2, <2>3, ConfigMapEffect
<1>7. ASSUME NEW i \in Node PROVE PlainSts(sts'[i])
  <2>a. sts[i] \in StatefulSet /\ sts \in [Node -> StatefulSet] /\ PlainSts(sts[i])
    BY DEF TypeOK, ScaledInv
  <2>1. CASE sts' = sts
    BY <2>1, <2>a
  <2>2. CASE \E j \in Node : buildSts(j)
    <3>1. PICK j \in Node : buildSts(j)
      BY <2>2
    <3>2. /\ sts' = [sts EXCEPT ![j] = Templated(@, wantSts(j))] /\ pc = "build"
          /\ cached.sts[j] = sts[j]
      BY <3>1 DEF buildSts, Built, StsCurrent
    <3>3. podTemplate(mem.spec) = PlainTemplate
      BY <1>b, <3>2, PlainBuilds DEF ScaledInv, Early
    <3>5. CASE i = j
      <4>0. /\ wantSts(i).template = PlainTemplate
            /\ wantSts(i).restartAt = sts[i].restartAt
            /\ wantSts(i).seen = sts[i].seen /\ wantSts(i).updating = sts[i].updating
        BY <2>a, <3>2, <3>3, <3>5 DEF wantSts, StatefulSet
      <4>1. sts'[i] = Templated(sts[i], wantSts(i))
        BY <2>a, <3>2, <3>5
      <4>2. Templated(sts[i], wantSts(i)) = wantSts(i)
        BY <2>a, <4>0 DEF Templated, PlainSts
      <4>3. QED
        BY <2>a, <4>0, <4>1, <4>2 DEF PlainSts
    <3>6. CASE i # j
      BY <2>a, <3>2, <3>6
    <3>7. QED
      BY <3>5, <3>6
  <2>3. \A j \in Node : ~restartStatefulSetIfNeeded(j)
    BY <1>c DEF restartStatefulSetIfNeeded, NeedsRestart, PlainServer
  <2>4. CASE \E j \in Node : NodeStep(j) \/ podFail(j)
    <3>1. PICK j \in Node : stsObserve(j) \/ podStop(j) \/ podStart(j) \/ podFail(j)
      BY <2>4 DEF NodeStep
    <3>2. ~stsObserve(j)
      BY DEF stsObserve, ScaledInv, PlainSts
    <3>3. sts' = sts \/ sts' = [sts EXCEPT ![j].updating = FALSE]
      BY <3>1, <3>2 DEF podStop, podStart, podFail
    <3>4. QED
      BY <2>a, <3>3 DEF PlainSts, StatefulSet
  <2>5. CASE Still
    BY <2>5, <2>a DEF Still, NodeFacts, Facts, PlainSts
  <2>6. CASE buildPlugins \/ annotatePlugins \/ buildServer \/ annotateServer
             \/ runSetPluginsCommand \/ removePluginsConfigUpdatedFlag \/ tick
    <3>1. sts' = sts
      BY <1>5, <2>6, Zenon
         DEF buildPlugins, buildServer, annotatePlugins, annotateServer, Annotated,
             runSetPluginsCommand, removePluginsConfigUpdatedFlag, CLIFails, tick, nodeVars
    <3>2. QED
      BY <2>1, <3>1
  <2>7. QED
    BY <2>2, <2>3, <2>4, <2>5, <2>6, NodeEffect DEF NodeChange
<1>8. PlainServer(view'.server) /\ \A i \in Node : PlainSts(view'.sts[i])
  BY ViewEffect DEF ScaledInv
<1>9. QED
  BY <1>1, <1>2, <1>3, <1>5, <1>6, <1>7, <1>8 DEF ScaledInv

\* However often nodes are added, and whatever crashes, fails or lags meanwhile, the
\* target cluster size hint marks no config map and restarts no node.
THEOREM ScaleOutQuiet == ASSUME OnlyScaled PROVE Spec => []ScaleOutRestartsNothing
<1>1. Init => ScaledInv
  <2> SUFFICES ASSUME Init PROVE ScaledInv
    OBVIOUS
  <2>1. PICK n \in Replicas : rmq = NewCluster([Blank.spec EXCEPT !.replicas = n])
    BY DEF Init
  <2>2. Plain(Blank.spec) /\ Blank.rebal = 0
    BY DEF Plain, Blank, NewCluster
  <2>3. Plain([Blank.spec EXCEPT !.replicas = n])
    BY <2>2 DEF Plain, Blank, NewCluster
  <2>4. rmq.spec = [Blank.spec EXCEPT !.replicas = n] /\ rmq.rebal = 0
    BY <2>1 DEF NewCluster
  <2>5. QED
    BY <2>2, <2>3, <2>4
       DEF Init, current, ScaledInv, PlainServer, PlainSts, Early, NoSts
<1>2. IndInv /\ ScaledInv /\ [Next]_vars => ScaledInv'
  BY ScaledStep DEF IndInv
<1>3. ScaledInv => ScaleOutRestartsNothing
  BY DEF ScaledInv, PlainServer, PlainSts, ScaleOutRestartsNothing
<1>4. QED
  BY <1>1, <1>2, <1>3, Invariance, PTL DEF Spec

-----------------------------------------------------------------------------
(***************************************************************************)
(* Deployment.                                                             *)
(***************************************************************************)
\* No restart or change of the server config map lies in the future.
TimesInv ==
    /\ server.mark <= now
    /\ \A i \in Node : sts[i].restartAt <= now /\ pod[i].restartAt <= now

\* A StatefulSet is created after the config maps.
OrderInv == \A i \in Node : sts[i].ex => server.ex /\ plugins.ex

\* A StatefulSet is being updated only while its node is outdated.
UpdatingInv == \A i \in Node : sts[i].updating => Outdated(i)

\* A node that runs with an old server configuration is due for a restart.
ConfInv == \A i \in Node : pod[i].up /\ pod[i].conf # server.conf =>
    pc = "annotateServer" \/ (server.mark > 0 /\ pod[i].restartAt <= server.mark)

\* While a node has old plugins, the marker asks for them to be set; the command gets
\* to all nodes before the marker is removed.
PluginsInv ==
    /\ \A i \in Node : pod[i].up /\ pod[i].plugins # plugins.val =>
          plugins.mark > 0 \/ pc = "annotatePlugins"
    /\ pc = "cliPlugins" => \A i \in Node :
          i < idx /\ pod[i].up => pod[i].plugins = plugins.val
    /\ pc \in PluginsSet => plugins.mark = 0

\* The commands run while all nodes are up, and there are no more than the spec has.
CommandsInv == pc \in Commands =>
    Existing = 0 .. mem.spec.replicas - 1 /\ \A i \in Existing : pod[i].up

\* A node is due for a restart, in fact and not by what the informers show.
Due(i) == sts[i].ex /\ server.mark > 0 /\ sts[i].restartAt <= server.mark

\* Past restartStatefulSetIfNeeded no node is due for a restart.
RestartInv == pc \in PostBuild \ {"restart"} => \A i \in Node : ~Due(i)

\* The server config map carries the rebalance marker of the reconciled cluster; the
\* cache shows that marker too, or none.
MarkerInv ==
    /\ pc \in PostBuild => mem.rebal \in {0, server.ann}
    /\ memFresh /\ pc \notin {"idle", "return"} =>
          cache.rebal = mem.rebal \/ (mem.rebal = 0 /\ cache.rebal = server.ann)

\* Nothing is left to do: every node runs what the children say, and no copy of the
\* cluster has an annotation that would count as a new configuration.
Calm ==
    /\ pc # "annotateServer"
    /\ {rmq.rebal, cache.rebal, mem.rebal} \subseteq {0, server.ann}
    /\ \A i \in Node : ~Outdated(i) /\ ~Due(i)
    /\ \A i \in Node : i < rmq.spec.replicas =>
          pod[i].up /\ pod[i].conf = server.conf /\ pod[i].plugins = plugins.val

CalmInv == Claimed => Calm

DeployInv == /\ TimesInv /\ OrderInv /\ UpdatingInv /\ ConfInv /\ PluginsInv
             /\ CommandsInv /\ RestartInv /\ MarkerInv /\ CalmInv

\* No pods fail, either, and neither the status nor the copies of the children lag.
Undisturbed == NoFaults /\ budget.pods = 0 /\ StsLag = FALSE /\ ChildLag = FALSE

\* What a builder writes to a StatefulSet.
LEMMA BuildStsFacts ==
    ASSUME Undisturbed, TypeOK, NEW i \in Node, buildSts(i)
    PROVE  /\ UNCHANGED <<server, plugins, now, pod>>
           /\ pc = "build" /\ pc' \in {"return", "annotateSts"}
           /\ i < mem.spec.replicas /\ server.ex /\ plugins.ex
           /\ \A j \in Node : j # i => sts'[j] = sts[j]
           /\ sts'[i].ex /\ sts'[i].template = podTemplate(mem.spec)
           /\ sts'[i].restartAt = sts[i].restartAt
           /\ sts'[i].updating =>
                 sts[i].updating \/ (sts[i].ex /\ sts'[i].template # sts[i].template)
<1>1. /\ UNCHANGED <<server, plugins, now, pod>>
      /\ pc = "build" /\ pc' \in {"return", "annotateSts"} /\ i < mem.spec.replicas
      /\ cached.server = wantServer /\ cached.plugins = wantPlugins
      /\ sts' = [sts EXCEPT ![i] = Templated(@, wantSts(i))]
  BY DEF buildSts, Built, StsDone, RbacDone, ServerDone, PluginsDone, childVars, envVars
<1>2. server.ex /\ plugins.ex
  BY <1>1, CachedIsCurrent, WantedFields DEF Undisturbed
<1>3. sts[i] \in StatefulSet /\ sts'[i] = Templated(sts[i], wantSts(i))
      /\ \A j \in Node : j # i => sts'[j] = sts[j]
  BY <1>1 DEF TypeOK
<1>4. /\ wantSts(i).ex /\ wantSts(i).template = podTemplate(mem.spec)
      /\ wantSts(i).restartAt = sts[i].restartAt /\ wantSts(i).updating = sts[i].updating
  BY <1>3, CachedIsCurrent DEF wantSts, StatefulSet, Undisturbed
<1>5. wantSts(i) \in StatefulSet
  BY WantedType
<1>6. /\ sts'[i].ex /\ sts'[i].template = podTemplate(mem.spec)
      /\ sts'[i].restartAt = sts[i].restartAt
      /\ sts'[i].updating =>
            sts[i].updating \/ (sts[i].ex /\ sts'[i].template # sts[i].template)
  BY <1>3, <1>4, <1>5 DEF Templated, StatefulSet, Undisturbed
<1>7. QED
  BY <1>1, <1>2, <1>3, <1>6

\* What a restart writes to a StatefulSet.
LEMMA RestartFacts ==
    ASSUME Undisturbed, TypeOK, NEW i \in Node, restartStatefulSetIfNeeded(i)
    PROVE  /\ UNCHANGED <<server, plugins, now, pod>>
           /\ pc = "restart" /\ pc' = "return" /\ NeedsRestart(i)
           /\ \A j \in Node : j # i => sts'[j] = sts[j]
           /\ sts'[i].ex = sts[i].ex /\ sts'[i].template = sts[i].template
           /\ sts'[i].restartAt = now
           /\ sts'[i].updating => sts[i].updating \/ sts'[i].restartAt # sts[i].restartAt
<1>1. /\ UNCHANGED <<server, plugins, now, pod>>
      /\ pc = "restart" /\ pc' = "return" /\ NeedsRestart(i)
      /\ sts' = [sts EXCEPT ![i] = Templated(@, [@ EXCEPT !.restartAt = now])]
  BY DEF restartStatefulSetIfNeeded, WriteFails, NoFaults, childVars, Undisturbed
<1>2. /\ sts[i] \in StatefulSet
      /\ sts'[i] = Templated(sts[i], [sts[i] EXCEPT !.restartAt = now])
      /\ \A j \in Node : j # i => sts'[j] = sts[j]
  BY <1>1 DEF TypeOK
<1>3. /\ sts'[i].ex = sts[i].ex /\ sts'[i].template = sts[i].template
      /\ sts'[i].restartAt = now
      /\ sts'[i].updating => sts[i].updating \/ sts'[i].restartAt # sts[i].restartAt
  BY <1>2 DEF Templated, StatefulSet, Undisturbed
<1>4. QED
  BY <1>1, <1>2, <1>3

\* What happens to a node by itself.
LEMMA PodFacts ==
    ASSUME Undisturbed, TypeOK, RollInv, NEW i \in Node, NodeStep(i) \/ podFail(i)
    PROVE  /\ UNCHANGED <<server, plugins, now, pc, idx, rmq, cache, mem>>
           /\ \A j \in Node : j # i => sts'[j] = sts[j] /\ pod'[j] = pod[j]
           /\ sts'[i].ex = sts[i].ex /\ sts'[i].template = sts[i].template
           /\ sts'[i].restartAt = sts[i].restartAt
           /\ \/ /\ Outdated(i) /\ sts'[i].updating = sts[i].updating /\ ~pod'[i].up
                 /\ pod'[i].template = pod[i].template
                 /\ pod'[i].restartAt = pod[i].restartAt
              \/ /\ ~pod[i].up /\ sts[i].ex /\ ~sts'[i].updating /\ pod'[i].up
                 /\ pod'[i].template = sts[i].template
                 /\ pod'[i].restartAt = sts[i].restartAt
                 /\ pod'[i].conf = server.conf /\ pod'[i].plugins = plugins.val
<1>1. UNCHANGED <<server, plugins, now, pc, idx, rmq, cache, mem>>
  BY DEF NodeStep, stsObserve, podStop, podStart, podFail, NodeEvent, childVars,
         rmqVars, memVars
<1>2. ~stsObserve(i) /\ ~podFail(i)
  BY DEF stsObserve, podFail, RollInv, Undisturbed
<1>3. CASE podStop(i)
  BY <1>1, <1>3 DEF podStop, Outdated, TypeOK, Pod
<1>4. CASE podStart(i)
  <2>1. \A j \in Node : j # i => sts'[j] = sts[j] /\ pod'[j] = pod[j]
    BY <1>4 DEF podStart, TypeOK
  <2>2. pod'[i] = [up |-> TRUE, template |-> sts[i].template,
                   restartAt |-> sts[i].restartAt,
                   conf |-> server.conf, plugins |-> plugins.val]
    BY <1>4 DEF podStart, TypeOK
  <2>3. sts'[i] = [sts[i] EXCEPT !.updating = FALSE] /\ sts[i] \in StatefulSet
    BY <1>4 DEF podStart, TypeOK
  <2>4. /\ sts'[i].ex = sts[i].ex /\ sts'[i].template = sts[i].template
        /\ sts'[i].restartAt = sts[i].restartAt /\ ~sts'[i].updating
    BY <2>3 DEF StatefulSet
  <2>5. /\ pod'[i].up /\ pod'[i].template = sts[i].template
        /\ pod'[i].restartAt = sts[i].restartAt
        /\ pod'[i].conf = server.conf /\ pod'[i].plugins = plugins.val
    BY <2>2
  <2>6. ~pod[i].up /\ sts[i].ex
    BY <1>4 DEF podStart
  <2>7. QED
    BY <1>1, <2>1, <2>4, <2>5, <2>6
<1>5. QED
  BY <1>2, <1>3, <1>4 DEF NodeStep

\* What the writes of the plugins config map do.
LEMMA BuildPluginsFacts ==
    ASSUME TypeOK, buildPlugins
    PROVE  /\ UNCHANGED <<server, now, nodeVars>> /\ pc = "build"
           /\ plugins'.ex /\ plugins'.val = mem.spec.plugins
           /\ plugins'.mark = plugins.mark
           /\ plugins.ex => pc' = "annotatePlugins"
<1>1. /\ plugins' = wantPlugins /\ cached.plugins = plugins /\ pc = "build"
      /\ UNCHANGED <<server, now, nodeVars>> /\ (plugins.ex => pc' = "annotatePlugins")
  BY DEF buildPlugins, Built, envVars, nodeVars
<1>2. QED
  BY <1>1 DEF wantPlugins, TypeOK, PluginsConfigMap

\* The marker is put on it in a second write.
LEMMA AnnotatePluginsFacts ==
    ASSUME Undisturbed, TypeOK, annotatePlugins
    PROVE  /\ UNCHANGED <<server, now, nodeVars>>
           /\ plugins'.ex = plugins.ex /\ plugins'.val = plugins.val
           /\ plugins'.mark = now /\ pc = "annotatePlugins" /\ pc' = "return"
BY DEF TypeOK, PluginsConfigMap, nodeVars, Undisturbed, NoFaults, WriteFails,
       annotatePlugins, Annotated

\* The marker is removed once the command has run on all nodes.
LEMMA RemoveFlagFacts ==
    ASSUME Undisturbed, TypeOK, removePluginsConfigUpdatedFlag
    PROVE  /\ UNCHANGED <<server, now, nodeVars>>
           /\ plugins'.ex = plugins.ex /\ plugins'.val = plugins.val
           /\ plugins'.mark = 0 /\ pc' = "cliFlags"
           /\ pc = "cliPlugins" /\ idx = mem.spec.replicas
<1>1. cached.plugins = plugins
  BY CachedIsCurrent DEF Undisturbed
<1>2. ~WriteFails
  BY DEF WriteFails, Undisturbed, NoFaults
<1>3. /\ pc = "cliPlugins" /\ idx = mem.spec.replicas /\ pc' = "cliFlags"
      /\ plugins' = [plugins EXCEPT !.mark = 0] /\ now' = now
      /\ UNCHANGED server /\ UNCHANGED nodeVars
  BY <1>1, <1>2, Zenon DEF removePluginsConfigUpdatedFlag
<1>4. QED
  BY <1>3 DEF TypeOK, PluginsConfigMap

\* What the writes of the server config map do.
LEMMA BuildServerFacts ==
    ASSUME TypeOK, buildServer
    PROVE  /\ UNCHANGED <<plugins, now, nodeVars>> /\ pc = "build"
           /\ server'.ex /\ server'.conf = serverConf(mem.spec)
           /\ server'.ann = ReconcileAnnotations(server.ann)
           /\ server'.mark = server.mark
           /\ (pc' = "annotateServer") <=>
                 server.ex /\ (server'.conf # server.conf \/ server'.ann # server.ann)
<1>1. /\ server' = wantServer /\ cached.server = server /\ pc = "build"
      /\ UNCHANGED <<plugins, now, nodeVars>>
      /\ pc' = IF server.ex /\ UpdateRequiresStsRestart THEN "annotateServer" ELSE "return"
  BY DEF buildServer, Built, envVars, nodeVars
<1>2. /\ wantServer.ex /\ wantServer.conf = serverConf(mem.spec)
      /\ wantServer.ann = ReconcileAnnotations(server.ann)
      /\ wantServer.mark = server.mark
  BY <1>1 DEF wantServer, TypeOK, ServerConfigMap
<1>3. QED
  BY <1>1, <1>2 DEF UpdateRequiresStsRestart

\* The marker is put on it in a second write.
LEMMA AnnotateServerFacts ==
    ASSUME Undisturbed, TypeOK, annotateServer
    PROVE  /\ UNCHANGED <<plugins, now, nodeVars>>
           /\ server'.ex = server.ex /\ server'.conf = server.conf
           /\ server'.ann = server.ann /\ server'.mark = now
           /\ pc = "annotateServer" /\ pc' = "return"
BY DEF TypeOK, ServerConfigMap, nodeVars, Undisturbed, NoFaults, WriteFails,
       annotateServer, Annotated

\* What rabbitmq-plugins set does to the node it runs on.
LEMMA SetPluginsFacts ==
    ASSUME TypeOK, runSetPluginsCommand
    PROVE  /\ UNCHANGED <<server, plugins, now, sts>> /\ pc = "cliPlugins"
           /\ \/ UNCHANGED pod /\ pc' = "return"
              \/ /\ pc' = "cliPlugins" /\ idx' = idx + 1 /\ idx \in Node /\ mem' = mem
                 /\ \A j \in Node : j # idx => pod'[j].plugins = pod[j].plugins
                 /\ pod'[idx].plugins = mem.spec.plugins
           /\ \A j \in Node :
                 /\ pod'[j].up = pod[j].up /\ pod'[j].template = pod[j].template
                 /\ pod'[j].restartAt = pod[j].restartAt /\ pod'[j].conf = pod[j].conf
<1>a. idx < mem.spec.replicas
  BY DEF runSetPluginsCommand
<1>b. idx \in Nat /\ mem.spec.replicas \in 0..MaxReplicas
  BY DEF TypeOK, Cluster, ClusterSpec
<1>1. idx \in Node
  BY <1>a, <1>b, ConstantsAssumption DEF Node
<1>2. QED
  BY <1>1 DEF runSetPluginsCommand, CLIFails, TypeOK, Pod, childVars, nodeVars, memVars

\* The clock is ahead of all restarts and changes.
LEMMA TimesStep ==
    ASSUME Undisturbed, TypeOK, RollInv, TimesInv, [Next]_vars PROVE TimesInv'
<1> USE DEF TimesInv
<1>a. /\ now \in Nat /\ server.mark \in Nat
      /\ \A i \in Node : sts[i].restartAt \in Nat /\ pod[i].restartAt \in Nat
  BY DEF TypeOK, ServerConfigMap, StatefulSet, Pod, Time
<1>1. CASE UNCHANGED <<now, nodeVars>> /\ server'.mark \in {server.mark, now}
  BY <1>1, <1>a DEF nodeVars
<1>2. CASE buildPlugins \/ annotatePlugins \/ removePluginsConfigUpdatedFlag
  BY <1>1, <1>2, BuildPluginsFacts, AnnotatePluginsFacts, RemoveFlagFacts
<1>3. CASE buildServer \/ annotateServer
  BY <1>1, <1>3, BuildServerFacts, AnnotateServerFacts
<1>4. CASE Still
  BY <1>4 DEF Still, NodeFacts, Facts
<1>5. CASE runSetPluginsCommand
  BY <1>5, SetPluginsFacts
<1>6. CASE tick
  BY <1>6, <1>a DEF tick, childVars, nodeVars
<1>7. CASE \E i \in Node : buildSts(i)
  BY <1>7, BuildStsFacts
<1>8. CASE \E i \in Node : restartStatefulSetIfNeeded(i)
  <2>1. PICK i \in Node : restartStatefulSetIfNeeded(i)
    BY <1>8
  <2>2. sts'[i].restartAt = now
    BY <2>1, RestartFacts
  <2>3. QED
    BY <2>1, <2>2, <1>a, RestartFacts
<1>9. CASE \E i \in Node : NodeStep(i) \/ podFail(i)
  <2>1. PICK i \in Node : NodeStep(i) \/ podFail(i)
    BY <1>9
  <2>2. pod'[i].restartAt \in {pod[i].restartAt, sts[i].restartAt}
    BY <2>1, PodFacts
  <2>3. QED
    BY <2>1, <2>2, PodFacts
<1>10. QED
  BY <1>2, <1>3, <1>4, <1>5, <1>6, <1>7, <1>8, <1>9, NodeEffect DEF NodeChange

\* The config maps are never taken away.
LEMMA OrderStep ==
    ASSUME Undisturbed, TypeOK, RollInv, OrderInv, [Next]_vars PROVE OrderInv'
<1> USE DEF OrderInv
<1>1. CASE buildPlugins \/ annotatePlugins \/ removePluginsConfigUpdatedFlag
  BY <1>1, BuildPluginsFacts, AnnotatePluginsFacts, RemoveFlagFacts DEF nodeVars
<1>2. CASE buildServer \/ annotateServer
  BY <1>2, BuildServerFacts, AnnotateServerFacts DEF nodeVars
<1>3. CASE Still
  BY <1>3 DEF Still, NodeFacts, Facts
<1>4. CASE runSetPluginsCommand
  BY <1>4, SetPluginsFacts
<1>5. CASE tick
  BY <1>5 DEF tick, childVars, nodeVars
<1>6. CASE \E i \in Node : buildSts(i)
  BY <1>6, BuildStsFacts
<1>7. CASE \E i \in Node : restartStatefulSetIfNeeded(i)
  BY <1>7, RestartFacts
<1>8. CASE \E i \in Node : NodeStep(i) \/ podFail(i)
  BY <1>8, PodFacts
<1>9. QED
  BY <1>1, <1>2, <1>3, <1>4, <1>5, <1>6, <1>7, <1>8, NodeEffect DEF NodeChange

\* A node is outdated from the write of its StatefulSet to the start of its pod.
LEMMA UpdatingStep ==
    ASSUME Undisturbed, TypeOK, RollInv, UpdatingInv, [Next]_vars PROVE UpdatingInv'
<1> USE DEF UpdatingInv, Outdated, RunsTemplate
<1>1. CASE UNCHANGED nodeVars
  BY <1>1 DEF nodeVars
<1>2. CASE buildPlugins \/ annotatePlugins \/ removePluginsConfigUpdatedFlag
           \/ buildServer \/ annotateServer \/ tick
  BY <1>1, <1>2, BuildPluginsFacts, AnnotatePluginsFacts, RemoveFlagFacts,
     BuildServerFacts, AnnotateServerFacts DEF tick
<1>3. CASE Still
  BY <1>3 DEF Still, NodeFacts, Facts
<1>4. CASE runSetPluginsCommand
  BY <1>4, SetPluginsFacts
<1>5. CASE \E i \in Node : buildSts(i)
  <2>1. PICK i \in Node : buildSts(i)
    BY <1>5
  <2>2. \A j \in Node : ~Outdated(j)
    BY <2>1, BuildStsFacts DEF RollInv, PostWait
  <2>3. QED
    BY <2>1, <2>2, BuildStsFacts
<1>6. CASE \E i \in Node : restartStatefulSetIfNeeded(i)
  <2>1. PICK i \in Node : restartStatefulSetIfNeeded(i)
    BY <1>6
  <2>2. \A j \in Node : ~Outdated(j)
    BY <2>1, RestartFacts DEF RollInv, PostWait
  <2>3. cached.sts = sts
    BY CachedIsCurrent DEF Undisturbed
  <2>4. NeedsRestart(i)
    BY <2>1, RestartFacts
  <2>5. sts[i].ex
    BY <2>3, <2>4 DEF NeedsRestart
  <2>6. QED
    BY <2>1, <2>2, <2>5, RestartFacts
<1>7. CASE \E i \in Node : NodeStep(i) \/ podFail(i)
  <2>1. PICK i \in Node : NodeStep(i) \/ podFail(i)
    BY <1>7
  <2>2. sts'[i].updating => Outdated(i)'
    BY <2>1, PodFacts
  <2>3. \A j \in Node : j # i => sts'[j] = sts[j] /\ pod'[j] = pod[j]
    BY <2>1, PodFacts
  <2>4. QED
    BY <2>2, <2>3
<1>8. QED
  BY <1>2, <1>3, <1>4, <1>5, <1>6, <1>7, NodeEffect DEF NodeChange

\* A new server configuration marks the nodes that do not have it.
LEMMA ConfStep ==
    ASSUME Undisturbed, TypeOK, RollInv, TimesInv, OrderInv, ConfInv, [Next]_vars
    PROVE  ConfInv'
<1>a. ~Crash /\ PcStep
  BY Pipeline DEF Crash, NoFaults, Undisturbed
<1>b. now \in Nat \ {0}
  BY DEF TypeOK
<1> SUFFICES ASSUME NEW i \in Node, pod'[i].up, pod'[i].conf # server'.conf,
                    pc' # "annotateServer"
             PROVE  server'.mark > 0 /\ pod'[i].restartAt <= server'.mark
  BY DEF ConfInv
\* Without a write of the config map, a pod that has not just started was behind.
<1>1. CASE /\ server' = server /\ pc # "annotateServer"
           /\ pod'[i].up = pod[i].up /\ pod'[i].conf = pod[i].conf
           /\ pod'[i].restartAt = pod[i].restartAt
  BY <1>1 DEF ConfInv
<1>2. CASE annotateServer
  BY <1>2, <1>b, AnnotateServerFacts DEF TimesInv, nodeVars
<1>3. CASE buildServer
  <2>1. pod' = pod /\ pc = "build" /\ server'.mark = server.mark
    BY <1>3, BuildServerFacts DEF nodeVars
  <2>2. server.ex
    BY <2>1 DEF OrderInv, RollInv
  <2>3. server'.conf = server.conf
    BY <1>3, <2>2, BuildServerFacts
  <2>4. QED
    BY <2>1, <2>3 DEF ConfInv
<1>4. CASE buildPlugins \/ annotatePlugins \/ removePluginsConfigUpdatedFlag
  BY <1>1, <1>4, BuildPluginsFacts, AnnotatePluginsFacts, RemoveFlagFacts DEF nodeVars
<1>5. CASE Still
  <2>1. pc # "annotateServer" \/ annotateServer
    BY <1>a DEF PcStep, annotatePlugins, annotateSts
  <2>2. QED
    BY <1>1, <1>2, <1>5, <2>1 DEF Still, NodeFacts, Facts
<1>6. CASE runSetPluginsCommand
  BY <1>1, <1>6, SetPluginsFacts
<1>7. CASE tick
  BY <1>1, <1>7 DEF tick, childVars, nodeVars
<1>8. CASE \E j \in Node : buildSts(j) \/ restartStatefulSetIfNeeded(j)
  BY <1>1, <1>8, BuildStsFacts, RestartFacts
<1>9. CASE \E j \in Node : NodeStep(j) \/ podFail(j)
  <2>1. PICK j \in Node : NodeStep(j) \/ podFail(j)
    BY <1>9
  <2>2. i # j
    BY <2>1, PodFacts
  <2>3. QED
    BY <1>1, <2>1, <2>2, PodFacts
<1>10. QED
  BY <1>2, <1>3, <1>4, <1>5, <1>6, <1>7, <1>8, <1>9, NodeEffect DEF NodeChange

\* When all nodes of the spec exist and there are as many, there are no others.
LEMMA ExistingAll ==
    ASSUME TypeOK, Applied(mem.spec), Cardinality(Existing) = mem.spec.replicas
    PROVE  Existing = 0 .. mem.spec.replicas - 1
<1>1. mem.spec.replicas \in 1..MaxReplicas /\ MaxReplicas \in Nat
  BY ConstantsAssumption DEF TypeOK, Cluster, ClusterSpec
<1> DEFINE n == mem.spec.replicas
           S == 0 .. n - 1
<1>2. S \subseteq Existing
  BY <1>1 DEF Applied, Existing, Node
<1>3. IsFiniteSet(Existing)
  <2>1. IsFiniteSet(Node)
    BY <1>1, FS_Interval DEF Node
  <2>2. Existing \in SUBSET Node
    BY DEF Existing
  <2>3. QED
    BY <2>1, <2>2, FS_Subset
<1>4. Cardinality(S) = n
  <2>1. 0 \in Int /\ n - 1 \in Int
    BY <1>1
  <2>2. Cardinality(S) = IF 0 > n - 1 THEN 0 ELSE (n - 1) - 0 + 1
    BY <2>1, FS_Interval
  <2>3. QED
    BY <1>1, <2>2
<1>5. QED
  BY <1>2, <1>3, <1>4, FS_Subset

\* But for the builders and restarts, what the nodes are to run stays as it is.
LEMMA WantedStays ==
    ASSUME Undisturbed, TypeOK, RollInv, [Next]_vars, NEW i \in Node
    PROVE  \/ \E j \in Node : buildSts(j) \/ restartStatefulSetIfNeeded(j)
           \/ /\ sts'[i].ex = sts[i].ex /\ sts'[i].template = sts[i].template
              /\ sts'[i].restartAt = sts[i].restartAt
<1>1. CASE Still
  BY <1>1 DEF Still, NodeFacts, Facts
<1>2. CASE UNCHANGED nodeVars
  BY <1>2 DEF nodeVars
<1>3. CASE buildPlugins \/ annotatePlugins \/ removePluginsConfigUpdatedFlag
           \/ buildServer \/ annotateServer \/ tick
  BY <1>2, <1>3, BuildPluginsFacts, AnnotatePluginsFacts, RemoveFlagFacts,
     BuildServerFacts, AnnotateServerFacts DEF tick
<1>4. CASE runSetPluginsCommand
  BY <1>4, SetPluginsFacts
<1>5. CASE \E j \in Node : NodeStep(j) \/ podFail(j)
  <2>1. PICK j \in Node : NodeStep(j) \/ podFail(j)
    BY <1>5
  <2>2. QED
    BY <2>1, PodFacts
<1>6. QED
  BY <1>1, <1>3, <1>4, <1>5, NodeEffect DEF NodeChange

\* A pod that is up and runs its template goes on running.
LEMMA PodStays ==
    ASSUME Undisturbed, TypeOK, RollInv, [Next]_vars, NEW i \in Node,
           pod[i].up, ~Outdated(i)
    PROVE  /\ pod'[i].up /\ pod'[i].conf = pod[i].conf
           /\ pod'[i].template = pod[i].template /\ pod'[i].restartAt = pod[i].restartAt
           /\ pod'[i].plugins = pod[i].plugins \/ runSetPluginsCommand
<1>1. CASE Still
  BY <1>1 DEF Still, NodeFacts, Facts
<1>2. CASE UNCHANGED pod
  BY <1>2
<1>3. CASE buildPlugins \/ annotatePlugins \/ removePluginsConfigUpdatedFlag
           \/ buildServer \/ annotateServer \/ tick
  BY <1>2, <1>3, BuildPluginsFacts, AnnotatePluginsFacts, RemoveFlagFacts,
     BuildServerFacts, AnnotateServerFacts DEF tick, nodeVars
<1>4. CASE runSetPluginsCommand
  BY <1>4, SetPluginsFacts
<1>5. CASE \E j \in Node : buildSts(j) \/ restartStatefulSetIfNeeded(j)
  BY <1>2, <1>5, BuildStsFacts, RestartFacts
<1>6. CASE \E j \in Node : NodeStep(j) \/ podFail(j)
  <2>1. PICK j \in Node : NodeStep(j) \/ podFail(j)
    BY <1>6
  <2>2. i # j
    BY <2>1, PodFacts
  <2>3. QED
    BY <2>1, <2>2, PodFacts
<1>7. QED
  BY <1>1, <1>3, <1>4, <1>5, <1>6, NodeEffect DEF NodeChange

\* No node is added or stopped while the commands run.
LEMMA CommandsStep ==
    ASSUME Undisturbed, TypeOK, FreshInv, AppliedInv, RollInv, CommandsInv, [Next]_vars
    PROVE  CommandsInv'
<1> SUFFICES ASSUME pc' \in Commands
             PROVE  Existing' = 0 .. mem'.spec.replicas - 1
                    /\ \A i \in Existing' : pod'[i].up
  BY DEF CommandsInv
<1>1. PcStep /\ mem'.spec = mem.spec
  BY Pipeline, PostBuildStep DEF Commands, PostBuild
<1>2. CASE pc \in Commands
  <2>1. \A i \in Node : sts'[i].ex = sts[i].ex
    BY <1>2, WantedStays DEF buildSts, restartStatefulSetIfNeeded, Commands
  <2>2. Existing' = Existing
    BY <2>1 DEF Existing
  <2>3. \A i \in Node : ~Outdated(i)
    BY <1>2 DEF RollInv, PostWait, Commands
  <2>4. \A i \in Existing : pod'[i].up
    BY <1>2, <2>3, PodStays DEF CommandsInv, Existing
  <2>5. QED
    BY <1>1, <1>2, <2>2, <2>4 DEF CommandsInv
<1>3. CASE /\ reconcileRabbitmqCLI /\ allReplicasReadyAndUpdated
           /\ Cardinality(Listed) = mem.spec.replicas
  <2>0. Listed = Existing /\ \A i \in Node : cached.up[i] = pod[i].up
    BY CachedIsCurrent DEF Undisturbed
  <2>1. Applied(mem.spec)
    BY <1>3 DEF AppliedInv, reconcileRabbitmqCLI
  <2>2. Existing = 0 .. mem.spec.replicas - 1
    BY <1>3, <2>0, <2>1, ExistingAll
  <2>3. sts' = sts /\ pod' = pod
    BY <1>3 DEF reconcileRabbitmqCLI
  <2>4. Existing' = Existing
    BY <2>3 DEF Existing
  <2>5. QED
    BY <1>1, <1>3, <2>0, <2>2, <2>3, <2>4 DEF allReplicasReadyAndUpdated, Existing
<1>4. QED
  BY <1>1, <1>2, <1>3 DEF PcStep

\* No node becomes due for a restart between restartStatefulSetIfNeeded and the end.
LEMMA RestartStep ==
    ASSUME Undisturbed, TypeOK, RollInv, RestartInv, [Next]_vars PROVE RestartInv'
<1> SUFFICES ASSUME pc' \in PostBuild \ {"restart"}, NEW i \in Node
             PROVE  ~Due(i)'
  BY DEF RestartInv
<1>1. PcStep
  BY Pipeline
<1>2. CASE pc \in PostBuild \ {"restart"}
  <2>1. sts'[i].ex = sts[i].ex /\ sts'[i].restartAt = sts[i].restartAt
    BY <1>2, WantedStays DEF buildSts, restartStatefulSetIfNeeded, PostBuild
  <2>2. server' = server
    BY <1>2, ConfigMapEffect DEF buildServer, annotateServer, PostBuild
  <2>3. QED
    BY <1>2, <2>1, <2>2 DEF RestartInv, Due
<1>3. CASE noRestartNeeded
  <2>1. ~NeedsRestart(i) /\ UNCHANGED <<server, sts>>
    BY <1>3 DEF noRestartNeeded, NoChildWrite, childVars, nodeVars
  <2>2. QED
    BY <2>1, CachedIsCurrent DEF NeedsRestart, Due, Undisturbed
<1>4. QED
  BY <1>1, <1>2, <1>3 DEF PcStep

\* The marker of the reconciled cluster got to the server config map, and only its
\* removal after the command makes the cache differ.
LEMMA MarkerInvStep ==
    ASSUME Undisturbed, TypeOK, FreshInv, MarkerInv, [Next]_vars PROVE MarkerInv'
<1>1. PcStep /\ MarkerStep /\ CopiesStep
  BY Pipeline, MarkerSteps, CopiesEffect
<1>2. server'.ann = server.ann \/ buildServer
  BY ConfigMapEffect, AnnotateServerFacts
<1>3. ASSUME pc' \in PostBuild PROVE mem'.rebal \in {0, server'.ann}
  <2>1. CASE buildDone
    <3>1. cached.server = wantServer /\ server' = server /\ mem' = mem
          /\ cached.server = server
      BY <2>1, CachedIsCurrent
         DEF buildDone, StsDone, RbacDone, ServerDone, Continue, NoChildWrite,
             memVars, childVars, Undisturbed
    <3>2. server.ann = ReconcileAnnotations(server.ann)
      BY <3>1 DEF wantServer, TypeOK, ServerConfigMap
    <3>3. QED
      BY <3>1, <3>2 DEF ReconcileAnnotations
  <2>2. CASE pc \in PostBuild
    <3>1. mem.rebal \in {0, server.ann}
      BY <2>2 DEF MarkerInv
    <3>2. server'.ann = server.ann
      BY <1>2, <2>2 DEF buildServer, PostBuild
    <3>3. ~MarkerSet /\ ~getRabbitmqCluster
      BY <2>2 DEF MarkerSet, getRabbitmqCluster, PostBuild
    <3>4. QED
      BY <1>1, <3>1, <3>2, <3>3 DEF MarkerStep
  <2>3. QED
    BY <1>1, <1>3, <2>1, <2>2 DEF PcStep
<1>4. ASSUME memFresh', pc' \notin {"idle", "return"}
      PROVE  \/ cache'.rebal = mem'.rebal
             \/ mem'.rebal = 0 /\ cache'.rebal = server'.ann
  <2>1. CASE ReadFromCache
    BY <2>1 DEF ReadFromCache
  <2>2. CASE ~ReadFromCache
    <3>a. ~getRabbitmqCluster
      BY <2>2 DEF getRabbitmqCluster, rmqVars, ReadFromCache
    <3>1. memFresh /\ mem.rebal = rmq.rebal
      BY <1>1, <1>4, <3>a DEF MarkerStep, FreshInv
    <3>2. pc \notin {"idle", "return"}
      BY <1>1, <1>4, <2>2 DEF CopiesStep, InReconcile, EndReconcile, SyncCache, UserWrote
    <3>3. \/ cache.rebal = mem.rebal
          \/ mem.rebal = 0 /\ cache.rebal = server.ann
      BY <3>1, <3>2 DEF MarkerInv
    <3>4. CASE MarkerRemoved
      <4>1. server'.ann = server.ann /\ mem.rebal \in {0, server.ann}
        BY <1>2, <3>4 DEF MarkerRemoved, buildServer, MarkerInv, PostBuild
      <4>2. QED
        BY <1>1, <1>4, <3>a, <3>1, <3>3, <3>4, <4>1
           DEF MarkerStep, MarkerSet, MarkerRemoved
    <3>5. CASE ~MarkerRemoved
      <4>1. mem'.rebal = mem.rebal
        BY <1>1, <1>4, <3>a, <3>5 DEF MarkerStep, MarkerSet
      <4>2. mem.rebal = 0 => server'.ann = server.ann
        BY <1>2, BuildServerFacts DEF ReconcileAnnotations
      <4>3. QED
        BY <1>1, <3>1, <3>3, <4>1, <4>2 DEF MarkerStep
    <3>6. QED
      BY <3>4, <3>5
  <2>3. QED
    BY <2>1, <2>2
<1>5. QED
  BY <1>3, <1>4 DEF MarkerInv

\* The command has set the plugins of all nodes when the marker is removed.
LEMMA PluginsStep ==
    ASSUME Undisturbed, TypeOK, AppliedInv, RollInv, OrderInv, PluginsInv, CommandsInv,
           [Next]_vars
    PROVE  PluginsInv'
<1>a. PcStep /\ ~Crash
  BY Pipeline DEF Crash, NoFaults, Undisturbed
<1>b. idx \in Int /\ \A i \in Node : i \in Int /\ 0 <= i
  BY ConstantsAssumption DEF TypeOK, Node
<1>c. pc = "cliPlugins" => mem.spec.plugins = plugins.val
  BY DEF AppliedInv, Applied
<1>1. ASSUME NEW i \in Node, pod'[i].up, pod'[i].plugins # plugins'.val,
             pc' # "annotatePlugins"
      PROVE  plugins'.mark > 0
  \* Without a write of the config map, a pod that has not just started was behind.
  <2>1. CASE /\ plugins' = plugins /\ pc # "annotatePlugins"
             /\ pod'[i].up = pod[i].up /\ pod'[i].plugins = pod[i].plugins
    BY <1>1, <2>1 DEF PluginsInv
  <2>2. CASE annotatePlugins
    BY <2>2, AnnotatePluginsFacts DEF TypeOK
  <2>3. CASE buildPlugins
    <3>1. ~plugins.ex /\ pod' = pod
      BY <1>1, <2>3, BuildPluginsFacts DEF nodeVars
    <3>2. QED
      BY <1>1, <3>1 DEF OrderInv, RollInv
  <2>4. CASE removePluginsConfigUpdatedFlag
    <3>1. /\ pod' = pod /\ plugins'.val = plugins.val
          /\ pc = "cliPlugins" /\ idx = mem.spec.replicas
      BY <2>4, RemoveFlagFacts DEF nodeVars
    <3>2. i \in Existing
      BY <1>1, <3>1 DEF RollInv, Existing
    <3>3. i < idx
      BY <1>b, <3>1, <3>2 DEF CommandsInv, Commands
    <3>4. QED
      BY <1>1, <3>1, <3>3 DEF PluginsInv
  <2>5. CASE Still
    <3>1. pc # "annotatePlugins" \/ annotatePlugins
      BY <1>1, <1>a DEF PcStep, annotateServer, annotateSts
    <3>2. QED
      BY <2>1, <2>2, <2>5, <3>1 DEF Still, NodeFacts, Facts
  <2>6. CASE runSetPluginsCommand
    <3>1. pod'[i].plugins = pod[i].plugins
      BY <1>1, <1>c, <2>6, SetPluginsFacts
    <3>2. QED
      BY <2>1, <2>6, <3>1, SetPluginsFacts
  <2>7. CASE buildServer \/ annotateServer \/ tick
    BY <2>1, <2>7, BuildServerFacts, AnnotateServerFacts DEF tick, childVars, nodeVars
  <2>8. CASE \E j \in Node : buildSts(j) \/ restartStatefulSetIfNeeded(j)
    BY <2>1, <2>8, BuildStsFacts, RestartFacts
  <2>9. CASE \E j \in Node : NodeStep(j) \/ podFail(j)
    <3>1. PICK j \in Node : NodeStep(j) \/ podFail(j)
      BY <2>9
    <3>2. i # j
      BY <1>1, <3>1, PodFacts
    <3>3. QED
      BY <1>1, <2>1, <3>1, <3>2, PodFacts
  <2>10. QED
    BY <2>2, <2>3, <2>4, <2>5, <2>6, <2>7, <2>8, <2>9, NodeEffect DEF NodeChange
<1>2. ASSUME pc' = "cliPlugins", NEW i \in Node, i < idx', pod'[i].up
      PROVE  pod'[i].plugins = plugins'.val
  <2>1. pc = "cliPlugins" /\ (idx' = idx \/ runSetPluginsCommand)
    BY <1>2, <1>a, <1>b DEF PcStep
  <2>2. plugins' = plugins
    BY <1>2, <2>1, ConfigMapEffect, RemoveFlagFacts DEF buildPlugins, annotatePlugins
  <2>3. CASE runSetPluginsCommand
    <3>1. /\ idx' = idx + 1 /\ pod'[i].up = pod[i].up
          /\ i # idx => pod'[i].plugins = pod[i].plugins
          /\ i = idx => pod'[i].plugins = mem.spec.plugins
      BY <1>2, <2>3, SetPluginsFacts
    <3>2. QED
      BY <1>2, <1>b, <1>c, <2>1, <2>2, <3>1 DEF PluginsInv
  <2>4. CASE ~runSetPluginsCommand
    <3>1. ~Outdated(i)
      BY <2>1 DEF RollInv, PostWait
    <3>2. CASE pod[i].up
      <4>1. pod'[i].plugins = pod[i].plugins
        BY <2>4, <3>1, <3>2, PodStays
      <4>2. QED
        BY <1>2, <2>1, <2>2, <2>4, <3>2, <4>1 DEF PluginsInv
    <3>3. CASE ~pod[i].up
      <4>1. CASE Still
        BY <1>2, <3>3, <4>1 DEF Still, NodeFacts, Facts
      <4>2. CASE \E j \in Node : NodeStep(j) \/ podFail(j)
        <5>1. PICK j \in Node : NodeStep(j) \/ podFail(j)
          BY <4>2
        <5>2. QED
          BY <1>2, <2>2, <3>3, <5>1, PodFacts
      <4>3. QED
        BY <1>2, <2>1, <2>4, <4>1, <4>2, NodeEffect, RemoveFlagFacts
           DEF NodeChange, buildPlugins, annotatePlugins, buildServer, annotateServer,
               tick, buildSts, restartStatefulSetIfNeeded
    <3>4. QED
      BY <3>2, <3>3
  <2>5. QED
    BY <2>3, <2>4
<1>3. ASSUME pc' \in PluginsSet PROVE plugins'.mark = 0
  <2>1. CASE pc \in PluginsSet
    BY <2>1, ConfigMapEffect
       DEF buildPlugins, annotatePlugins, removePluginsConfigUpdatedFlag, PluginsSet,
           PluginsInv
  <2>2. CASE reconcileRabbitmqCLI /\ cached.plugins.mark = 0
    BY <2>2, CachedIsCurrent DEF reconcileRabbitmqCLI, childVars, Undisturbed
  <2>3. QED
    BY <1>3, <1>a, <2>1, <2>2 DEF PcStep
<1>4. QED
  BY <1>1, <1>2, <1>3 DEF PluginsInv

\* What the last command finds: nothing is left to do.
LEMMA CommandsDone ==
    ASSUME IndInv, AppliedInv, RollInv, DeployInv, pc = "cliRebalance", memFresh
    PROVE  Calm
<1> USE DEF IndInv, DeployInv
<1>1. mem.spec = rmq.spec /\ mem.rebal = rmq.rebal
  BY DEF FreshInv
<1>2. {rmq.rebal, cache.rebal, mem.rebal} \subseteq {0, server.ann}
  BY <1>1 DEF MarkerInv, PostBuild
<1>3. \A i \in Node : ~Outdated(i) /\ ~Due(i)
  BY DEF RollInv, PostWait, RestartInv, PostBuild
<1>4. ASSUME NEW i \in Node, i < rmq.spec.replicas
      PROVE  pod[i].up /\ pod[i].conf = server.conf /\ pod[i].plugins = plugins.val
  <2>1. sts[i].ex
    BY <1>1, <1>4 DEF AppliedInv, Applied
  <2>2. pod[i].up
    BY <2>1 DEF CommandsInv, Commands, Existing
  <2>3. pod[i].restartAt = sts[i].restartAt
    BY <1>3, <2>1 DEF Outdated, RunsTemplate
  <2>4. pod[i].conf = server.conf
    BY <1>3, <2>1, <2>2, <2>3 DEF ConfInv, Due
  <2>5. plugins.mark = 0
    BY DEF PluginsInv, PluginsSet
  <2>6. pod[i].plugins = plugins.val
    BY <2>2, <2>5 DEF PluginsInv
  <2>7. QED
    BY <2>2, <2>4, <2>6
<1>5. QED
  BY <1>2, <1>3, <1>4 DEF Calm

\* While the reconciled spec is the applied one and nothing is left to do, no step of
\* the operator, of a node or of the informer leaves something to do.
LEMMA CalmKept ==
    ASSUME Undisturbed, TypeOK, FreshInv, RollInv, UpdatingInv, [Next]_vars,
           Applied(rmq.spec), pc # "idle" => mem.spec = rmq.spec,
           rmq'.spec = rmq.spec, Calm
    PROVE  Calm'
<1>a. PcStep /\ MarkerStep
  BY Pipeline, MarkerSteps
<1>1. ASSUME buildServer
      PROVE  /\ pc' # "annotateServer" /\ server'.conf = server.conf
             /\ server'.ann = server.ann /\ server'.mark = server.mark
  <2>1. mem.spec = rmq.spec
    BY <1>1 DEF buildServer
  <2>2. ReconcileAnnotations(server.ann) = server.ann
    BY DEF ReconcileAnnotations, Calm
  <2>3. QED
    BY <1>1, <2>1, <2>2, BuildServerFacts DEF Applied
<1>2. pc' # "annotateServer"
  BY <1>1, <1>a DEF PcStep, Calm
<1>3. /\ server'.conf = server.conf /\ server'.ann = server.ann
      /\ server'.mark = server.mark
  BY <1>1, ConfigMapEffect DEF annotateServer, Calm
<1>4. plugins'.val = plugins.val
  <2>1. CASE buildPlugins
    BY <2>1, BuildPluginsFacts DEF Applied
  <2>2. QED
    BY <2>1, ConfigMapEffect, AnnotatePluginsFacts, RemoveFlagFacts
<1>5. {rmq'.rebal, cache'.rebal, mem'.rebal} \subseteq {0, server'.ann}
  <2>1. ~MarkerSet
    BY CachedIsCurrent DEF MarkerSet, UpdatingInv, Calm, Undisturbed
  <2>2. getRabbitmqCluster => mem'.rebal = cache.rebal
    BY DEF getRabbitmqCluster
  <2>3. QED
    BY <1>a, <1>3, <2>1, <2>2 DEF MarkerStep, Calm
<1>6. ASSUME NEW i \in Node
      PROVE  /\ sts'[i].restartAt = sts[i].restartAt
             /\ sts'[i].ex = sts[i].ex /\ sts'[i].template = sts[i].template
  <2>1. \A j \in Node : ~restartStatefulSetIfNeeded(j)
    BY CachedIsCurrent DEF restartStatefulSetIfNeeded, NeedsRestart, Due, Calm, Undisturbed
  <2>2. CASE \E j \in Node : buildSts(j)
    <3>1. PICK j \in Node : buildSts(j)
      BY <2>2
    <3>2. mem.spec = rmq.spec /\ j < rmq.spec.replicas
      BY <3>1, BuildStsFacts
    <3>3. sts[j].ex /\ sts[j].template = podTemplate(mem.spec)
      BY <3>2 DEF Applied
    <3>4. sts'[j].ex /\ sts[j].ex \in BOOLEAN /\ sts'[j].ex \in BOOLEAN
      BY <3>1, BuildStsFacts, ObjectTypeStep DEF TypeOK, ObjectType, StatefulSet
    <3>5. CASE i = j
      BY <3>1, <3>3, <3>4, <3>5, BuildStsFacts
    <3>6. CASE i # j
      BY <3>1, <3>6, BuildStsFacts
    <3>7. QED
      BY <3>5, <3>6
  <2>3. QED
    BY <2>1, <2>2, WantedStays
<1>7. ASSUME NEW i \in Node PROVE ~Outdated(i)' /\ ~Due(i)'
  <2>1. ~Due(i)'
    BY <1>3, <1>6 DEF Due, Calm
  <2>2. ~Outdated(i)'
    <3>1. ~sts[i].ex \/ RunsTemplate(i)
      BY DEF Calm, Outdated
    <3>2. CASE pod'[i].template = pod[i].template /\ pod'[i].restartAt = pod[i].restartAt
      BY <1>6, <3>1, <3>2 DEF Outdated, RunsTemplate
    <3>3. CASE pod[i].up
      BY <3>2, <3>3, PodStays DEF Calm
    <3>4. CASE \E j \in Node : NodeStep(j) \/ podFail(j)
      <4>1. PICK j \in Node : NodeStep(j) \/ podFail(j)
        BY <3>4
      <4>2. CASE i = j
        BY <1>6, <3>2, <4>1, <4>2, PodFacts DEF Outdated, RunsTemplate
      <4>3. CASE i # j
        BY <3>2, <4>1, <4>3, PodFacts
      <4>4. QED
        BY <4>2, <4>3
    <3>5. CASE Still
      BY <3>2, <3>5 DEF Still, NodeFacts, Facts
    <3>6. CASE pod' = pod
      BY <3>2, <3>6
    <3>7. CASE \E j \in Node : buildSts(j) \/ restartStatefulSetIfNeeded(j)
      BY <3>6, <3>7, BuildStsFacts, RestartFacts
    <3>8. CASE buildPlugins \/ annotatePlugins \/ removePluginsConfigUpdatedFlag
               \/ buildServer \/ annotateServer \/ tick
      BY <3>6, <3>8, BuildPluginsFacts, AnnotatePluginsFacts, RemoveFlagFacts,
         BuildServerFacts, AnnotateServerFacts DEF tick, nodeVars
    <3>9. CASE runSetPluginsCommand
      BY <3>2, <3>9, SetPluginsFacts
    <3>10. QED
      BY <3>4, <3>5, <3>7, <3>8, <3>9, NodeEffect DEF NodeChange
  <2>3. QED
    BY <2>1, <2>2
<1>8. ASSUME NEW i \in Node, i < rmq'.spec.replicas
      PROVE  pod'[i].up /\ pod'[i].conf = server'.conf /\ pod'[i].plugins = plugins'.val
  <2>1. /\ pod[i].up /\ pod[i].conf = server.conf /\ pod[i].plugins = plugins.val
        /\ ~Outdated(i)
    BY <1>8 DEF Calm
  <2>2. pod'[i].up /\ pod'[i].conf = pod[i].conf
    BY <2>1, PodStays
  <2>3. pod'[i].plugins = plugins.val
    <3>1. CASE runSetPluginsCommand
      <4>1. mem.spec.plugins = plugins.val
        BY <3>1 DEF runSetPluginsCommand, Applied
      <4>2. QED
        BY <2>1, <3>1, <4>1, SetPluginsFacts
    <3>2. QED
      BY <2>1, <3>1, PodStays
  <2>4. QED
    BY <1>3, <1>4, <2>1, <2>2, <2>3
<1>9. QED
  BY <1>2, <1>5, <1>7, <1>8 DEF Calm

\* A claim is made, and kept, when nothing is left to do.
LEMMA CalmStep ==
    ASSUME Undisturbed, IndInv, AppliedInv, RollInv, DeployInv, [Next]_vars
    PROVE  CalmInv'
<1> SUFFICES ASSUME Claimed' PROVE Calm'
  BY DEF CalmInv
<1>1. /\ rmq'.spec = rmq.spec
      /\ Claimed \/ (pc = "cliRebalance" /\ memFresh /\ mem.spec = rmq.spec)
  BY ClaimedStep
<1>2. Applied(rmq.spec) /\ (pc # "idle" => mem.spec = rmq.spec)
  BY <1>1, ClaimedSpec DEF IndInv, AppliedInv
<1>3. Calm
  BY <1>1, CommandsDone DEF DeployInv, CalmInv
<1>4. QED
  BY <1>1, <1>2, <1>3, CalmKept DEF IndInv, DeployInv

\* The invariant of deployment is inductive.
LEMMA DeployStep ==
    ASSUME Undisturbed, IndInv, AppliedInv, RollInv, DeployInv, [Next]_vars
    PROVE  DeployInv'
<1>1. TimesInv' /\ OrderInv' /\ UpdatingInv' /\ ConfInv'
  BY TimesStep, OrderStep, UpdatingStep, ConfStep DEF IndInv, DeployInv
<1>2. PluginsInv' /\ CommandsInv' /\ RestartInv' /\ MarkerInv'
  BY PluginsStep, CommandsStep, RestartStep, MarkerInvStep DEF IndInv, DeployInv
<1>3. QED
  BY <1>1, <1>2, CalmStep DEF DeployInv

\* Before the first reconcile there is no node, no marker and no claim.
LEMMA InitDeploy == Init => DeployInv
<1> SUFFICES ASSUME Init PROVE DeployInv
  OBVIOUS
<1>1. /\ server.mark = 0 /\ now = 1 /\ pc = "idle" /\ ~memFresh
      /\ rmq.st.success = "None"
  BY DEF Init, NewCluster, NewStatus
<1>2. \A i \in Node : /\ ~sts[i].ex /\ ~sts[i].updating /\ sts[i].restartAt = 0
                      /\ ~pod[i].up /\ pod[i].restartAt = 0
  BY DEF Init, NoSts, NoPod
<1>3. TimesInv /\ OrderInv /\ UpdatingInv /\ ConfInv
  BY <1>1, <1>2 DEF TimesInv, OrderInv, UpdatingInv, ConfInv
<1>4. PluginsInv /\ CommandsInv /\ RestartInv /\ MarkerInv
  BY <1>1, <1>2 DEF PluginsInv, PluginsSet, CommandsInv, Commands, RestartInv, PostBuild,
                    MarkerInv
<1>5. CalmInv
  BY <1>1 DEF CalmInv, Claimed, Claims
<1>6. QED
  BY <1>3, <1>4, <1>5 DEF DeployInv

\* ReconcileSuccess is True for the current generation only when every node is up and
\* runs the pod template, the server configuration and the plugins of the current
\* spec, through any number of edits of every kind.
THEOREM SuccessDeployed ==
    ASSUME Uninterrupted, MaxPodFailures = 0, StsLag = FALSE, ChildLag = FALSE
    PROVE  Spec => []SuccessMeansDeployed
<1>1. TypeOK /\ RollInv /\ [Next]_vars => RollInv'
  BY RollStep
<1>2. TypeOK /\ BudgetInv => Undisturbed
  BY Faultless DEF BudgetInv, TypeOK, Budget, Undisturbed
<1>3. IndInv /\ AppliedInv /\ RollInv /\ BudgetInv /\ DeployInv /\ [Next]_vars
         => DeployInv'
  BY <1>2, DeployStep DEF IndInv
<1>4. IndInv /\ AppliedInv /\ DeployInv => SuccessMeansDeployed
  <2> SUFFICES ASSUME IndInv, AppliedInv, DeployInv, Observed PROVE Deployed
    BY DEF SuccessMeansDeployed
  <2>1. Claimed
    BY DEF Observed, Claimed, Claims
  <2>2. Calm /\ Applied(rmq.spec)
    BY <2>1, ClaimedSpec DEF DeployInv, CalmInv
  <2>3. QED
    BY <2>2 DEF Calm, Applied, Outdated, RunsTemplate, Deployed
<1>5. QED
  BY <1>1, <1>3, <1>4, InitRoll, InitDeploy, Invariance, AppliedInvariance, TypeCorrect,
     Bounded, PTL DEF Spec

=============================================================================
