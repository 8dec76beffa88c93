# Verification of the RabbitMQ cluster operator

This directory holds TLA+ models of the operator in `src/`, TLC configurations
that check them on small instances, and TLAPS proofs of what is shown for every
instance. `PROJECT.json` lists components, runs, mutants, the map from
definitions to source lines, findings, hazards and theorems.

## 1. The system

The operator watches `RabbitmqCluster` objects and, for each, keeps services,
secrets, config maps, RBAC objects and **one StatefulSet per node** (this fork
differs from upstream here: `statefulset.go` builds node *i* as StatefulSet *i*
with a single replica). One reconcile of a cluster runs at a time; everything it
touches is also touched by others: a user edits the cluster, the StatefulSet
controller writes StatefulSet status and restarts pods, the informer's copies
trail the API server, and the process may die at any point.

| Component | State | Operations | Hard part |
|---|---|---|---|
| Reconcile pipeline (`controllers/rabbitmqcluster_controller.go` and `reconcile_*.go`) | the cluster as read from the cache, the status it will write, the work queue | eleven steps in order, each continuing, returning early or writing and returning; the deferred status update | the copy may be stale; nearly every step ends the reconcile and relies on being called again |
| Resource reconciliation (`reconcile_resources.go`, `internal/resource`) | the child objects | wait until all nodes are ready; builders in order, one write per reconcile; annotate what was written; restart one StatefulSet | one node at a time with one StatefulSet per node; the marker that asks for a restart is a second write; timestamps of one second |
| Post-deploy commands (`reconcile_cli.go`, `reconcile_rabbitmq_configurations.go`) | markers on config map, StatefulSets and cluster | set plugins, enable feature flags, rebalance queues, each followed by removing its marker | commands race pod restarts; a marker may be lost or consumed early |
| Status (`reconcile_status.go`, `internal/status`) | conditions, `replicas`, `observedGeneration` | written in three places from the same copy | must not claim success for a spec that was not reconciled |
| Operator defaults, TLS, pause, scale-down refusal | fields of the spec, label, secrets | fill in and write; refuse with a condition | order relative to the other steps |
| Persistence scaling (`internal/scaling`, `reconcile_persistence.go`) | claims, StatefulSets | refuse, delete with orphaned pod, poll, grow the claim, recreate | four steps that may be cut anywhere; two clients with different views |
| Deletion (`reconcile_finalizer.go`) | finalizer, pod labels | list StatefulSets, label pods, delete StatefulSets, remove the finalizer | lists may be from before a re-creation under the same name; errors are logged and ignored |
| Client access (`internal/constant/ports.go`, `service.go`, `default_user_secret.go`, `erlang_cookie.go`, listeners in `configmap.go`) | ports and node ports of the Service, generated credentials and cookie, ports advertised in the Secret, listeners | build, merge into what was found, write | four derivations of the same spec in four files, written in different reconciles from different copies |
| Manager set-up, kubectl plugin | none of the control | start-up, a script | - |

What makes each correct: the operator does not come to rest before the current
generation is written (`RestMeansApplied`) and reported (`QuiescentMeansObserved`);
if it reads the children as they are, success is reported for a generation only if
that generation is written (`SuccessMeansApplied`), running (`SuccessMeansDeployed`),
with flags enabled and claims grown; no edit and no status is overwritten from a
stale copy; nodes are disturbed one at a time; restarts happen when needed and
only then; no wakeup is lost; claims never shrink; deleting a cluster touches
nothing of another and leaves nothing behind; what is advertised to clients is
exposed and listened on, and node ports and credentials in use do not change; and
when the user stops editing, the cluster settles.

## 2. Modules

| Module | Models |
|---|---|
| `RabbitmqClusterReconciler` | the pipeline, the children, the nodes, the user and the faults |
| `RabbitmqClusterReconciler_proofs` | its theorems |
| `MCReconciler` | instances for TLC (`MCReconciler_*.cfg`) |
| `PersistenceScaler` | `reconcilePVC`, `internal/scaling` and `CreateOrUpdate` of StatefulSets |
| `PersistenceScaler_proofs` | its theorems |
| `MCPersistence` | instances for TLC (`MCPersistence_*.cfg`) |
| `RollingUpdate` | abstract: what the operator promises of a change of the nodes |
| `RollingUpdate_proofs` | what follows from that promise |
| `RollOut_proofs` | the reconciler keeps it: `OneNodeAtATime`, the refinement, and `RebalanceAfterRollout` |
| `Quiescence_proofs` | no wakeup of the reconciler is lost |
| `Deployment_proofs` | what ReconcileSuccess says of the nodes, and that scaling out restarts none |
| `ClusterDeletion`, `ClusterDeletion_proofs`, `MCDeletion` | `reconcileDelete`, clusters created and deleted under one name; theorems; instances |
| `ServicePorts`, `ServicePorts_proofs`, `MCServicePorts` | the builders of Service, Secrets and listeners; theorems; instances |

The modules share no variables. `RabbitmqClusterReconciler` is the whole pipeline
for a cluster that is not deleted; the three others each take one of its steps (or
the branch before it) apart and reduce the rest of the pipeline to what that step
meets: `PersistenceScaler` to the wait and the loop over the nodes,
`ClusterDeletion` to the creation of StatefulSets, `ServicePorts` to the turn of its
four builders. `RollingUpdate` is implemented by the first (`INSTANCE ... WITH`,
`ImplementsRollingUpdate`).

Definitions called `X_something` next to a definition `X` are variants: what `X`
would be with a plausible mistake in it. They take no part in the specification;
substituting one must break the property `PROJECT.json` names for it.

### 2.1 RabbitmqClusterReconciler

`rmq` is the object in the API server, `cache` the informer's copy, `mem` the
copy a reconcile works on; `cacheFresh` and `memFresh` say whether a copy has the
current resourceVersion, which is what optimistic concurrency compares. `pc`
names the step of `Reconcile`. A step that returns a completed result goes to
`"return"`, where the deferred function writes the status and the result
requeues; the last line of `Reconcile` goes to `"succeed"`, which does not
requeue. `queued` is the work queue for this cluster, a set of at most one key.

Each step is one action named after its function; a step that makes two writes
is two actions, so that a crash, an edit or a pod restart can fall between them
(`build*` and `annotate*`; `runSetPluginsCommand` per node, then
`removePluginsConfigUpdatedFlag`).

Decisions a reader should know:

* **Builders are grouped.** `base` stands for headless service, service, Erlang
  cookie and default-user secret (before the config maps); `rbac` for service
  account, role and role binding (after them). Only the operator writes these
  objects in the model, so builders that find nothing to do are merged into the
  step of the first that does. They carry only what others depend on: whether
  they exist and the annotation they take over.
* **Lag** has three sources, and each matters. The informer of `RabbitmqCluster`
  lags behind without bound, always. The informers of the *children* do with
  `ChildLag`: every read of a child in the pipeline (`cached`) is then a read of
  `view`, which `childSync` brings up to date object by object; a change of a child
  queues the cluster when its event arrives, not when it is made. A builder compares
  the spec with the copy (`CreateOrUpdate`, `reconcile_resources.go:240`), restarts
  and commands are decided on copies, and a write from an old copy is refused. Where
  the code reads again on a conflict, the write waits for the copy to be current
  (`Built`, `Annotated`); that the few retries are used up before is a failed write
  (`WriteFails`). A create of an object the informer does not have yet is an error
  at once (`AlreadyExists`). Copies are compared by value: a copy from before a
  change and its reversal counts as current, where the resourceVersion would differ
  and the write be repeated with the same result. Lag of the StatefulSet *controller*
  (status describing the previous template) is `StsLag`, with `seen` for
  "observedGeneration is current".

  With `ChildLag = FALSE` a read of a child is current. Which properties need that is
  said with each: `SuccessMeansApplied`, `SuccessMeansDeployed`,
  `SuccessMeansFlagsEnabled` and the roll-out do, and section 3 describes what
  happens otherwise; `IndInv` and all that follows from it,
  `QuiescentMeansObserved`, `RestMeansApplied` and `ScaleOutRestartsNothing` do not.
* **RetryOnConflict** repeats an update without reading again, so a conflict is
  final for the reconcile (`Refused`).
* **Status and spec are written separately.** `UpdateCluster` (`r.Update`) leaves
  the status in the server and replaces the one in `mem` by the server's;
  `updateStatus` writes the whole status of `mem`.
* **Time.** Timestamps have a resolution of one second. `tick` is a time after
  which new timestamps are strictly larger and the plugins marker is no longer
  "recent" (2 s); it happens between reconciles and only if some marker carries
  the current time, since other ticks change nothing that is compared.
* **Panic.** `getChildResources` indexes a slice of `spec.replicas + 1` elements
  with the listed StatefulSets. controller-runtime 0.18.5 does not recover
  panics unless asked to, which `main.go` does not do, so the process restarts.
* **List order.** StatefulSets come from the cache in no particular order:
  `restartStatefulSetIfNeeded`, the feature flags and the last writer of
  AllReplicasReady are nondeterministic choices.
* **`statefulSets()`** (`utils.go:95-102`) returns `list.Items` in the same
  statement as the call that fills the list. The language leaves that order open;
  the gc compiler calls first, and the model assumes that.
* **Configuration and template are pairs**: what the user wrote (`spec.conf`,
  `spec.image`) and whether TLS is enabled, which adds settings to the former and
  volumes, mounts and ports to the latter; so switching TLS on or off restarts the
  nodes, as in the code. `PortPlugins` are the plugin sets that add a port to the
  pod, so that choosing them changes the template too. Listener settings per plugin
  are in `ServicePorts`.
* **Images that never become ready** are `BrokenImages`: a pod with one does not
  start.
* **ClusterAvailable** is computed as the code computes it, which is never True.
* **TLS secrets** are read, not watched: a change of a secret queues nothing.
* **Symmetry.** The first server configuration and plugin set are fixed, as the
  values are interchangeable. Stating this in `Init` is sound because no action
  tells two of them apart except by equality.
* A pod reads both config maps when it starts; `rabbitmq-plugins set` changes the
  plugins of a running one.

### 2.2 PersistenceScaler

The pipeline is reduced to `waitResourceReady`, the loop over the nodes
(`Scale`, then `CreateOrUpdate`) and success. `sts` is the API server's
StatefulSet, used by the scaler's direct client; `view` is the informer's copy,
used by everything else. `CacheLag = FALSE` makes both change together.
`WriteAccepted` is the API server: a stale copy, and any change of a claim
template, is refused. It accepts every *claim* size (a real one refuses
smaller), so that `CapacityNeverShrinks` is a statement about the operator.
`spec.disable` sets a StatefulSet to 0 replicas, and then `getPVCs` finds no
claims. The reconcile starts from the current spec; a stale cluster copy is the
subject of the other module.

### 2.3 ClusterDeletion

Clusters are created and deleted under one name, told apart by their uid, like
StatefulSets; `sts[i].owner` is the uid in the controller reference. `rmq`, `sts`
and `pod` are in the API server; `view`, `stsView` and `podView` the informers'
copies. The copy of the cluster lags without bound; with `CacheLag` the others do
too. `past` is a state a lagging API server may still list: after `Crash` each
informer of the new process starts from it or from the present, independently. This
is the situation the comment on #648 in `reconcileDelete` speaks of.

`statefulSets` takes the list, `listPods(i)` starts the body of the loop for one
StatefulSet (in no particular order), `addRabbitmqDeletionLabel(p)` is one update of
a pod, `deleteStatefulSet` the delete with its precondition. `Conflict` is
`RetryOnConflict` running the body again (`MaxTries` stands for its 5 tries);
any other error, and the last conflict, is logged and the loop goes on.
`removeFinalizer` either writes or, if the finalizer is gone already, *continues with
the rest of Reconcile*, as the code does.

Uids are reused once no copy refers to them (`FreshUid`), which keeps the model
finite and changes nothing, since uids are only compared. `held` says what else keeps
a deleted cluster: nothing, somebody else's finalizer, or foreground deletion.

### 2.4 ServicePorts

A port is a protocol over tcp or tls; the fixed numbers of `ports.go` are in one to
one correspondence with these pairs. An object has one value (the type of the
Service, the generated part of a Secret) and a map from ports to node ports, `0`
where none is allocated and `NotNamed` where the object does not name the port. The
operators of `ports.go`, `updatePorts` and the listeners of `configmap.go` are
separate definitions, as they are separate in the code; `Consistent` is the set of
specs for which they agree.

`Build` generates in every reconcile, `Update` is applied to what was found or, if
nothing was, to what was built. `CreateOrUpdate` is refused unless the copy is what
the API server has, which allocates node ports (`Completed`) and refuses them in a
ClusterIP Service (`Valid`). Every write ends the reconcile with `Done`, which, despite
its name, requeues (`result.go:53-56`); the same holds for a spec that `reconcileTLS`
refuses, whose comment (`reconcile_tls.go:24`) says otherwise.

### 2.5 RollingUpdate

`want` is the template of each node, `runs` what its pod was started from, `up`
whether it is up. The one rule: the template of a node changes only while every node
runs its own. It follows that one node is outdated at a time, and if nodes do not
fail by themselves, that at most one node that was ever up is outdated or down
(`OneNodeDisturbed`). The mapping takes template and restart annotation together as
`want` and `runs`, with `NoTemplate` for a node that was never started.

## 3. Runs

Bounds: 2 nodes show everything about "one at a time" and node 0 against the
others; 3 nodes with sizes 1 and 3 are the least for the panic. Two edits allow a
change and its change back while the first is under way. One crash or one failed
call can fall on any step (`shrink` allows one of the two in a behaviour, by the
constraint `OneFault`). `refuse` has one node, which leaves room for four kinds
of edits: none of its cases depends on how nodes take turns. `MaxTime = 8` is never the
reason a run ends: `tick` needs a new timestamp, and the edits bound those. `CHECK_DEADLOCK FALSE` is used
throughout since a converged cluster that nobody edits rightly stops.

| Run | Instance | Shows |
|---|---|---|
| `shrink` | 1 or 3 nodes, 2 edits of replicas, 1 crash or failed write, lagging copies of cluster and children | `IndInv` (the invariant of the proofs); `status.replicas` is backed and never goes down; growing restarts nothing; edits survive; idle means observed, and all children applied |
| `rollout` | 2 nodes, 2 edits of image (one never becomes ready) and configuration, children read as they are | `TypeOK`; success means applied; the roll-out implements `RollingUpdate`; one node is disturbed at a time and a broken image gets no further than the first; success means running, restarts in the same second included |
| `settle` | 2 nodes, new image, 1 failing pod, fairness | flags enabled before success; queues are rebalanced only after the roll-out; the cluster settles |
| `refuse` | 1 node, 2 edits of image, plugins, TLS, secrets, pause, lagging status, fairness | the cluster settles as deployed, paused, or TLS error |
| `grow` | 2 nodes, 3 edits of storage (0 to 3), fairness | claims grown before success, one StatefulSet away at a time, storage kept, every request met or refused |
| `storage_faults` | 1 node, 3 edits of storage and disable, lag, 1 crash, 1 failure | claims never shrink |
| `deletion` | 1 node, 2 clusters in turn, 1 crash, failed call or failing pod, other finalizers, fairness | `IndInv` (of the proofs); no StatefulSet of a live cluster is deleted; the pods found are marked before; in the end only what the last cluster asks for is left |
| `ports` | 4 specs, 2 edits, 1 crash or failed call, all copies lag, fairness | `IndInv` (of the proofs); advertised means exposed; node ports and secrets stay; the writes end, and then exposed, advertised and listened on agree |

`deletion` has one node: the loop treats StatefulSets independently, and the theorem
`LiveKept` covers any number. Two clusters are what a mix-up needs; three uids are
enough for every copy to refer to a different StatefulSet. The four specs of `ports`
(`SampleSpecs`) include no TLS, TLS by Secret and by Vault, a refused one, every
plugin and type of Service and one without the default user's Secret; the theorems
cover all specs (or all consistent ones, where stated).

Only `shrink` has `ChildLag`: the copies multiply the states, and most safety properties
of the other runs of this module fail with it, as told below. `EventuallySettled` was
found to hold with it for one node and one edit of the image; `RebalanceAfterRollout`
was not decided with it.

Fairness: weak fairness of the operator's next step (the process runs or is
restarted, the work queue retries), of watch delivery and of the StatefulSet
controller and garbage collector. `tick` is strongly fair because the model
confines it to the gaps between reconciles, which come again and again without
lasting; in reality time passes during a reconcile as well. The same goes for events of
children (`ChildSync`), which the model takes in only before steps that read copies. Nothing is assumed of
users, crashes, failures or pod failures.

### Disagreements with docs, comments and tests

| Run | What happens |
|---|---|
| `conf_crash` | a crash between updating the server config map and annotating it loses the rolling restart; success is reported with the old configuration running |
| `lag` | readiness is read without comparing the StatefulSet's observedGeneration; two nodes restart at once |
| `expand_lost` | a failure between deleting the StatefulSet and growing the claim is never made up for, and success is reported |
| `namespaces` | pods are labelled for deletion by the name of the cluster in all namespaces, so that the pods of a live cluster elsewhere lose their PreStop checks |

Further ones, each shown by giving the named constants to the same modules and
checking the named property; no run is kept for them:

* `SuccessMeansApplied` (constants of `shrink`): the user asks for 3 nodes and takes it
  back. The config map has been written with the hint 3, its copy still has 1, so the
  reconcile of the newest generation finds nothing to do
  (`reconcile_resources.go:258`) and reports success, while the
  API server has 3. No crash or failure takes part. The event that brings the copy up
  to date queues the cluster, and the next reconcile corrects it: this is why
  `RestMeansApplied` holds.
* `SuccessMeansDeployed` (constants of `rollout`, `ChildLag = TRUE`): the server config
  map is updated and annotated in two writes; the next reconcile sees the first but
  not the second, finds no reason to restart (`reconcile_resources.go:122-126`) and
  reports success with the old configuration running. The event of the second write
  starts the restart.
* `SuccessMeansFlagsEnabled` (constants of `settle`, `ChildLag = TRUE`): the same with a
  new StatefulSet and its `createdAt` annotation.
* `OneNodeAtATime` (constants of `rollout`, `ChildLag = TRUE`): `waitResourceReady` lists
  StatefulSets (`reconcile_resources.go:91`) before the event of the last update has
  come, the builder of that node reads its copy after it, finds it as wanted, and the
  next node is changed although the last one has not restarted.
* `ScaleDownReported` (`MaxReplicas = 3`, `Replicas = {1, 3}`, two edits of replicas,
  `FairSpec`): shrinking by two or more nodes panics in `getChildResources`
  (`reconcile_status.go:135`) in every reconcile, so that the request is never
  reported as unsupported, which `reconcile_scale_down.go:16-17` and
  `reconcile_scale_down_test.go:81-83` promise.
* `AnnotationsRestartNothing` (two images, one edit of the image): the comparison that
  decides about restarts includes the config map's annotations, and the operator's
  own `queueRebalanceNeededAt` is copied there, so that a new image restarts every
  node a second time; `configmap_test.go:574` says that "pods are not restarted when
  instance annotations are updated".
* `ScaleDownDetected` (`Replicas = {1, 2}`, one edit of replicas, `FairSpec`): a shrink
  requested before `status.replicas` has followed a scale-up goes unreported,
  and the reconcile requeues for ever.
* `SuccessMeansFlagsEnabled` (`MaxReplicas = 1`, one crash): as `conf_crash`, for
  the `createdAt` annotation and the feature flags.
* `QuiescentMeansObserved` without its conjunct `budget.failures = MaxFailures` (one
  edit of the image, `MaxFailures = 1`): the last status write fails, the error is
  only logged, and nothing retries it, so that the operator rests with a status that
  is not that of the current generation.
* `DefaultImageDeployed` (`ControlRabbitmqImage = TRUE`, `FairSpec`): every
  reconcile ends in `reconcileOperatorDefaults`; no child is ever created.
* `StorageKept` (`CacheLag = TRUE`, two edits of storage): the cached client still
  sees the deleted StatefulSet, the recreation fails, and a request for 0 that
  arrives then recreates the node without its claim.
* `TemplateNeverUpdated` (`EditKinds = {"storage", "disable"}`, two edits): a disabled cluster
  whose storage was edited cannot be enabled again, as the update of the claim
  template is refused together with the replicas.
* `EventuallySettled` (`BrokenImages` not empty, edits of the image, `FairSpec`): once
  the first node waits for an image that never becomes ready, `waitResourceReady`
  also holds up the edit that would correct it. That the roll-out goes no further is
  what `rollout` shows.
* ClusterAvailable is never True: after the loop over the endpoint subsets
  (`cluster_available.go:49-60`) it is set to False whatever they hold, contrary to
  `internal/status/cluster_available_test.go:52-57`. The type of `available` in
  `ClusterStatus`, without "True", is part of `TypeOK`.
* `EventuallyMatches` (`OtherFinalizers = {"foreground"}`): under foreground deletion
  the finalizer is gone but the cluster stays until its dependents are; meanwhile
  `removeFinalizer` continues, the reconcile builds the StatefulSets again, and this
  need not end. docs/design/20200520-graceful-pod-termination.md:52 says the
  finalizer is removed "so it can be garbage collected and we avoid blocking".
* `NotRebuilt` (`OtherFinalizers = {"other"}`): the same with somebody else's
  finalizer; the StatefulSets come back, and go with the cluster.
* A failed update of a pod's label skips the delete of the StatefulSet but not the
  removal of the finalizer: the garbage collector then stops pods that still run
  their PreStop checks. `DeletedPodsMarked` is therefore about the StatefulSets the
  operator deletes.
* `AdvertisedServed` and `QuietMeansServed` (`Specs <- AllSpecs`) fail for the specs
  that are not `Consistent`: with a TLS Secret but no CA, the default user's Secret
  advertises the TLS ports of the web plugins, which are neither exposed nor listened
  on, and `disableNonTLSListeners` leaves their plain listeners open
  (`rabbitmqcluster_types.go:161-162` lists them among those it disables); with TLS
  from Vault and `disableNonTLSListeners` the Secret advertises the plain AMQP port;
  with `rabbitmq_stream_management` but not `rabbitmq_stream` the TLS port of streams
  is exposed without a listener.
* `OnePrometheusPort` (`Specs <- SampleSpecs`): `mergePorts` never removes a port, so
  after TLS is switched on the Service exposes both Prometheus ports, which
  `ports.go:378` rules out.

## 4. Proofs

For every value of the constants that satisfies the assumption of the module: any
number of nodes, images, configurations, specs, clusters, edits, crashes and failures.

`RabbitmqClusterReconciler_proofs`: `IndInv` is inductive (`InitIndInv` and one
lemma per part for the step, joined in `Invariance`), without any hypothesis: the
informers of the cluster and of the children may lag. `TypeCorrect` is proved on its
own, in two halves; from `IndInv` follow `ReplicasBacked`, `ReplicasMonotone` and
`SpecPreserved`. Its parts and why they are needed:

* `TypeOK`.
* `FreshInv`: a copy with the current resourceVersion *is* the current object
  (metadata and spec), so a write that is not refused overwrites nothing.
* `GenInv`: copies are ordered by generation, equal generations mean equal specs,
  and no status observes a generation newer than what the reconcile works on.
  Without it an old status could become "current" when the generation catches up.
* `BackedInv`: no copy of the status counts a node that does not exist, and no
  informer has one. `StatusReplicasBacked` of `rmq` alone is not inductive, as `mem`
  is written back, and what a reconcile counts it has seen in copies.

`AppliedInv` is apart, as it needs current reads of the children: no copy of the status
claims success for the current generation unless the children carry the spec; from
`restart` on they carry `mem.spec`. `AppliedInvariance` proves it, and
`SuccessApplied` what follows, under the hypothesis `ChildLag = FALSE`, which each
states; without it the first of the further disagreements in section 3 is a counterexample.
What holds for any lag is `RestApplied` (in `Quiescence_proofs`).

The case distinction over the actions is made once per kind of effect rather than
once per part of the invariant: `CopiesEffect` says what any step does to the copies
of the cluster and to the control state, `ChildEffect` that a StatefulSet never goes
away and that only the builders change what is applied, and never away from the
reconciled spec, and `PostBuildStep` that the steps after the builders are reached only
with the children as desired. `FreshStep`, `GenStep`, `BackedStep` and `AppliedStep`
follow from these.

`PersistenceScaler_proofs`: `ScalerTypeCorrect` and `NeverShrinks`. The decision
to grow is taken three steps before the claim is written; `GrowInv` says that in
between the claim exists and is smaller than the capacity to be written, which
holds because only the StatefulSet controller creates claims, and only missing
ones. Under `Uninterrupted` (`CacheLag = FALSE`, `MaxCrashes = 0`, `MaxFailures = 0`;
the run `expand_lost` and section 3 show what goes wrong otherwise):

* `OneAway` and `StorageStaysKept` from `AwayInv`: a node that has a claim lacks its
  StatefulSet only while the running reconcile is growing that very claim, and then
  recreates it with a template the claim fits. `OneStsAtATime` alone says nothing of
  which step may be under way, nor that it ends with the StatefulSet back.
* `SuccessExpanded`, if clusters are not disabled either, from `ExpandedInv`: a claim
  is at least as large as the template it was made from, and the nodes the loop has
  passed have the requested template. A disabled cluster has no claims to look at
  (`getPVCs`), so its claims need not be as large as requested.

`RollOut_proofs`, for `StsLag = FALSE` and `ChildLag = FALSE` (with either lag the
property fails: run `lag`, and section 3):
`OneAtATime` rests on `RollInv`: at most one node is outdated; while the pipeline is
between `waitResourceReady` and the write none is; and a StatefulSet that looks ready
and updated is. A step affects the nodes in one of three ways only (`RollOutSteps`),
and the invariant is shown for each. `Refinement` uses the same three: a write of a
StatefulSet is `Change`, a step of the StatefulSet controller `Stop` or `Start`, every
other step a stutter; `PodBudget` (the number of failures left) justifies `MayFail`.

`RebalancedLast`, in the same module: the marker on the cluster is set only while a
StatefulSet is being updated and removed only in the last command of a reconcile whose
copy is current (`MarkerSteps`); there `RollInv` says that no node is outdated and
`AppliedInv` that the templates are those of the spec.

`Quiescence_proofs`: `NoLostWakeup` has no hypothesis on faults or lag; the failed
writes it leaves out are a conjunct of the property itself. Its invariant `QuietInv`
follows a reconcile that nothing has overtaken (nothing queued since it started, the
cache current, no early return): what it has found out about the nodes (AllReplicasReady
before the TLS step, all pods up before the commands) still holds, since every event
that could change it queues the cluster. Only such a reconcile can end with an empty
work queue. With lagging informers of the children the same argument covers what it
has read: a copy that is not current has its event still to come.

`RestApplied`, in the same module and from the same invariant, has no hypothesis and no
conjunct about failures: such a reconcile has passed its builders only with copies
that carry the spec (`QuietCarried`, `IdleCarried`), and at rest the copies are the
children. A reconcile that fails, is refused or is cut off does not leave the work
queue empty, and the status it may fail to write is not what this property is about.

`Deployment_proofs` states what success says of running nodes. The markers that ask for
a restart or a command are second writes, so these theorems assume `Uninterrupted`
(`MaxCrashes = 0`, `MaxFailures = 0`), and those about success `ChildLag = FALSE`; the
run `conf_crash` and the second of the further disagreements in section 3 are the
counterexamples without. `Pipeline` says through which step each part of the pipeline is entered,
`ClaimedStep` that a new claim of success comes from the last command, working on the
current generation.

* `FlagsEnabled`, from `FlagsInv`: a StatefulSet without its flags carries `created` or
  is about to be annotated; past the command there is none; a claim keeps that.
* `ScaleOutQuiet`, under `OnlyScaled` (no edits of image, configuration, plugins or TLS)
  and no other hypothesis, from `ScaledInv`: all three copies of the spec are plain, so
  the builders write nothing that requires a restart; the one thing that could is the
  rebalance marker, which is never set as no StatefulSet is ever being updated.
* `SuccessDeployed`, with also `MaxPodFailures = 0` (a failing pod makes the property
  false at once) and `StsLag = FALSE`. `DeployInv` has nine parts. `ConfInv`: a node with
  an old configuration was last restarted no later than the change that
  `server.mark` records, or the mark is about to be written; together with `RestartInv`
  (past `restartStatefulSetIfNeeded` no node is due) the commands find every
  configuration current. `TimesInv` (no timestamp lies in the future) is what makes the
  comparison of times sound when several fall in the same second. `PluginsInv`: the
  marker stays until every node, up to the loop index, has the plugins;
  `CommandsInv`: no node is missed, as the nodes that exist are those of the spec.
  `MarkerInv` and the second conjunct of `Calm` deal with an unexpected dependency: the
  rebalance annotation is copied to the server config map, where a new one counts as a
  new configuration. A claim would not be stable if a copy of the cluster could still
  bring a different one; they say that each copy has the one already there, or none.
  `CalmInv`: while success is claimed nothing is left to do, which is what
  `CommandsDone` establishes and `CalmKept` preserves. TLC checked `DeployInv` on small
  instances before it was proved.

`RollingUpdate_proofs`: `OneNodeDisturbed`, from the rule about changes and the fact
that a node goes down only when outdated, if it does not fail.

`ClusterDeletion_proofs`: `DeletionInvariance` and from it `LiveKept`. `OwnerInv`: all
copies of a StatefulSet with the same uid name the same owner, however old, so the
owner seen in a stale list is the owner of what the uid precondition protects.
`DeletingInv`: a copy of the cluster that shows its deletion is right for ever.
`LoopInv`: the loop works for a cluster seen being deleted, on a StatefulSet that
cluster owned. Leave out one and a stale list could cost a live cluster a node.
`DeletionTypeCorrect` is the first part on its own. `DeletedMarked` needs nothing of
this, but `MarkedInv`: a listed pod that is no longer due, and is still the pod that was
listed, has its label, which no other step takes off it.

`ServicePorts_proofs`: `ExposedIsListenedTo` compares `ports.go` with `configmap.go` for
every consistent spec. `PortsTypeCorrect`; `NodePortsKept` from `NodePortInv` (a
Service whose type needs node ports has them all, so `Completed` fills in only new
ones); it promises nothing of a port the reconciled spec no longer asks for, such as
the Prometheus port of the other TLS setting, which `ports.go:378` wants gone;
`SecretsKept` because a Secret is rewritten only from the current version;
`Advertised` from `ServedInv`: the Service only ever gains ports, and when it is the
Secret's turn, the Service has the ports of the spec the reconcile works with.
`PortsInvariance` puts the parts together. `QuietServed` rests on `PassedInv`: the
objects whose builders a reconcile has passed without a write are, as it sees them,
what the builders would write; if nothing has changed since, they are right. Like
`Advertised` it is about consistent specs; for the others the builders disagree
(section 3).

Only model-checked: the liveness properties `EventuallySettled` (both),
`EventuallyMatches` and `EventuallyQuiet`, since fairness and ENABLED are outside
TLAPS. Every invariant, action property and refinement that a passing run checks is
also a theorem; the hypotheses some of them have are those the runs choose their
constants by.

## 5. Not modelled

* Contents of objects no property depends on: the rest of `rabbitmq.conf`, probes,
  volumes and mounts, overrides, role rules, the headless service's two fixed ports,
  vault annotations and the sidecar, image pull secrets, the memory warning of
  NoWarnings, transition times.
* `sortEnvVar` and `sortVolumeMounts` (`internal/resource/utils.go`) order the result of
  an override's strategic merge. `sortEnvVar` swaps while it iterates and puts the
  names it knows first only when they arrive in their usual order; which orders the
  merge can produce is the library's matter, so this is noted and not modelled.
* `main.go` (flags and start-up of controller-runtime), generated deep copies, test
  utilities, the kubectl plugin, dashboards.
* Several clusters at a time: reconciles of different clusters share no state but the
  pods of the same name, which is `SameNameElsewhere`.

## 6. Plan

What is left: a composition of the scaler with the pipeline, in which a storage and an
image edit meet; the override merge as an algorithm; the theorems under weaker
hypotheses, such as `SuccessMeansDeployed` for crashes that fall between reconciles or
outside the annotate steps.
