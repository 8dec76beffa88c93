---------------------- MODULE RabbitmqClusterReconciler ----------------------
(***************************************************************************)
(* The Reconcile pipeline of the operator (controllers/) for one           *)
(* RabbitmqCluster, run against the API server, the StatefulSet controller *)
(* and a user who edits the cluster while it is being reconciled.          *)
(*                                                                         *)
(* One reconcile of a cluster runs at a time.  It works on mem, a copy of  *)
(* the RabbitmqCluster taken from the informer cache when it starts; pc    *)
(* says which step of Reconcile it has reached.  Every step that returns a *)
(* completed result goes to pc = "return", the deferred status update,     *)
(* which requeues; the last step goes to pc = "succeed", which does not.   *)
(*                                                                         *)
(* The children it reads from the informers' copies too, but it writes     *)
(* them to the API server.  With ChildLag those copies may be old.         *)
(***************************************************************************)
EXTENDS Integers, FiniteSets

CONSTANTS
    MaxReplicas,           \* size of the largest cluster a user asks for
    Replicas,              \* the values of spec.replicas a user writes
    Images,                \* the values of spec.image a user writes
    DefaultImage,          \* DEFAULT_RABBITMQ_IMAGE
    Unset,                 \* spec.image left empty
    Confs,                 \* server configurations (spec.rabbitmq.*Config)
    BrokenImages,          \* the images with which no pod becomes ready
    PluginSets,            \* values of spec.rabbitmq.additionalPlugins
    PortPlugins,           \* the ones with a plugin that opens a port
    ControlRabbitmqImage,  \* CONTROL_RABBITMQ_IMAGE
    SkipPostDeploySteps,   \* spec.skipPostDeploySteps
    StsLag,                \* may a StatefulSet's status lag behind its spec?
    ChildLag,              \* may the informers' copies of the children be old?
    EditKinds,             \* which fields the user edits
    MaxEdits,              \* bound on user edits
    MaxCrashes,            \* bound on crashes of the operator
    MaxFailures,           \* bound on failed API writes other than conflicts
    MaxPodFailures,        \* bound on pods failing by themselves
    MaxTime                \* bound on the clock

ASSUME ConstantsAssumption ==
    /\ MaxReplicas \in Nat \ {0}
    /\ Replicas # {} /\ Replicas \subseteq 1..MaxReplicas
    /\ DefaultImage \in Images /\ Unset \notin Images
    /\ BrokenImages \subseteq Images
    /\ Confs # {} /\ PluginSets # {} /\ PortPlugins \subseteq PluginSets
    /\ {ControlRabbitmqImage, SkipPostDeploySteps, StsLag, ChildLag}
          \subseteq BOOLEAN
    /\ {MaxEdits, MaxCrashes, MaxFailures, MaxPodFailures, MaxTime} \subseteq Nat

VARIABLES
    rmq,         \* the RabbitmqCluster in the API server
    cache,       \* the informer's copy of it
    cacheFresh,  \* is the informer's copy at the current resourceVersion?
    mem,         \* the copy the running reconcile works on
    memFresh,    \* is mem at the current resourceVersion?
    before,      \* its status when the reconcile started
    pc,          \* the next step of Reconcile, "idle" between reconciles
    idx,         \* loop index of that step, or the StatefulSet it acts on
    queued,      \* is the cluster in the work queue?
    base,        \* services and secrets: built before the config maps
    plugins,     \* the plugins config map
    server,      \* the server config map
    rbac,        \* service account, role, role binding: built after them
    sts,         \* the StatefulSet of each node, with its status
    view,        \* the informers' copies of these children (with ChildLag)
    left,        \* new StatefulSets reconcileRabbitmqCLI has still to treat
    pod,         \* the pod of each node
    flags,       \* the nodes whose feature flags have been enabled
    secretOK,    \* do the TLS secrets exist, with the keys they need?
    now,         \* the clock
    budget       \* what is left of the bounds on the environment

rmqVars   == <<rmq, cache, cacheFresh>>
memVars   == <<mem, memFresh, before>>
childVars == <<base, plugins, server, rbac>>
nodeVars  == <<sts, view, left, pod, flags>>
envVars   == <<secretOK, now, budget>>
vars == <<rmqVars, memVars, pc, idx, queued, childVars, nodeVars, envVars>>

Node == 0 .. MaxReplicas - 1
Time == Nat              \* 0 stands for an annotation that is not set

ClusterSpec == [replicas : 1..MaxReplicas, image : Images \cup {Unset},
                conf : Confs, plugins : PluginSets,
                tls : {"off", "on", "invalid"}]

\* tls "on" names the secrets; "invalid" disables the other listeners without
\* naming any, which is not TLS.  With TLS the server configuration has its
\* settings, and the pods mount the secrets and open other ports; the pods also
\* list the ports of the plugins.
TLSEnabled(spec) == spec.tls = "on"
serverConf(spec) == <<spec.conf, TLSEnabled(spec)>>
podTemplate(spec) == <<spec.image, TLSEnabled(spec), spec.plugins \in PortPlugins>>
ServerConf == Confs \X BOOLEAN
PodTemplate == (Images \cup {Unset}) \X BOOLEAN \X BOOLEAN

(***************************************************************************)
(* status.conditions: success is ReconcileSuccess (its reason), ready is   *)
(* AllReplicasReady, available ClusterAvailable; paused says NoWarnings is *)
(* False because of the pause label.  "None": the conditions have not been *)
(* written yet.                                                            *)
(***************************************************************************)
SuccessReason == {"None", "Initialising", "Success", "TLSError", "Error",
                  "UnsupportedOperation", "FailedCLICommand"}
ClusterStatus == [replicas : 0..MaxReplicas, obsGen : Nat,
                  success : SuccessReason,
                  ready : {"None", "Unknown", "True", "False"},
                  available : {"None", "Unknown", "False"},
                  paused : BOOLEAN, user : BOOLEAN]

Cluster == [gen : Nat, spec : ClusterSpec, paused : BOOLEAN,
            finalizer : BOOLEAN, rebal : Time, st : ClusterStatus]

(***************************************************************************)
(* The children.  ann is the queueRebalanceNeededAt annotation they take   *)
(* over from the cluster; mark, restartAt and created are the markers the  *)
(* operator puts on them itself.  hint is the target cluster size hint.    *)
(* Of a StatefulSet's status: seen says that its controller has observed   *)
(* the template, updating that CurrentRevision # UpdateRevision.           *)
(***************************************************************************)
Child == [ex : BOOLEAN, ann : Time]
PluginsConfigMap == [ex : BOOLEAN, val : PluginSets, ann : Time, mark : Time]
ServerConfigMap == [ex : BOOLEAN, conf : ServerConf, hint : 1..MaxReplicas,
                    ann : Time, mark : Time]
StatefulSet == [ex : BOOLEAN, template : PodTemplate, ann : Time,
                restartAt : Time, created : BOOLEAN, seen : BOOLEAN,
                updating : BOOLEAN]
Pod == [up : BOOLEAN, template : PodTemplate, restartAt : Time,
        conf : ServerConf, plugins : PluginSets]
View == [base : Child, plugins : PluginsConfigMap, server : ServerConfigMap,
         rbac : Child, sts : [Node -> StatefulSet], up : [Node -> BOOLEAN]]
Budget == [edits : Nat, crashes : Nat, failures : Nat, pods : Nat]

Steps == {"idle", "delete", "paused", "defaults", "conditions", "tls",
          "rebalance", "scaledown", "wait", "build", "annotatePlugins",
          "annotateServer", "annotateSts", "restart", "status", "cli",
          "cliPlugins", "cliFlags", "cliRebalance", "return", "succeed"}

NewStatus == [replicas |-> 0, obsGen |-> 0, success |-> "None",
              ready |-> "None", available |-> "None", paused |-> FALSE,
              user |-> FALSE]

NewCluster(spec) == [gen |-> 1, spec |-> spec, paused |-> FALSE,
                     finalizer |-> FALSE, rebal |-> 0, st |-> NewStatus]

\* The smallest cluster.  Also what mem holds between reconciles, when nothing
\* reads it.
Blank == NewCluster([replicas |-> 1, image |-> Unset,
                     conf |-> CHOOSE c \in Confs : TRUE,
                     plugins |-> CHOOSE p \in PluginSets : TRUE,
                     tls |-> "off"])

NoSts == [ex |-> FALSE, template |-> podTemplate(Blank.spec),
          ann |-> 0, restartAt |-> 0, created |-> FALSE, seen |-> TRUE,
          updating |-> FALSE]

NoPod == [up |-> FALSE, template |-> podTemplate(Blank.spec), restartAt |-> 0,
          conf |-> serverConf(Blank.spec), plugins |-> Blank.spec.plugins]

\* The children as the API server has them, and as the operator reads them: up
\* is readyReplicas of each StatefulSet.
current == [base |-> base, plugins |-> plugins, server |-> server, rbac |-> rbac,
            sts |-> sts, up |-> [i \in Node |-> pod[i].up]]
cached == IF ChildLag THEN view ELSE current

(***************************************************************************)
(* A user has created the cluster; the operator has not seen it yet.  The  *)
(* configurations are interchangeable, so it starts with a fixed one.      *)
(***************************************************************************)
Init ==
    /\ \E n \in Replicas : rmq = NewCluster([Blank.spec EXCEPT !.replicas = n])
    /\ cache = rmq /\ cacheFresh = TRUE
    /\ mem = Blank /\ memFresh = FALSE /\ before = Blank.st
    /\ pc = "idle" /\ idx = 0 /\ queued = TRUE
    /\ base = [ex |-> FALSE, ann |-> 0]
    /\ plugins = [ex |-> FALSE, val |-> Blank.spec.plugins, ann |-> 0, mark |-> 0]
    /\ server = [ex |-> FALSE, conf |-> serverConf(Blank.spec), hint |-> 1,
                 ann |-> 0, mark |-> 0]
    /\ rbac = [ex |-> FALSE, ann |-> 0]
    /\ sts = [i \in Node |-> NoSts]
    /\ pod = [i \in Node |-> NoPod]
    /\ view = current /\ left = {} /\ flags = {}
    /\ secretOK = FALSE
    /\ now = 1
    /\ budget = [edits |-> MaxEdits, crashes |-> MaxCrashes,
                 failures |-> MaxFailures, pods |-> MaxPodFailures]

-----------------------------------------------------------------------------
(***************************************************************************)
(* What the steps read.                                                    *)
(***************************************************************************)
Existing == {i \in Node : sts[i].ex}
Listed == {i \in Node : cached.sts[i].ex}

\* CurrentRevision # UpdateRevision.  A template the StatefulSet controller
\* has not observed yet leaves both, and readyReplicas, as they were.
statefulSetBeingUpdated(i) == cached.sts[i].updating

allReplicasReadyAndUpdated ==
    \A i \in Listed : ~statefulSetBeingUpdated(i) /\ cached.up[i]

statefulSetNeedsQueueRebalance(i) ==
    /\ statefulSetBeingUpdated(i)
    /\ ~SkipPostDeploySteps
    /\ mem.spec.replicas > 1

\* SetCondition changes a condition only if it is already in the list.
SetCondition(st, reason) ==
    IF st.success = "None" THEN st ELSE [st EXCEPT !.success = reason]

\* Annotations of the instance are merged into the ones of a child: a key the
\* instance no longer has stays on the child.
ReconcileAnnotations(ann) == IF mem.rebal = 0 THEN ann ELSE mem.rebal

-----------------------------------------------------------------------------
(***************************************************************************)
(* API writes.  A write of the RabbitmqCluster carries the resourceVersion *)
(* mem was read at, and is refused when that is no longer the current one; *)
(* RetryOnConflict repeats it without reading again, so it is refused      *)
(* again.  Any write may also fail for another reason (WriteFails).        *)
(***************************************************************************)
WriteFails ==
    /\ budget.failures > 0
    /\ budget' = [budget EXCEPT !.failures = @ - 1]

\* Variant: the write carries no resourceVersion.
Store_blind(obj) ==
    /\ rmq' = obj
    /\ mem' = obj
    /\ memFresh' = TRUE
    /\ cacheFresh' = (cacheFresh /\ obj = rmq)
    /\ UNCHANGED <<cache, before, budget>>

Store(obj) ==
    /\ memFresh
    /\ rmq' = obj
    /\ mem' = obj
    /\ cacheFresh' = (cacheFresh /\ obj = rmq)
    /\ UNCHANGED <<cache, memFresh, before, budget>>

Refused ==
    /\ \/ ~memFresh /\ UNCHANGED budget
       \/ memFresh /\ WriteFails
    /\ UNCHANGED rmqVars

\* r.Update(ctx, rmq): writes all but the status.
UpdateCluster(obj, next) ==
    \/ Store([obj EXCEPT !.st = rmq.st]) /\ pc' = next
    \/ Refused /\ pc' = "return" /\ UNCHANGED memVars

\* updateStatus: r.Status().Update(ctx, rmq), then Done or Error.
updateStatus(st) ==
    /\ pc' = "return"
    /\ \/ Store([mem EXCEPT !.st = st])
       \/ Refused /\ mem' = [mem EXCEPT !.st = st] /\ UNCHANGED <<memFresh, before>>

\* Go on to the next step, or return early with the status set in mem.
Continue(next) == pc' = next /\ UNCHANGED <<rmqVars, memVars, budget>>
Return(st) ==
    /\ pc' = "return"
    /\ mem' = [mem EXCEPT !.st = st]
    /\ UNCHANGED <<rmqVars, memFresh, before, budget>>

\* The steps before reconcileResources leave the children alone.
NoChildWrite == UNCHANGED <<idx, queued, childVars, nodeVars, secretOK, now>>

-----------------------------------------------------------------------------
(***************************************************************************)
(* The steps of Reconcile, in order.                                       *)
(***************************************************************************)
getRabbitmqCluster ==
    /\ pc = "idle" /\ queued
    /\ pc' = "delete"
    /\ queued' = FALSE
    /\ mem' = cache /\ memFresh' = cacheFresh /\ before' = cache.st
    /\ UNCHANGED <<rmqVars, idx, childVars, nodeVars, envVars>>

\* reconcileDelete of a cluster that is not being deleted is addFinalizer.
addFinalizer ==
    /\ pc = "delete"
    /\ \/ mem.finalizer /\ Continue("paused")
       \/ ~mem.finalizer /\ UpdateCluster([mem EXCEPT !.finalizer = TRUE], "return")
    /\ NoChildWrite

reconcilePaused ==
    /\ pc = "paused"
    /\ \/ ~mem.paused /\ Continue("defaults")
       \/ mem.paused /\ Return([mem.st EXCEPT !.paused = @ \/ mem.st.success # "None"])
    /\ NoChildWrite

\* A changed spec gets the next generation from the API server.
reconcileOperatorDefaults ==
    LET set == ControlRabbitmqImage \/ mem.spec.image = Unset
        spec == [mem.spec EXCEPT !.image = DefaultImage]
        gen == IF spec = mem.spec THEN mem.gen ELSE mem.gen + 1
    IN  /\ pc = "defaults"
        /\ \/ ~set /\ Continue("conditions")
           \/ set /\ UpdateCluster([mem EXCEPT !.spec = spec, !.gen = gen], "return")
        /\ NoChildWrite

(***************************************************************************)
(* getChildResources makes room for one StatefulSet per replica and the    *)
(* endpoints, then fills in the listed StatefulSets.                       *)
(***************************************************************************)
ChildResourcesFit == Cardinality(Listed) <= mem.spec.replicas + 1

\* AllReplicasReadyCondition: each object overwrites what the ones before it
\* set; the cache lists the StatefulSets in no particular order.
AllReplicasReadyCondition ==
    IF Cardinality(Listed) < mem.spec.replicas
    THEN {"Unknown"}
    ELSE {IF cached.up[i] THEN "True" ELSE "False" : i \in Listed}

\* ClusterAvailableCondition: the addresses of the endpoints make it True, but
\* what follows the loop over them sets it to False again.  The endpoints are
\* those of the client service; a StatefulSet too many takes their slot.
ClusterAvailableCondition ==
    IF cached.base.ex /\ Cardinality(Listed) <= mem.spec.replicas
    THEN "False" ELSE "Unknown"

SetConditions(st, ready) ==
    [st EXCEPT !.ready = ready, !.available = ClusterAvailableCondition,
               !.paused = FALSE,
               !.success = IF @ = "None" THEN "Initialising" ELSE @]

\* Variant: writes the status, and ends the reconcile, also if nothing has changed.
reconcileStatusConditions_always ==
    /\ pc = "conditions"
    /\ ChildResourcesFit
    /\ \E ready \in AllReplicasReadyCondition : updateStatus(SetConditions(mem.st, ready))
    /\ NoChildWrite

reconcileStatusConditions ==
    /\ pc = "conditions"
    /\ ChildResourcesFit
    /\ \E ready \in AllReplicasReadyCondition :
         LET st == SetConditions(mem.st, ready) IN
         IF st = mem.st THEN Continue("tls") ELSE updateStatus(st)
    /\ NoChildWrite

\* Variant: the condition is not set.
reconcileTLS_silent ==
    /\ pc = "tls"
    /\ Continue(IF mem.spec.tls = "invalid" \/ (mem.spec.tls = "on" /\ ~secretOK)
                THEN "return" ELSE "rebalance")
    /\ NoChildWrite

reconcileTLS ==
    /\ pc = "tls"
    /\ IF mem.spec.tls = "invalid" \/ (mem.spec.tls = "on" /\ ~secretOK)
       THEN Return(SetCondition(mem.st, "TLSError"))
       ELSE Continue("rebalance")
    /\ NoChildWrite

reconcileQueueRebalanced ==
    LET mark == /\ \E i \in Listed : statefulSetNeedsQueueRebalance(i)
                /\ mem.rebal = 0
    IN  /\ pc = "rebalance"
        /\ \/ ~mark /\ Continue("scaledown")
           \/ mark /\ UpdateCluster([mem EXCEPT !.rebal = now], "return")
        /\ NoChildWrite

reconcileScaleDown ==
    /\ pc = "scaledown"
    /\ IF mem.st.replicas > mem.spec.replicas
       THEN Return(SetCondition(mem.st, "UnsupportedOperation"))
       ELSE Continue("wait")
    /\ NoChildWrite

\* Variant: does not wait.
waitResourceReady_never ==
    /\ pc = "wait"
    /\ Continue("build")
    /\ NoChildWrite

\* reconcileResources, first part: no resource is touched while a node of the
\* cluster is down or being replaced.
waitResourceReady ==
    /\ pc = "wait"
    /\ Continue(IF allReplicasReadyAndUpdated THEN "build" ELSE "return")
    /\ NoChildWrite

-----------------------------------------------------------------------------
(***************************************************************************)
(* reconcileResources, second part: the builders run in order, and the     *)
(* reconcile ends after the first one that creates or updates its object.  *)
(* Each makes of the informer's copy what the spec asks for.  One that     *)
(* finds nothing to do needs no step of its own: no other builder reads its*)
(* copy, so a watch event it misses may as well come later.                *)
(***************************************************************************)
wantBase == [ex |-> TRUE, ann |-> ReconcileAnnotations(cached.base.ann)]
wantRbac == [ex |-> TRUE, ann |-> ReconcileAnnotations(cached.rbac.ann)]
wantPlugins == [cached.plugins EXCEPT !.ex = TRUE, !.val = mem.spec.plugins,
                                      !.ann = ReconcileAnnotations(@)]

\* Variant: the target cluster size hint is set only on creation.
wantServer_keepsHint ==
    [cached.server EXCEPT !.ex = TRUE, !.conf = serverConf(mem.spec),
                          !.hint = IF cached.server.ex THEN @ ELSE mem.spec.replicas,
                          !.ann = ReconcileAnnotations(@)]

wantServer == [cached.server EXCEPT !.ex = TRUE, !.conf = serverConf(mem.spec),
                                    !.hint = mem.spec.replicas,
                                    !.ann = ReconcileAnnotations(@)]

wantSts(i) == [cached.sts[i] EXCEPT !.ex = TRUE, !.template = podTemplate(mem.spec),
                                    !.ann = ReconcileAnnotations(@)]

\* Variant: the target cluster size hint counts too.
UpdateRequiresStsRestart_hint == wantServer # cached.server

\* The config map differs in more than the target cluster size hint.
UpdateRequiresStsRestart ==
    \/ wantServer.conf # cached.server.conf
    \/ wantServer.ann # cached.server.ann

BaseDone    == cached.base = wantBase
PluginsDone == BaseDone /\ cached.plugins = wantPlugins
ServerDone  == PluginsDone /\ cached.server = wantServer
RbacDone    == ServerDone /\ cached.rbac = wantRbac
StsDone(i)  == RbacDone /\ \A j \in Node : j < i => cached.sts[j] = wantSts(j)

\* The informer has the StatefulSet of node i, its status included, as it is.
StsCurrent(i) == cached.sts[i] = sts[i] /\ cached.up[i] = pod[i].up

\* The StatefulSet controller acts on a template once it has observed it.
Templated(old, new) ==
    IF ~old.ex \/ <<new.template, new.restartAt>> = <<old.template, old.restartAt>>
    THEN new
    ELSE IF StsLag THEN [new EXCEPT !.seen = FALSE]
    ELSE [new EXCEPT !.updating = TRUE]

\* The event of a change of a child puts the cluster into the work queue: with
\* ChildLag when it arrives (childSync), else at once.
Changed == queued' = (queued \/ ~ChildLag)

\* The write of a builder, which is refused unless the informer's copy is current.
\* RetryOnConflict reads the copy again: the step waits until it is current.
Built(copyCurrent, next) ==
    /\ copyCurrent
    /\ pc' = next
    /\ Changed
    /\ UNCHANGED <<rmqVars, memVars, view, left, pod, flags, envVars>>

buildBase ==
    /\ pc = "build"
    /\ ~BaseDone
    /\ base' = wantBase
    /\ Built(cached.base = base, "return")
    /\ UNCHANGED <<idx, plugins, server, rbac, sts>>

buildPlugins ==
    /\ pc = "build"
    /\ BaseDone /\ cached.plugins # wantPlugins
    /\ plugins' = wantPlugins
    /\ Built(cached.plugins = plugins,
             IF plugins.ex THEN "annotatePlugins" ELSE "return")
    /\ UNCHANGED <<idx, base, server, rbac, sts>>

buildServer ==
    /\ pc = "build"
    /\ PluginsDone /\ cached.server # wantServer
    /\ server' = wantServer
    /\ Built(cached.server = server,
             IF server.ex /\ UpdateRequiresStsRestart THEN "annotateServer" ELSE "return")
    /\ UNCHANGED <<idx, base, plugins, rbac, sts>>

buildRbac ==
    /\ pc = "build"
    /\ ServerDone /\ cached.rbac # wantRbac
    /\ rbac' = wantRbac
    /\ Built(cached.rbac = rbac, "return")
    /\ UNCHANGED <<idx, base, plugins, server, sts>>

\* Variant: a new StatefulSet is not annotated.
buildSts_unmarked(i) ==
    /\ pc = "build"
    /\ i < mem.spec.replicas
    /\ StsDone(i) /\ cached.sts[i] # wantSts(i)
    /\ sts' = [sts EXCEPT ![i] = Templated(@, wantSts(i))]
    /\ idx' = i
    /\ Built(StsCurrent(i), "return")
    /\ UNCHANGED childVars

buildSts(i) ==
    /\ pc = "build"
    /\ i < mem.spec.replicas
    /\ StsDone(i) /\ cached.sts[i] # wantSts(i)
    /\ sts' = [sts EXCEPT ![i] = Templated(@, wantSts(i))]
    /\ idx' = i
    /\ Built(StsCurrent(i), IF sts[i].ex THEN "return" ELSE "annotateSts")
    /\ UNCHANGED childVars

\* The builder whose turn it is creates an object the informer does not have yet.
AlreadyExists ==
    \/ ~cached.base.ex /\ base.ex
    \/ BaseDone /\ ~cached.plugins.ex /\ plugins.ex
    \/ PluginsDone /\ ~cached.server.ex /\ server.ex
    \/ ServerDone /\ ~cached.rbac.ex /\ rbac.ex
    \/ \E i \in Node : /\ i < mem.spec.replicas
                       /\ StsDone(i) /\ ~cached.sts[i].ex /\ sts[i].ex

\* CreateOrUpdate failed, which is not retried except on conflict, and then not
\* for ever: ReconcileSuccess is set to False.
buildFails ==
    /\ pc = "build"
    /\ ~StsDone(mem.spec.replicas)
    /\ WriteFails \/ (AlreadyExists /\ UNCHANGED budget)
    /\ pc' = "return"
    /\ mem' = [mem EXCEPT !.st = SetCondition(@, "Error")]
    /\ UNCHANGED <<rmqVars, memFresh, before>>
    /\ NoChildWrite

\* Variant: goes on after the first StatefulSet.
buildDone_early ==
    /\ pc = "build"
    /\ StsDone(1)
    /\ Continue("restart")
    /\ NoChildWrite

buildDone ==
    /\ pc = "build"
    /\ StsDone(mem.spec.replicas)
    /\ Continue("restart")
    /\ NoChildWrite

-----------------------------------------------------------------------------
(***************************************************************************)
(* annotateIfNeeded: a second write puts the time of the change on the     *)
(* object, once the informer's copy shows the first one (updateAnnotation  *)
(* tries again, a few times).  A crash or a failed write here leaves the   *)
(* object without it.                                                      *)
(***************************************************************************)
Annotated(copyCurrent, written) ==
    /\ pc' = "return"
    /\ \/ copyCurrent /\ written /\ Changed /\ UNCHANGED budget
       \/ WriteFails /\ UNCHANGED <<queued, plugins, server, sts>>
    /\ UNCHANGED <<rmqVars, memVars, idx, base, rbac, view, left, pod, flags,
                   secretOK, now>>

annotatePlugins ==
    /\ pc = "annotatePlugins"
    /\ Annotated(cached.plugins = plugins,
                 /\ plugins' = [plugins EXCEPT !.mark = now]
                 /\ UNCHANGED <<server, sts>>)

annotateServer ==
    /\ pc = "annotateServer"
    /\ Annotated(cached.server = server,
                 /\ server' = [server EXCEPT !.mark = now]
                 /\ UNCHANGED <<plugins, sts>>)

annotateSts ==
    /\ pc = "annotateSts"
    /\ Annotated(StsCurrent(idx),
                 /\ sts' = [sts EXCEPT ![idx].created = TRUE]
                 /\ UNCHANGED <<plugins, server>>)

\* Variant: a restart in the second of the change counts as one after it.
NeedsRestart_sameSecond(i) ==
    /\ cached.sts[i].ex
    /\ cached.server.mark > 0 /\ cached.sts[i].restartAt < cached.server.mark

\* restartStatefulSetIfNeeded restarts one StatefulSet that was not restarted
\* strictly after the last change of the server config map.
NeedsRestart(i) ==
    /\ cached.sts[i].ex
    /\ cached.server.mark > 0 /\ cached.sts[i].restartAt <= cached.server.mark

\* Once decided, the restart is written to the current StatefulSet: on a conflict
\* the copy is read again, when its event has come, but not judged again.
restartStatefulSetIfNeeded(i) ==
    /\ pc = "restart"
    /\ NeedsRestart(i)
    /\ pc' = "return"
    /\ \/ /\ sts' = [sts EXCEPT ![i] = Templated(@, [@ EXCEPT !.restartAt = now])]
          /\ view' = IF ChildLag THEN [view EXCEPT !.sts[i] = sts[i], !.up[i] = pod[i].up]
                     ELSE view
          /\ queued' = (queued \/ IF ChildLag THEN ~StsCurrent(i) ELSE sts[i].restartAt # now)
          /\ UNCHANGED budget
       \/ WriteFails /\ UNCHANGED <<sts, view, queued>>
    /\ UNCHANGED <<rmqVars, memVars, idx, childVars, left, pod, flags, secretOK, now>>

noRestartNeeded ==
    /\ pc = "restart"
    /\ \A i \in Node : ~NeedsRestart(i)
    /\ Continue("status")
    /\ NoChildWrite

\* Variant: counts one node too many.
reconcileStatus_overcounts ==
    LET st == [mem.st EXCEPT !.replicas = mem.spec.replicas + 1, !.user = TRUE]
    IN  /\ pc = "status"
        /\ IF st = mem.st THEN Continue("cli") ELSE updateStatus(st)
        /\ NoChildWrite

reconcileStatus ==
    LET n == IF mem.spec.replicas > mem.st.replicas
             THEN mem.spec.replicas ELSE mem.st.replicas
        st == [mem.st EXCEPT !.replicas = n, !.user = TRUE]
    IN  /\ pc = "status"
        /\ IF st = mem.st THEN Continue("cli") ELSE updateStatus(st)
        /\ NoChildWrite

-----------------------------------------------------------------------------
(***************************************************************************)
(* reconcileRabbitmqCLI.  A command runs in the pod of a node and fails if *)
(* the pod is down; removing a marker is a write, of the copy read at the  *)
(* beginning and without a retry, that may fail.  An error is recorded in  *)
(* ReconcileSuccess.                                                       *)
(***************************************************************************)
CLIFails ==
    /\ pc' = "return"
    /\ mem' = [mem EXCEPT !.st = SetCondition(@, "FailedCLICommand")]
    /\ UNCHANGED <<rmqVars, memFresh, before, queued, childVars, nodeVars>>

reconcileRabbitmqCLI ==
    /\ pc = "cli"
    /\ IF ~allReplicasReadyAndUpdated \/ Cardinality(Listed) # mem.spec.replicas
       THEN Continue("return") /\ UNCHANGED left
       ELSE /\ Continue(IF cached.plugins.mark = 0 THEN "cliFlags"
                        ELSE IF cached.plugins.mark = now THEN "return" ELSE "cliPlugins")
            /\ left' = {i \in Listed : cached.sts[i].created}
    /\ idx' = 0
    /\ UNCHANGED <<queued, childVars, sts, view, pod, flags, secretOK, now>>

\* rabbitmq-plugins set, on one node after the other.
runSetPluginsCommand ==
    /\ pc = "cliPlugins" /\ idx < mem.spec.replicas
    /\ \/ /\ pod[idx].up
          /\ pod' = [pod EXCEPT ![idx].plugins = mem.spec.plugins]
          /\ idx' = idx + 1
          /\ UNCHANGED <<rmqVars, memVars, pc, queued, childVars, sts, view, left,
                         flags, budget>>
       \/ ~pod[idx].up /\ CLIFails /\ UNCHANGED <<idx, budget>>
       \/ pod[idx].up /\ WriteFails /\ CLIFails /\ UNCHANGED idx
    /\ UNCHANGED <<secretOK, now>>

removePluginsConfigUpdatedFlag ==
    /\ pc = "cliPlugins" /\ idx = mem.spec.replicas
    /\ \/ /\ cached.plugins = plugins
          /\ plugins' = [plugins EXCEPT !.mark = 0]
          /\ Changed
          /\ pc' = "cliFlags"
          /\ UNCHANGED <<rmqVars, memVars, base, server, rbac, nodeVars, budget>>
       \/ cached.plugins # plugins /\ CLIFails /\ UNCHANGED budget
       \/ WriteFails /\ CLIFails
    /\ UNCHANGED <<idx, secretOK, now>>

\* enable_feature_flag all, in pod 0, once for every new StatefulSet.  A marker
\* that cannot be removed has the command run again, so flags does not count it.
runEnableFeatureFlagsCommand(i) ==
    /\ pc = "cliFlags"
    /\ i \in left
    /\ \/ /\ ~pod[0].up \/ ~StsCurrent(i)
          /\ CLIFails /\ UNCHANGED budget
       \/ WriteFails /\ CLIFails
       \/ /\ pod[0].up /\ StsCurrent(i)
          /\ flags' = Existing
          /\ sts' = [sts EXCEPT ![i].created = FALSE]
          /\ left' = left \ {i}
          /\ Changed
          /\ UNCHANGED <<rmqVars, memVars, pc, childVars, view, pod, budget>>
    /\ UNCHANGED <<idx, secretOK, now>>

featureFlagsDone ==
    /\ pc = "cliFlags"
    /\ left = {}
    /\ Continue("cliRebalance")
    /\ NoChildWrite

\* rabbitmq-queues rebalance all, in pod 0, then the flag is removed.
runQueueRebalanceCommand ==
    /\ pc = "cliRebalance" /\ mem.rebal # 0
    /\ IF pod[0].up /\ memFresh
       THEN \/ Store([mem EXCEPT !.rebal = 0, !.st = rmq.st])
               /\ pc' = "cliRebalance" /\ UNCHANGED <<queued, childVars, nodeVars>>
            \/ WriteFails /\ CLIFails
       ELSE CLIFails /\ UNCHANGED budget
    /\ UNCHANGED <<idx, secretOK, now>>

\* The last lines of Reconcile: nothing is left to do for this generation.
reconcileSuccess ==
    /\ pc = "cliRebalance" /\ mem.rebal = 0
    /\ pc' = "succeed"
    /\ mem' = [mem EXCEPT !.st = [SetCondition(@, "Success")
                                    EXCEPT !.obsGen = mem.gen]]
    /\ UNCHANGED <<rmqVars, memFresh, before, budget>>
    /\ NoChildWrite

\* Variant: a completed result is not requeued.
deferredStatusUpdate_drops ==
    /\ pc \in {"return", "succeed"}
    /\ \/ mem.st = before /\ UNCHANGED <<rmqVars, budget>>
       \/ mem.st # before /\ Refused
       \/ /\ mem.st # before /\ memFresh
          /\ rmq' = [rmq EXCEPT !.st = mem.st]
          /\ cacheFresh' = (cacheFresh /\ rmq.st = mem.st)
          /\ UNCHANGED <<cache, budget>>
    /\ pc' = "idle" /\ idx' = 0
    /\ mem' = Blank /\ memFresh' = FALSE /\ before' = Blank.st
    /\ left' = {}
    /\ UNCHANGED <<queued, childVars, sts, view, pod, flags, secretOK, now>>

\* The deferred update of the status, whose error is only logged.  A result
\* that is completed puts the cluster back into the work queue.
deferredStatusUpdate ==
    /\ pc \in {"return", "succeed"}
    /\ \/ mem.st = before /\ UNCHANGED <<rmqVars, budget>>
       \/ mem.st # before /\ Refused
       \/ /\ mem.st # before /\ memFresh
          /\ rmq' = [rmq EXCEPT !.st = mem.st]
          /\ cacheFresh' = (cacheFresh /\ rmq.st = mem.st)
          /\ UNCHANGED <<cache, budget>>
    /\ pc' = "idle" /\ idx' = 0
    /\ queued' = (queued \/ pc = "return")
    /\ mem' = Blank /\ memFresh' = FALSE /\ before' = Blank.st
    /\ left' = {}
    /\ UNCHANGED <<childVars, sts, view, pod, flags, secretOK, now>>

\* The process dies: what it held in memory is lost.  Its successor lists all
\* objects, which fills the cache and the work queue.
Restarted ==
    /\ pc' = "idle" /\ idx' = 0
    /\ queued' = TRUE
    /\ mem' = Blank /\ memFresh' = FALSE /\ before' = Blank.st
    /\ cache' = rmq /\ cacheFresh' = TRUE
    /\ view' = IF ChildLag THEN current ELSE view
    /\ left' = {}
    /\ UNCHANGED <<rmq, childVars, sts, pod, flags, secretOK, now>>

\* res[i] = &statefulSetList.Items[i] is out of range.
panicGetChildResources ==
    /\ pc = "conditions"
    /\ ~ChildResourcesFit
    /\ Restarted
    /\ UNCHANGED budget

Crash ==
    /\ pc # "idle"
    /\ budget.crashes > 0
    /\ budget' = [budget EXCEPT !.crashes = @ - 1]
    /\ Restarted

OperatorStep ==
    \/ getRabbitmqCluster \/ addFinalizer \/ reconcilePaused
    \/ reconcileOperatorDefaults \/ reconcileStatusConditions \/ reconcileTLS
    \/ reconcileQueueRebalanced \/ reconcileScaleDown \/ waitResourceReady
    \/ buildBase \/ buildPlugins \/ buildServer \/ buildRbac
    \/ \E i \in Node : buildSts(i)
    \/ buildFails \/ buildDone
    \/ annotatePlugins \/ annotateServer \/ annotateSts
    \/ \E i \in Node : restartStatefulSetIfNeeded(i)
    \/ noRestartNeeded \/ reconcileStatus \/ reconcileRabbitmqCLI
    \/ runSetPluginsCommand \/ removePluginsConfigUpdatedFlag
    \/ \E i \in Node : runEnableFeatureFlagsCommand(i)
    \/ featureFlagsDone \/ runQueueRebalanceCommand \/ reconcileSuccess
    \/ deferredStatusUpdate \/ panicGetChildResources

-----------------------------------------------------------------------------
(***************************************************************************)
(* The environment.                                                        *)
(***************************************************************************)
\* A watch event brings the informer up to date and queues the cluster.
cacheSync ==
    /\ ~cacheFresh
    /\ cache' = rmq /\ cacheFresh' = TRUE
    /\ queued' = TRUE
    /\ UNCHANGED <<rmq, memVars, pc, idx, childVars, nodeVars, envVars>>

\* The same for a child.  An event that arrives during a step that does not read
\* the copies (reconcileRabbitmqCLI goes on with those it read at its beginning)
\* counts from the next one that does.
Reading == {"idle", "conditions", "rebalance", "wait", "build", "annotatePlugins",
            "annotateServer", "annotateSts", "restart", "cli"}

childSync(new) ==
    /\ ChildLag
    /\ pc \in Reading
    /\ view # new
    /\ view' = new
    /\ queued' = TRUE
    /\ UNCHANGED <<rmqVars, memVars, pc, idx, childVars, sts, left, pod, flags, envVars>>

stsSync(i) == childSync([view EXCEPT !.sts[i] = sts[i], !.up[i] = pod[i].up])

ChildSync ==
    \/ childSync([view EXCEPT !.base = base])
    \/ childSync([view EXCEPT !.plugins = plugins])
    \/ childSync([view EXCEPT !.server = server])
    \/ childSync([view EXCEPT !.rbac = rbac])
    \/ \E i \in Node : stsSync(i)

UserWrites(obj) ==
    /\ budget.edits > 0
    /\ obj # rmq
    /\ budget' = [budget EXCEPT !.edits = @ - 1]
    /\ rmq' = obj
    /\ cacheFresh' = FALSE /\ memFresh' = FALSE
    /\ UNCHANGED <<cache, mem, before, pc, idx, queued, childVars, nodeVars,
                   secretOK, now>>

UserEditsSpec ==
    \E spec \in
        [replicas : IF "replicas" \in EditKinds THEN Replicas ELSE {rmq.spec.replicas},
         image    : IF "image" \in EditKinds THEN Images ELSE {rmq.spec.image},
         conf     : IF "conf" \in EditKinds THEN Confs ELSE {rmq.spec.conf},
         plugins  : IF "plugins" \in EditKinds THEN PluginSets ELSE {rmq.spec.plugins},
         tls      : IF "tls" \in EditKinds THEN {"off", "on", "invalid"} ELSE {rmq.spec.tls}] :
        /\ spec # rmq.spec
        /\ UserWrites([rmq EXCEPT !.spec = spec, !.gen = @ + 1])

UserPauses ==
    /\ "pause" \in EditKinds
    /\ UserWrites([rmq EXCEPT !.paused = ~@])

UserWritesSecret ==
    /\ "tls" \in EditKinds
    /\ budget.edits > 0
    /\ budget' = [budget EXCEPT !.edits = @ - 1]
    /\ secretOK' = ~secretOK
    /\ UNCHANGED <<rmqVars, memVars, pc, idx, queued, childVars, nodeVars, now>>

NodeEvent ==
    /\ Changed
    /\ UNCHANGED <<rmqVars, memVars, pc, idx, childVars, view, left, flags, secretOK, now>>

RunsTemplate(i) ==
    pod[i].template = sts[i].template /\ pod[i].restartAt = sts[i].restartAt

stsObserve(i) ==
    /\ sts[i].ex /\ ~sts[i].seen
    /\ sts' = [sts EXCEPT ![i].seen = TRUE, ![i].updating = ~RunsTemplate(i)]
    /\ UNCHANGED <<pod, budget>>
    /\ NodeEvent

podStop(i) ==
    /\ sts[i].ex /\ sts[i].seen
    /\ pod[i].up /\ ~RunsTemplate(i)
    /\ pod' = [pod EXCEPT ![i].up = FALSE]
    /\ UNCHANGED <<sts, budget>>
    /\ NodeEvent

\* A pod reads both config maps when it starts.
podStart(i) ==
    /\ sts[i].ex /\ sts[i].seen
    /\ ~pod[i].up
    /\ sts[i].template[1] \notin BrokenImages
    /\ pod' = [pod EXCEPT ![i] = [up |-> TRUE, template |-> sts[i].template,
                                  restartAt |-> sts[i].restartAt,
                                  conf |-> server.conf, plugins |-> plugins.val]]
    /\ sts' = [sts EXCEPT ![i].updating = FALSE]
    /\ UNCHANGED budget
    /\ NodeEvent

podFail(i) ==
    /\ pod[i].up
    /\ budget.pods > 0
    /\ budget' = [budget EXCEPT !.pods = @ - 1]
    /\ pod' = [pod EXCEPT ![i].up = FALSE]
    /\ UNCHANGED sts
    /\ NodeEvent

\* A tick is a time after which a new timestamp differs from the ones taken
\* before it, and the plugins marker is no longer recent.  It is only needed
\* when a timestamp was taken since the last one, and between reconciles: no
\* reconcile takes two timestamps.
tick ==
    /\ pc = "idle"
    /\ now < MaxTime
    /\ now \in {rmq.rebal, plugins.mark, server.mark, server.ann}
    /\ now' = now + 1
    /\ UNCHANGED <<rmqVars, memVars, pc, idx, queued, childVars, nodeVars,
                   secretOK, budget>>

NodeStep(i) == stsObserve(i) \/ podStop(i) \/ podStart(i)

Next ==
    \/ OperatorStep \/ Crash \/ cacheSync \/ ChildSync
    \/ UserEditsSpec \/ UserPauses \/ UserWritesSecret
    \/ \E i \in Node : NodeStep(i) \/ podFail(i)
    \/ tick

Spec == Init /\ [][Next]_vars

(***************************************************************************)
(* The operator process keeps running (or is restarted), watch events are  *)
(* delivered, the StatefulSet controller does its work and time passes     *)
(* (strongly fair: tick is confined to the gaps between reconciles, and a  *)
(* child's event counts only before a step that reads the children).       *)
(* Nothing is assumed of the user, of crashes or of failures.              *)
(***************************************************************************)
Fairness ==
    /\ WF_vars(OperatorStep) /\ WF_vars(cacheSync)
    /\ SF_vars(ChildSync) /\ SF_vars(tick)
    /\ \A i \in Node : WF_vars(NodeStep(i))

FairSpec == Spec /\ Fairness

-----------------------------------------------------------------------------
(***************************************************************************)
(* Properties.                                                             *)
(***************************************************************************)
\* Every variable keeps the type of the object it stands for; loops end after the
\* last node and status.replicas never exceeds the largest cluster.
TypeOK ==
    /\ rmq \in Cluster /\ cache \in Cluster /\ mem \in Cluster
    /\ cacheFresh \in BOOLEAN /\ memFresh \in BOOLEAN
    /\ before \in ClusterStatus
    /\ pc \in Steps /\ idx \in 0..MaxReplicas /\ queued \in BOOLEAN
    /\ base \in Child /\ rbac \in Child
    /\ plugins \in PluginsConfigMap /\ server \in ServerConfigMap
    /\ sts \in [Node -> StatefulSet] /\ view \in View /\ left \subseteq Node
    /\ pod \in [Node -> Pod] /\ flags \subseteq Node
    /\ secretOK \in BOOLEAN /\ now \in Nat \ {0}
    /\ budget \in Budget

\* The children carry what the given spec asks for.
Applied(spec) ==
    /\ base.ex /\ plugins.ex /\ server.ex /\ rbac.ex
    /\ plugins.val = spec.plugins
    /\ server.conf = serverConf(spec) /\ server.hint = spec.replicas
    /\ \A i \in Node : i < spec.replicas =>
          sts[i].ex /\ sts[i].template = podTemplate(spec)

Observed == rmq.st.success = "Success" /\ rmq.st.obsGen = rmq.gen

\* If the children are read as they are (ChildLag = FALSE), ReconcileSuccess is
\* True for the current generation only when every child object was written from
\* the current spec, whatever the informer's copy of the cluster showed, and
\* whichever writes were refused, failed or cut off by a crash.
SuccessMeansApplied == Observed => Applied(rmq.spec)

\* The operator is idle, its work queue is empty, and no event is on its way.
AtRest ==
    /\ pc = "idle" /\ ~queued
    /\ cacheFresh /\ (ChildLag => view = current)

\* With old copies of the children success may be reported too early (CreateOrUpdate
\* compares the spec with a copy), but the operator does not come to rest before
\* every child object carries the current spec, whatever the informers showed,
\* and whichever writes were refused, failed or cut off by a crash.
RestMeansApplied == AtRest => Applied(rmq.spec)

\* status.replicas, which guards against scaling down, never counts a node
\* that was not created.
StatusReplicasBacked == \A i \in Node : i < rmq.st.replicas => sts[i].ex

\* status.replicas never goes down: the status written from a stale copy of the
\* cluster is refused.
StatusReplicasMonotone == [][rmq'.st.replicas >= rmq.st.replicas]_vars

\* The operator never overwrites a user's edit of the spec: it only fills in
\* the image a user left empty.
OperatorPreservesSpec ==
    [][budget'.edits = budget.edits /\ ~ControlRabbitmqImage =>
         \/ rmq'.spec = rmq.spec
         \/ rmq.spec.image = Unset
            /\ rmq'.spec = [rmq.spec EXCEPT !.image = DefaultImage]]_vars

\* A node whose pod has not been started from its StatefulSet's template yet.
Outdated(i) == sts[i].ex /\ ~RunsTemplate(i)

\* If status and copies of the StatefulSets do not lag (StsLag, ChildLag = FALSE):
\* however a change is rolled out (a new template, a restart for a new server
\* configuration, or a new node), the operator disturbs one node at a time:
\* waitResourceReady lets it go on to the next once the last one is ready.  An
\* image with which no pod becomes ready stops the first node only.
OneNodeAtATime == \A i, j \in Node : Outdated(i) /\ Outdated(j) => i = j

\* The roll-out of a change as RollingUpdate has it: the template of a node with
\* the time of its last restart is what the node should run.
Rolling == INSTANCE RollingUpdate WITH
    Template <- PodTemplate \X Time,
    NoTemplate <- <<podTemplate(Blank.spec), 0>>,
    MayFail <- MaxPodFailures > 0,
    want <- [i \in Node |-> <<sts[i].template, sts[i].restartAt>>],
    runs <- [i \in Node |-> <<pod[i].template, pod[i].restartAt>>],
    up <- [i \in Node |-> pod[i].up]

\* Every write of a StatefulSet and every step of its controller is one that
\* RollingUpdate allows: the operator changes a node only while every node runs
\* what it should, through crashes, failed writes, failing pods and user edits.
ImplementsRollingUpdate == Rolling!Spec

\* The queues are rebalanced, and the marker removed, only after the roll-out that
\* asked for it is over: every node runs its template, which is the one
\* the spec asks for.
RebalanceAfterRollout ==
    [][rmq.rebal # 0 /\ rmq'.rebal = 0 =>
         \A i \in Node : i < rmq.spec.replicas =>
             RunsTemplate(i) /\ sts[i].template = podTemplate(rmq.spec)]_vars

\* The nodes run what the spec asks for: pod template and server configuration by
\* restarting, plugins by a restart or by rabbitmq-plugins set.
Deployed ==
    \A i \in Node : i < rmq.spec.replicas =>
        /\ sts[i].ex /\ pod[i].up
        /\ pod[i].template = podTemplate(rmq.spec)
        /\ pod[i].conf = serverConf(rmq.spec)
        /\ pod[i].plugins = rmq.spec.plugins

\* ReconcileSuccess is True for the current generation only when every node
\* runs the current spec, not just when the objects have been written (if the
\* children are read as they are: ChildLag = FALSE).
SuccessMeansDeployed == Observed => Deployed

\* ReconcileSuccess is True for the current generation only when the feature
\* flags have been enabled since the last node was created (with ChildLag = FALSE,
\* and no crash or failed write between creating a node and marking it).
SuccessMeansFlagsEnabled ==
    Observed => \A i \in Node : i < rmq.spec.replicas => i \in flags

\* When the operator is idle, the work queue is empty, no event is on its way
\* and no write has failed (the error of the last status write is only logged,
\* and nothing retries it), then the cluster's current generation has been
\* reconciled, its status says so, all pods are up and AllReplicasReady is True:
\* no wakeup is lost, and the condition, which is that of the StatefulSet listed
\* last, is right.
QuiescentMeansObserved ==
    AtRest /\ budget.failures = MaxFailures =>
        Observed /\ rmq.st.ready = "True" /\ \A i \in Existing : pod[i].up

\* Adding nodes changes the target cluster size hint in the server config map,
\* which alone never marks the config map for a restart of the nodes.
ScaleOutRestartsNothing == server.mark = 0 /\ \A i \in Node : sts[i].restartAt = 0

\* Without a change of the server configuration no node is restarted: changed
\* annotations of the cluster do not count as one.
AnnotationsRestartNothing == server.mark = 0

\* A spec that asks for fewer nodes than status.replicas is reported as
\* unsupported, unless the user corrects it.
ScaleDownReported ==
    rmq.spec.replicas < rmq.st.replicas /\ budget.edits = 0
        ~> rmq.st.success = "UnsupportedOperation"

\* A spec that asks for fewer nodes than exist is reported as unsupported,
\* unless the user corrects it.
ScaleDownDetected ==
    rmq.spec.replicas < Cardinality(Existing) /\ budget.edits = 0
        ~> rmq.st.success = "UnsupportedOperation"

Converged == Observed /\ Deployed /\ rmq.rebal = 0 /\ plugins.mark = 0

\* A TLS secret is not watched: taking it away after the cluster was deployed
\* goes unnoticed until another event.
Settled ==
    \/ /\ rmq.paused
       /\ rmq.st.paused \/ rmq.st.success = "None"
    \/ /\ ~rmq.paused
       /\ \/ rmq.spec.tls # "invalid" /\ Converged
          \/ rmq.spec.tls = "on" /\ ~secretOK /\ rmq.st.success = "TLSError"
          \/ rmq.spec.tls = "invalid" /\ rmq.st.success = "TLSError"

\* Once the user has stopped editing, the cluster ends up deployed, with the
\* success reported and no marker left; or paused, and reported so if there are
\* conditions to report it in; or with its TLS configuration reported as wrong.
EventuallySettled == <>[]Settled

\* With CONTROL_RABBITMQ_IMAGE set, the nodes end up running the default image.
DefaultImageDeployed ==
    <>(\A i \in Node : i < rmq.spec.replicas =>
          pod[i].up /\ pod[i].template[1] = DefaultImage)

-----------------------------------------------------------------------------
(***************************************************************************)
(* The inductive invariant behind the theorems about Spec: what the three  *)
(* copies of the cluster know of each other and of the children.           *)
(***************************************************************************)
\* A copy at the current resourceVersion has the current metadata and spec, and
\* a status that takes back nothing of status.replicas.
FreshInv ==
    /\ cacheFresh => cache = rmq
    /\ memFresh => /\ mem.gen = rmq.gen /\ mem.spec = rmq.spec
                   /\ mem.paused = rmq.paused /\ mem.finalizer = rmq.finalizer
                   /\ mem.rebal = rmq.rebal
                   /\ mem.st.replicas >= rmq.st.replicas

\* Generations: an older copy has an older generation or the same spec, and no
\* status observes a generation the cache, or the running reconcile, has not
\* reached.
GenInv ==
    /\ 1 <= cache.gen /\ cache.gen <= rmq.gen /\ mem.gen <= rmq.gen
    /\ cache.gen = rmq.gen => cache.spec = rmq.spec
    /\ pc # "idle" /\ mem.gen = rmq.gen => mem.spec = rmq.spec
    /\ pc \notin {"idle", "return"} => mem.gen <= cache.gen
    /\ \A st \in {rmq.st, cache.st, mem.st} :
          st.obsGen <= cache.gen /\ (pc # "idle" => st.obsGen <= mem.gen)

\* No copy of status.replicas counts a node that was not created, and no informer
\* has one.
BackedInv ==
    /\ \A st \in {rmq.st, cache.st, mem.st} :
          \A i \in Node : i < st.replicas => sts[i].ex
    /\ \A i \in Node : view.sts[i].ex => sts[i].ex
    /\ pc \in {"restart", "status"} =>
          \A i \in Node : i < mem.spec.replicas => sts[i].ex

\* If the children are read as they are: no copy of the status claims success for
\* the current generation before the children carry it; after reconcileResources
\* they carry the reconciled spec.
AppliedInv ==
    /\ \A st \in {rmq.st, cache.st, mem.st} :
          st.success = "Success" /\ st.obsGen = rmq.gen => Applied(rmq.spec)
    /\ pc \in {"restart", "status", "cli", "cliPlugins", "cliFlags",
              "cliRebalance", "succeed"} => Applied(mem.spec)

\* The copies of the cluster and of its status agree as the parts say, whatever the
\* interleaving of reconcile, user, watch events and crashes, however old the
\* informers' copies of cluster and children are.
IndInv == TypeOK /\ FreshInv /\ GenInv /\ BackedInv

\* Behind the roll-out, if the status of a StatefulSet does not lag: a node that is
\* outdated is seen to be, so after waitResourceReady no node is outdated.
PostWait == {"build", "restart", "status", "cli", "cliPlugins", "cliFlags",
             "cliRebalance", "succeed"}
RollInv ==
    /\ \A i \in Node : sts[i].seen
    /\ \A i \in Node : ~sts[i].ex => RunsTemplate(i) /\ ~pod[i].up
    /\ \A i \in Node : Outdated(i) => sts[i].updating \/ ~pod[i].up
    /\ pc \in PostWait => \A i \in Node : ~Outdated(i)
    /\ OneNodeAtATime

=============================================================================
