--------------------------- MODULE ClusterDeletion ---------------------------
(***************************************************************************)
(* The life of the clusters a user creates and deletes under one name, and *)
(* what reconcileDelete does to their StatefulSets and pods.               *)
(*                                                                         *)
(* The operator reads RabbitmqClusters, StatefulSets and pods through      *)
(* informers and writes to the API server.  After a restart an informer    *)
(* may list from an API server that lags, so that its copy goes back to an *)
(* earlier state until it is synced.  The steps of Reconcile between the   *)
(* finalizer and the StatefulSets are those of RabbitmqClusterReconciler;  *)
(* here a reconcile goes straight on to reconcileResources.                *)
(***************************************************************************)
EXTENDS Integers, FiniteSets

CONSTANTS
    Replicas,           \* number of nodes of every cluster
    MaxClusters,        \* bound on the clusters created under the name
    MaxUids,            \* bound on the uids of a StatefulSet in use at a time
    MaxTries,           \* DefaultRetry.Steps
    MaxFaults,          \* bound on crashes, failed calls and failing pods
    OtherFinalizers,    \* what else may hold a deleted cluster: "none" of it,
                        \* a finalizer of "other"s, or "foreground" deletion
    CacheLag,           \* may the copies of StatefulSets and pods lag behind?
    SameNameElsewhere   \* is there a cluster of this name in another namespace?

ASSUME DeletionAssumption ==
    /\ Replicas \in Nat \ {0} /\ MaxClusters \in Nat \ {0}
    /\ MaxUids \in Nat \ {0} /\ MaxTries \in Nat \ {0} /\ MaxFaults \in Nat
    /\ OtherFinalizers # {} /\ OtherFinalizers \subseteq {"none", "other", "foreground"}
    /\ CacheLag \in BOOLEAN /\ SameNameElsewhere \in BOOLEAN

VARIABLES
    rmq,       \* the RabbitmqCluster in the API server
    view,      \* the informer's copy of it
    sts,       \* the StatefulSet of each node in the API server
    stsView,   \* the informer's copies of them
    pod,       \* the pods with the label of the cluster's name
    podView,   \* the informer's copies of them
    past,      \* what an API server that lags may still list
    queued,    \* is the cluster in the work queue?
    pc,        \* the next step of the running reconcile
    mem,       \* its copy of the cluster
    listed,    \* its list of StatefulSets
    todo,      \* the ones it has not dealt with yet
    cur,       \* the one it is dealing with
    tries,     \* how often RetryOnConflict has tried that one
    pods,      \* its list of pods
    toMark,    \* the ones it has not labelled yet
    faults     \* what is left of the bound on faults

objects  == <<rmq, sts, pod>>
copies   == <<view, stsView, podView, past>>
loopVars == <<mem, listed, todo, cur, tries, pods, toMark>>
vars == <<objects, copies, queued, pc, loopVars, faults>>

Node == 0 .. Replicas - 1
Elsewhere == Replicas        \* stands for a pod in the other namespace
PodName == IF SameNameElsewhere THEN Node \cup {Elsewhere} ELSE Node
Uid == 0 .. MaxUids          \* 0: there is no such object

Cluster == [uid : 0..MaxClusters, deleting : BOOLEAN, fin : BOOLEAN,
            held : {"none", "other", "foreground"}]
StatefulSet == [uid : Uid, owner : 0..MaxClusters]
\* of is the uid of its StatefulSet; rev, the faults left when it was started, tells
\* it from the pod that replaces it.
Pod == [of : Uid, rev : 0..MaxFaults, marked : BOOLEAN]

NoCluster == [uid |-> 0, deleting |-> FALSE, fin |-> FALSE, held |-> "none"]
NoSts == [uid |-> 0, owner |-> 0]
NoPod == [of |-> 0, rev |-> 0, marked |-> FALSE]
NoStatefulSets == [i \in Node |-> NoSts]
InitialPods == [p \in PodName |-> IF p = Elsewhere THEN [NoPod EXCEPT !.of = 1] ELSE NoPod]

Init ==
    /\ rmq = [NoCluster EXCEPT !.uid = 1] /\ view = rmq
    /\ sts = NoStatefulSets /\ stsView = sts /\ listed = sts
    /\ pod = InitialPods /\ podView = pod /\ pods = pod
    /\ past = [rmq |-> rmq, sts |-> sts, pod |-> pod]
    /\ queued = TRUE
    /\ pc = "idle" /\ mem = NoCluster
    /\ todo = {} /\ cur = 0 /\ tries = 0 /\ toMark = {}
    /\ faults = MaxFaults

-----------------------------------------------------------------------------
Fault == faults > 0 /\ faults' = faults - 1

\* A StatefulSet changes in the API server: the informer's copy follows at once,
\* unless it is behind already.  The change queues the cluster.
StsBecomes(new) ==
    /\ sts' = new
    /\ stsView' = IF CacheLag \/ stsView # sts THEN stsView ELSE new
    /\ queued' = TRUE
    /\ UNCHANGED view

PodsBecome(new) ==
    /\ pod' = new
    /\ podView' = IF CacheLag \/ podView # pod THEN podView ELSE new

\* The reconcile ends, with a result or an error that puts the cluster back into
\* the work queue.
Requeue ==
    /\ pc' = "idle" /\ queued' = TRUE
    /\ mem' = NoCluster /\ listed' = NoStatefulSets /\ todo' = {} /\ cur' = 0
    /\ tries' = 0 /\ pods' = InitialPods /\ toMark' = {}

getRabbitmqCluster ==
    /\ pc = "idle" /\ queued
    /\ queued' = FALSE
    /\ mem' = view
    /\ pc' = CASE view.uid = 0 -> "idle"
               [] view.uid # 0 /\ view.deleting -> "list"
               [] view.uid # 0 /\ ~view.deleting /\ view.fin -> "build"
               [] OTHER -> "addFinalizer"
    /\ UNCHANGED <<objects, copies, listed, todo, cur, tries, pods, toMark, faults>>

\* A write of the RabbitmqCluster: refused if mem is not what the server has.
UpdateCluster(new) ==
    /\ \/ mem = rmq /\ rmq' = new /\ UNCHANGED faults
       \/ mem # rmq /\ UNCHANGED <<rmq, faults>>
       \/ mem = rmq /\ Fault /\ UNCHANGED rmq
    /\ Requeue
    /\ UNCHANGED <<sts, pod, copies>>

addFinalizer ==
    /\ pc = "addFinalizer"
    /\ UpdateCluster([mem EXCEPT !.fin = TRUE])

-----------------------------------------------------------------------------
(***************************************************************************)
(* reconcileDelete.                                                        *)
(***************************************************************************)
statefulSets ==
    /\ pc = "list"
    /\ listed' = stsView
    /\ todo' = {i \in Node : stsView[i].uid # 0}
    /\ tries' = 0
    /\ pc' = "sts"
    /\ UNCHANGED <<objects, copies, queued, mem, cur, pods, toMark, faults>>

\* The loop body ends for StatefulSet i: an error is only logged.
NextSts(i) ==
    /\ pc' = "sts"
    /\ todo' = todo \ {i}
    /\ tries' = 0
    /\ cur' = 0 /\ pods' = InitialPods /\ toMark' = {}
    /\ UNCHANGED <<mem, listed>>

\* Variant: one try too many.
Conflict_oneMore(i) ==
    IF tries < MaxTries
    THEN /\ pc' = "sts"
         /\ tries' = tries + 1
         /\ pods' = InitialPods /\ toMark' = {}
         /\ UNCHANGED <<mem, listed, todo, cur>>
    ELSE NextSts(i)

\* RetryOnConflict runs the loop body again, up to its number of tries.
Conflict(i) ==
    IF tries + 1 < MaxTries
    THEN /\ pc' = "sts"
         /\ tries' = tries + 1
         /\ pods' = InitialPods /\ toMark' = {}
         /\ UNCHANGED <<mem, listed, todo, cur>>
    ELSE NextSts(i)

\* Variant: takes the uid of a StatefulSet without looking at its owner.
statefulSetUID_anyOwner(i) == listed[i].uid # 0

\* The uid of a StatefulSet is used only if it is owned by the cluster in mem.
statefulSetUID(i) == listed[i].owner = mem.uid

\* The loop body for the next StatefulSet begins: its owner is checked and the
\* pods are listed, by the label of the cluster's name and in all namespaces.
listPods(i) ==
    /\ pc = "sts" /\ i \in todo
    /\ tries > 0 => i = cur
    /\ IF statefulSetUID(i)
       THEN /\ pc' = "label" /\ cur' = i
            /\ pods' = podView
            /\ toMark' = {p \in PodName : podView[p].of # 0}
            /\ UNCHANGED <<mem, listed, todo, tries>>
       ELSE NextSts(i)
    /\ UNCHANGED <<objects, copies, queued, faults>>

\* Variant: ignores every error, not only that the pod is gone.
addRabbitmqDeletionLabel_ignoresErrors(p) ==
    /\ pc = "label" /\ p \in toMark
    /\ \/ /\ pod[p].of = 0 \/ pod[p] = pods[p]
          /\ PodsBecome([pod EXCEPT ![p].marked = (pod[p].of # 0)])
          /\ UNCHANGED faults
       \/ pod[p].of # 0 /\ pod[p] # pods[p] /\ UNCHANGED <<pod, podView, faults>>
       \/ Fault /\ UNCHANGED <<pod, podView>>
    /\ toMark' = toMark \ {p}
    /\ UNCHANGED <<rmq, sts, view, stsView, past, queued, pc, mem, listed, todo, cur,
                   tries, pods>>

\* addRabbitmqDeletionLabel, for one pod: a pod that is gone is passed over, one
\* that is not the listed version any more is a conflict.
addRabbitmqDeletionLabel(p) ==
    /\ pc = "label" /\ p \in toMark
    /\ \/ /\ pod[p].of = 0 \/ pod[p] = pods[p]
          /\ PodsBecome([pod EXCEPT ![p].marked = (pod[p].of # 0)])
          /\ toMark' = toMark \ {p}
          /\ UNCHANGED <<pc, mem, listed, todo, cur, tries, pods, faults>>
       \/ /\ pod[p].of # 0 /\ pod[p] # pods[p]
          /\ Conflict(cur)
          /\ UNCHANGED <<pod, podView, faults>>
       \/ /\ Fault /\ NextSts(cur)
          /\ UNCHANGED <<pod, podView>>
    /\ UNCHANGED <<rmq, sts, view, stsView, past, queued>>

\* Variant: deletes whatever has the name of the StatefulSet.
deleteStatefulSet_byName ==
    /\ pc = "label" /\ toMark = {}
    /\ StsBecomes([sts EXCEPT ![cur] = NoSts]) /\ NextSts(cur)
    /\ UNCHANGED <<rmq, pod, podView, past, faults>>

\* Delete with the listed uid as its precondition.
deleteStatefulSet ==
    /\ pc = "label" /\ toMark = {}
    /\ \/ /\ sts[cur].uid \in {0, listed[cur].uid}
          /\ StsBecomes([sts EXCEPT ![cur] = NoSts]) /\ NextSts(cur)
          /\ UNCHANGED faults
       \/ /\ sts[cur].uid \notin {0, listed[cur].uid}
          /\ Conflict(cur)
          /\ UNCHANGED <<sts, view, stsView, queued, faults>>
       \/ /\ Fault /\ NextSts(cur)
          /\ UNCHANGED <<sts, view, stsView, queued>>
    /\ UNCHANGED <<rmq, pod, podView, past>>

\* The last finalizer takes the cluster with it.  Without a finalizer to remove,
\* the reconcile goes on as for a cluster that is not being deleted.
Released(c) == IF c.held = "none" THEN NoCluster ELSE [c EXCEPT !.fin = FALSE]

\* Variant: removes the finalizer in memory only.
removeFinalizer_inMemory ==
    /\ pc = "sts" /\ todo = {}
    /\ \/ mem.fin /\ Requeue /\ UNCHANGED <<objects, copies, faults>>
       \/ ~mem.fin /\ pc' = "build" /\ listed' = NoStatefulSets
          /\ UNCHANGED <<objects, copies, queued, mem, todo, cur, tries, pods, toMark,
                         faults>>

removeFinalizer ==
    /\ pc = "sts" /\ todo = {}
    /\ \/ mem.fin /\ UpdateCluster(Released(mem))
       \/ ~mem.fin /\ pc' = "build" /\ listed' = NoStatefulSets
          /\ UNCHANGED <<objects, copies, queued, mem, todo, cur, tries, pods, toMark,
                         faults>>

-----------------------------------------------------------------------------
(***************************************************************************)
(* reconcileResources, as far as the StatefulSets: waits for the ones      *)
(* there are, then creates the first that is missing.  A StatefulSet with  *)
(* another owner is an error, like one that is there but not in the cache. *)
(***************************************************************************)
ResourcesReady ==
    \A i \in Node : stsView[i].uid # 0 => podView[i].of = stsView[i].uid

Missing == {i \in Node : stsView[i] = NoSts \/ stsView[i].owner # mem.uid}

\* The uids of node i's StatefulSets that some copy still refers to.
InUse(i) == {sts[i].uid, stsView[i].uid, listed[i].uid, past.sts[i].uid,
             pod[i].of, podView[i].of, pods[i].of, past.pod[i].of}

FreshUid(i) == CHOOSE u \in Uid \ {0} : u \notin InUse(i)

createStatefulSet(i) ==
    IF stsView[i] = NoSts /\ sts[i] = NoSts
    THEN \/ /\ ~(Uid \ {0} \subseteq InUse(i))
            /\ StsBecomes([sts EXCEPT ![i] = [uid |-> FreshUid(i), owner |-> mem.uid]])
            /\ UNCHANGED faults
         \/ Fault /\ UNCHANGED <<sts, view, stsView>>
    ELSE UNCHANGED <<sts, view, stsView, faults>>

reconcileResources ==
    /\ pc = "build"
    /\ \/ /\ ~ResourcesReady
          /\ Requeue /\ UNCHANGED <<sts, view, stsView, faults>>
       \/ /\ ResourcesReady
          /\ \E i \in Missing : (\A j \in Missing : i <= j) /\ createStatefulSet(i)
          /\ Requeue
       \/ /\ ResourcesReady /\ Missing = {}
          /\ pc' = "idle" /\ mem' = NoCluster
          /\ UNCHANGED <<sts, view, stsView, queued, listed, todo, cur, tries, pods,
                         toMark, faults>>
    /\ UNCHANGED <<rmq, pod, podView, past>>

OperatorStep ==
    \/ getRabbitmqCluster \/ addFinalizer \/ statefulSets
    \/ \E i \in Node : listPods(i)
    \/ \E p \in PodName : addRabbitmqDeletionLabel(p)
    \/ deleteStatefulSet \/ removeFinalizer \/ reconcileResources

-----------------------------------------------------------------------------
(***************************************************************************)
(* The environment.                                                        *)
(***************************************************************************)
NoOperatorStep == UNCHANGED <<pc, loopVars>>

UserCreates ==
    /\ rmq.uid = 0
    /\ \E u \in 1..MaxClusters :
         /\ {view.uid, mem.uid, past.rmq.uid} \subseteq 0 .. u - 1
         /\ \A i \in Node : {sts[i].owner, stsView[i].owner, listed[i].owner,
                             past.sts[i].owner} \subseteq 0 .. u - 1
         /\ rmq' = [NoCluster EXCEPT !.uid = u]
    /\ NoOperatorStep /\ UNCHANGED <<sts, pod, copies, queued, faults>>

\* An API server that lags may go on listing what there is now.
UserDeletes ==
    /\ rmq.uid # 0 /\ ~rmq.deleting
    /\ \E held \in OtherFinalizers :
         LET c == [rmq EXCEPT !.deleting = TRUE, !.held = held] IN
         /\ rmq' = IF c.fin THEN c ELSE Released(c)
         /\ past' = [rmq |-> IF rmq'.uid = 0 THEN rmq ELSE c, sts |-> sts, pod |-> pod]
    /\ NoOperatorStep
    /\ UNCHANGED <<sts, pod, view, stsView, podView, queued, faults>>

\* The other finalizers are done.  Foreground deletion waits for the dependents.
otherFinalizersDone ==
    /\ rmq.deleting /\ ~rmq.fin
    /\ rmq.held = "foreground" => sts = NoStatefulSets
    /\ rmq' = NoCluster
    /\ NoOperatorStep /\ UNCHANGED <<sts, pod, copies, queued, faults>>

rmqSync ==
    /\ view # rmq
    /\ view' = rmq /\ queued' = TRUE
    /\ NoOperatorStep /\ UNCHANGED <<objects, stsView, podView, past, faults>>

stsSync ==
    /\ stsView # sts
    /\ stsView' = sts /\ queued' = TRUE
    /\ NoOperatorStep /\ UNCHANGED <<objects, view, podView, past, faults>>

podSync ==
    /\ podView # pod
    /\ podView' = pod /\ queued' = TRUE
    /\ NoOperatorStep /\ UNCHANGED <<objects, view, stsView, past, faults>>

\* The garbage collector deletes what a cluster that is gone owned, and the
\* dependents of one that is deleted in the foreground.
collect(i) ==
    /\ sts[i].uid # 0
    /\ sts[i].owner # rmq.uid \/ (rmq.deleting /\ rmq.held = "foreground" /\ ~rmq.fin)
    /\ StsBecomes([sts EXCEPT ![i] = NoSts])
    /\ NoOperatorStep /\ UNCHANGED <<rmq, pod, podView, past, faults>>

\* A pod of a StatefulSet is started, and becomes ready.
podStart(i) ==
    /\ sts[i].uid # 0 /\ pod[i] = NoPod
    /\ PodsBecome([pod EXCEPT ![i] = [of |-> sts[i].uid, rev |-> faults,
                                    marked |-> FALSE]])
    /\ queued' = TRUE
    /\ NoOperatorStep /\ UNCHANGED <<rmq, sts, view, stsView, past, faults>>

\* A pod whose StatefulSet is gone ends: at once if it is labelled, else when its
\* PreStop checks let it or its grace period is over.
podEnd(i) ==
    /\ pod[i].of \notin {0, sts[i].uid}
    /\ PodsBecome([pod EXCEPT ![i] = NoPod])
    /\ queued' = TRUE
    /\ NoOperatorStep /\ UNCHANGED <<rmq, sts, view, stsView, past, faults>>

podFail(i) ==
    /\ pod[i].of # 0 /\ pod[i].of = sts[i].uid
    /\ Fault
    /\ PodsBecome([pod EXCEPT ![i] = NoPod])
    /\ queued' = TRUE
    /\ NoOperatorStep /\ UNCHANGED <<rmq, sts, view, stsView, past>>

\* The operator's process dies.  Each informer of its successor lists what there
\* is, or what there was.
Crash ==
    /\ Fault
    /\ Requeue
    /\ view' \in {rmq, past.rmq}
    /\ stsView' \in {sts, past.sts}
    /\ podView' \in {pod, past.pod}
    /\ UNCHANGED <<objects, past>>

NodeStep(i) == collect(i) \/ podStart(i) \/ podEnd(i)
Sync == rmqSync \/ stsSync \/ podSync

Next ==
    \/ OperatorStep \/ Crash \/ Sync
    \/ UserCreates \/ UserDeletes \/ otherFinalizersDone
    \/ \E i \in Node : NodeStep(i) \/ podFail(i)

Spec == Init /\ [][Next]_vars

(***************************************************************************)
(* The operator runs, watch events arrive, and the controllers and the     *)
(* owners of other finalizers do their work.  Nothing is assumed of users, *)
(* of crashes or of failures.                                              *)
(***************************************************************************)
FairSpec ==
    /\ Spec
    /\ WF_vars(OperatorStep)
    /\ WF_vars(rmqSync) /\ WF_vars(stsSync) /\ WF_vars(podSync)
    /\ WF_vars(otherFinalizersDone)
    /\ \A i \in Node : WF_vars(NodeStep(i))

-----------------------------------------------------------------------------
(***************************************************************************)
(* Properties.                                                             *)
(***************************************************************************)
\* Every variable keeps the type of what it stands for.
TypeOK ==
    /\ rmq \in Cluster /\ view \in Cluster /\ mem \in Cluster
    /\ sts \in [Node -> StatefulSet] /\ stsView \in [Node -> StatefulSet]
    /\ listed \in [Node -> StatefulSet]
    /\ pod \in [PodName -> Pod] /\ podView \in [PodName -> Pod]
    /\ pods \in [PodName -> Pod]
    /\ past \in [rmq : Cluster, sts : [Node -> StatefulSet], pod : [PodName -> Pod]]
    /\ queued \in BOOLEAN
    /\ pc \in {"idle", "addFinalizer", "list", "sts", "label", "build"}
    /\ todo \subseteq Node /\ cur \in Node /\ tries \in 0 .. MaxTries - 1
    /\ toMark \subseteq PodName /\ faults \in 0..MaxFaults

\* The cluster with this uid exists and nobody has asked for its deletion.
Live(uid) == rmq.uid = uid /\ ~rmq.deleting

\* A StatefulSet of a live cluster is never deleted, however stale the lists are
\* that a deletion of its predecessor, or a restart, works with.
LiveStsKept == [][\A i \in Node : sts[i].uid # 0 /\ Live(sts[i].owner) => sts'[i] = sts[i]]_vars

\* When the operator deletes a StatefulSet, the pods it found have been told to skip
\* their PreStop checks, however old its list of pods was and whichever calls
\* failed.  (A pod that is started, or replaced, in between has not.)
DeletedPodsMarked ==
    [][\A i \in Node :
         /\ pc = "label" /\ pc' = "sts" /\ sts[i].uid # 0 /\ sts'[i].uid = 0
         /\ pod[i].of = sts[i].uid
         /\ pods[i].of = pod[i].of /\ pods[i].rev = pod[i].rev
         => pod[i].marked]_vars

\* What there is, is what the last cluster of the name asks for.
Matches ==
    /\ rmq.deleting = FALSE /\ view = rmq
    /\ \A i \in Node : sts[i].owner = rmq.uid /\ pod[i].of = sts[i].uid
                       /\ (rmq.uid # 0 => sts[i].uid # 0)

\* In the end a deleted cluster is gone with all that belonged to it, and one that
\* was created again under its name is deployed: nothing left over from
\* the first blocks the second for ever.
EventuallyMatches == <>[]Matches

\* The pods of a cluster that nobody deletes keep their PreStop checks, also those of
\* a cluster of the same name in another namespace.
LivePodsChecked ==
    faults = MaxFaults =>
        \A p \in PodName :
            p = Elsewhere \/ (pod[p].of # 0 /\ pod[p].of = sts[p].uid /\ Live(sts[p].owner))
                => ~pod[p].marked

\* No StatefulSet is created for a cluster the reconcile knows to be deleted.
NotRebuilt == [][mem.deleting => \A i \in Node : sts[i].uid = 0 => sts'[i].uid = 0]_vars

-----------------------------------------------------------------------------
(***************************************************************************)
(* The inductive invariant behind LiveStsKept.                             *)
(***************************************************************************)
\* What is known of node i's StatefulSet, somewhere.
StsCopies(i) == {NoSts, sts[i], stsView[i], listed[i], past.sts[i]}

\* A copy of a StatefulSet names the owner of the StatefulSet with its uid.
OwnerInv ==
    \A i \in Node : \A a, b \in StsCopies(i) : a.uid = b.uid => a.owner = b.owner

\* Deletion is irrevocable: a copy that shows it is right for ever.
DeletingInv ==
    /\ \A c \in {rmq, view, mem, past.rmq} : c.uid = 0 => ~c.deleting
    /\ \A c \in {view, mem, past.rmq} : c.deleting /\ c.uid = rmq.uid => rmq.deleting

\* The loop of reconcileDelete works for a cluster that was seen being deleted, on
\* a StatefulSet that this cluster owned.
LoopInv ==
    /\ pc \in {"list", "sts", "label"} => mem.uid # 0 /\ mem.deleting
    /\ pc \in {"sts", "label"} => \A i \in todo : listed[i].uid # 0
    /\ pc = "label" => cur \in todo /\ listed[cur].owner = mem.uid

\* The copies of clusters and StatefulSets agree as the parts say.
IndInv == TypeOK /\ OwnerInv /\ DeletingInv /\ LoopInv

=============================================================================
