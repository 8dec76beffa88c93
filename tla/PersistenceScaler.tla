-------------------------- MODULE PersistenceScaler --------------------------
(***************************************************************************)
(* How a reconcile applies spec.persistence.storage and spec.disable to    *)
(* the StatefulSets of the nodes: waitResourceReady, then for each node in *)
(* turn reconcilePVC (internal/scaling) and CreateOrUpdate of its          *)
(* StatefulSet.                                                            *)
(*                                                                         *)
(* A volume claim template cannot be changed in place, so growing a volume *)
(* deletes the StatefulSet (leaving pod and claim), grows the claim and    *)
(* lets CreateOrUpdate create the StatefulSet anew.  The scaler reads and  *)
(* writes the API server directly; everything else reads StatefulSets from *)
(* the informer's copy, which may be behind.                               *)
(***************************************************************************)
EXTENDS Integers, FiniteSets

CONSTANTS
    Replicas,     \* number of nodes of the cluster
    Capacities,   \* values of spec.persistence.storage; 0 is ephemeral
    EditKinds,    \* which fields the user edits: "storage", "disable"
    CacheLag,     \* may the informer's StatefulSets be behind?
    MaxEdits,     \* bound on user edits
    MaxCrashes,   \* bound on crashes of the operator
    MaxFailures   \* bound on failed API calls

ASSUME ScalerAssumption ==
    /\ Replicas \in Nat \ {0}
    /\ Capacities \subseteq Nat
    /\ CacheLag \in BOOLEAN
    /\ {MaxEdits, MaxCrashes, MaxFailures} \subseteq Nat

VARIABLES
    rmq,     \* the spec in the API server
    status,  \* its ReconcileSuccess condition and observedGeneration
    mem,     \* the spec the running reconcile works on
    pc,      \* its next step, "idle" between reconciles
    idx,     \* the node it has reached
    queued,  \* is the cluster in the work queue?
    sts,     \* the StatefulSet of each node
    view,    \* the informer's copy of it
    pvc,     \* capacity of each node's claim, 0 if there is none
    budget   \* what is left of the bounds

vars == <<rmq, status, mem, pc, idx, queued, sts, view, pvc, budget>>

Node == 0 .. Replicas - 1
PersistenceSpec == [gen : Nat, storage : Nat, disable : BOOLEAN]
\* cap is the capacity in the claim template, 0 without one.
StatefulSet == [ex : BOOLEAN, cap : Nat, replicas : 0..1, ready : 0..1,
                terminating : BOOLEAN]
NoSts == [ex |-> FALSE, cap |-> 0, replicas |-> 0, ready |-> 0,
          terminating |-> FALSE]

Init ==
    /\ \E c \in Capacities : rmq = [gen |-> 1, storage |-> c, disable |-> FALSE]
    /\ status = [success |-> "Initialising", obsGen |-> 0]
    /\ mem = rmq
    /\ pc = "idle" /\ idx = 0 /\ queued = TRUE
    /\ sts = [i \in Node |-> NoSts] /\ view = sts
    /\ pvc = [i \in Node |-> 0]
    /\ budget = [edits |-> MaxEdits, crashes |-> MaxCrashes,
                 failures |-> MaxFailures]

-----------------------------------------------------------------------------
(***************************************************************************)
(* The reconcile.                                                          *)
(***************************************************************************)
\* Without lag the informer sees a StatefulSet change at once.
SetSts(i, s) ==
    /\ sts' = [sts EXCEPT ![i] = s]
    /\ view' = IF CacheLag THEN view ELSE [view EXCEPT ![i] = s]

Fails ==
    /\ budget.failures > 0
    /\ budget' = [budget EXCEPT !.failures = @ - 1]

Goto(step) == pc' = step /\ UNCHANGED <<rmq, status, mem, queued>>

\* Leave Reconcile: to be called again, with the condition False for a reason,
\* or with everything done.  The status is written if the cluster has not
\* changed since mem was read; all but the last put it back into the queue.
Leave(st) ==
    /\ pc' = "idle"
    /\ status' = IF mem.gen = rmq.gen THEN st ELSE status
    /\ UNCHANGED <<rmq, mem>>

Requeue == Leave(status) /\ queued' = TRUE
Error(reason) == Leave([status EXCEPT !.success = reason]) /\ queued' = TRUE
Success == Leave([success |-> "Success", obsGen |-> mem.gen]) /\ UNCHANGED queued

allReplicasReadyAndUpdated ==
    \A i \in Node : view[i].ex => view[i].ready = view[i].replicas

getRabbitmqCluster ==
    /\ pc = "idle" /\ queued
    /\ pc' = "wait" /\ queued' = FALSE
    /\ mem' = rmq
    /\ UNCHANGED <<rmq, status, idx, sts, view, pvc, budget>>

waitResourceReady ==
    /\ pc = "wait"
    /\ idx' = 0
    /\ IF allReplicasReadyAndUpdated THEN Goto("scale") ELSE Requeue
    /\ UNCHANGED <<sts, view, pvc, budget>>

\* Variant: the claim is scaled whenever it differs.
pvcsNeedingScaling_differs(i) ==
    {p \in {pvc[i] : r \in 1..sts[i].replicas} : p # 0 /\ p # mem.storage}

\* The claims getPVCs finds (one per replica of the StatefulSet) that are
\* smaller than the desired capacity.
pvcsNeedingScaling(i) ==
    {p \in {pvc[i] : r \in 1..sts[i].replicas} : p # 0 /\ p < mem.storage}

\* Variant: a smaller request is not refused.
Refused_shrink(i) == sts[i].ex /\ sts[i].cap = 0 /\ mem.storage > 0

\* Shrinking, and changing from ephemeral to persistent, are refused.
Refused(i) ==
    /\ sts[i].ex
    /\ sts[i].cap > mem.storage \/ (sts[i].cap = 0 /\ mem.storage > 0)

Scale ==
    /\ pc = "scale" /\ idx < Replicas
    /\ IF Refused(idx) THEN Error("FailedReconcilePVC")
       ELSE Goto(IF /\ sts[idx].ex
                    /\ sts[idx].cap # mem.storage
                    /\ pvcsNeedingScaling(idx) # {}
                 THEN "delete" ELSE "build")
    /\ UNCHANGED <<idx, sts, view, pvc, budget>>

\* A failed step of Scale.
ScaleFails == Error("FailedReconcilePVC") /\ UNCHANGED <<idx, sts, view, pvc>>

\* Delete with propagation policy Orphan, then poll until it is gone.
deleteStatefulset ==
    /\ pc = "delete"
    /\ \/ /\ sts[idx].ex
          /\ SetSts(idx, [sts[idx] EXCEPT !.terminating = TRUE])
          /\ Goto("poll")
          /\ UNCHANGED <<idx, pvc, budget>>
       \/ ~sts[idx].ex /\ ScaleFails /\ UNCHANGED budget
       \/ Fails /\ ScaleFails

\* Variant: does not wait for the StatefulSet to be gone.
retryWithInterval_once ==
    /\ pc = "poll"
    /\ Goto("expand") /\ UNCHANGED <<idx, sts, view, pvc, budget>>

\* Giving up after 10 polls counts as a failure.
retryWithInterval ==
    /\ pc = "poll"
    /\ \/ ~sts[idx].ex /\ Goto("expand") /\ UNCHANGED <<idx, sts, view, pvc, budget>>
       \/ sts[idx].ex /\ Fails /\ ScaleFails

\* Variant: the claim is left alone.
scaleUpPVCs_skips ==
    /\ pc = "expand"
    /\ Goto("build") /\ UNCHANGED <<idx, sts, view, pvc, budget>>

scaleUpPVCs ==
    /\ pc = "expand"
    /\ \/ /\ pvc' = [pvc EXCEPT ![idx] = mem.storage]
          /\ Goto("build")
          /\ UNCHANGED <<idx, sts, view, budget>>
       \/ Fails /\ ScaleFails

\* Variant: one StatefulSet runs all the nodes.
wantSts_all(i) ==
    [view[i] EXCEPT !.ex = TRUE,
                    !.cap = IF mem.storage = 0 THEN view[i].cap ELSE mem.storage,
                    !.replicas = IF mem.disable THEN 0 ELSE Replicas]

\* What Build makes of no StatefulSet and Update of the informer's copy: with
\* storage 0 the claim templates it has are kept.
wantSts(i) ==
    [view[i] EXCEPT !.ex = TRUE,
                    !.cap = IF mem.storage = 0 THEN view[i].cap ELSE mem.storage,
                    !.replicas = IF mem.disable THEN 0 ELSE 1]

\* Create or Update.  The API server refuses an update of a copy that is not
\* the current one, and any change of the claim templates.
WriteAccepted(i) ==
    IF view[i].ex THEN view[i] = sts[i] /\ wantSts(i).cap = sts[i].cap
    ELSE ~sts[i].ex

CreateOrUpdate ==
    /\ pc = "build"
    /\ UNCHANGED pvc
    /\ \/ /\ view[idx] = wantSts(idx)
          /\ Goto("scale") /\ idx' = idx + 1
          /\ UNCHANGED <<sts, view, budget>>
       \/ /\ view[idx] # wantSts(idx) /\ WriteAccepted(idx)
          /\ SetSts(idx, wantSts(idx))
          /\ Requeue
          /\ UNCHANGED <<idx, budget>>
       \/ /\ view[idx] # wantSts(idx)
          /\ (~WriteAccepted(idx) /\ UNCHANGED budget) \/ Fails
          /\ Error("Error")
          /\ UNCHANGED <<idx, sts, view>>

\* Every StatefulSet is as desired.  reconcileRabbitmqCLI still waits until
\* all of them exist and are ready.
reconcileSuccess ==
    /\ pc = "scale" /\ idx = Replicas
    /\ IF allReplicasReadyAndUpdated /\ \A i \in Node : view[i].ex
       THEN Success ELSE Requeue
    /\ UNCHANGED <<idx, sts, view, pvc, budget>>

OperatorStep ==
    \/ getRabbitmqCluster \/ waitResourceReady \/ Scale \/ deleteStatefulset
    \/ retryWithInterval \/ scaleUpPVCs \/ CreateOrUpdate \/ reconcileSuccess

Crash ==
    /\ pc # "idle" /\ budget.crashes > 0
    /\ budget' = [budget EXCEPT !.crashes = @ - 1]
    /\ pc' = "idle" /\ queued' = TRUE /\ view' = sts
    /\ UNCHANGED <<rmq, status, mem, idx, sts, pvc>>

-----------------------------------------------------------------------------
(***************************************************************************)
(* The environment.                                                        *)
(***************************************************************************)
UserEdits ==
    \E spec \in
        [gen     : {rmq.gen + 1},
         storage : IF "storage" \in EditKinds THEN Capacities ELSE {rmq.storage},
         disable : IF "disable" \in EditKinds THEN BOOLEAN ELSE {rmq.disable}] :
        /\ budget.edits > 0
        /\ <<spec.storage, spec.disable>> # <<rmq.storage, rmq.disable>>
        /\ budget' = [budget EXCEPT !.edits = @ - 1]
        /\ rmq' = spec
        /\ queued' = TRUE
        /\ UNCHANGED <<status, mem, pc, idx, sts, view, pvc>>

\* The informer sees the current StatefulSet; a change queues its owner.
stsSync(i) ==
    /\ view[i] # sts[i]
    /\ view' = [view EXCEPT ![i] = sts[i]]
    /\ queued' = TRUE
    /\ UNCHANGED <<rmq, status, mem, pc, idx, sts, pvc, budget>>

ControllerStep(i, s) ==
    /\ SetSts(i, s)
    /\ queued' = TRUE
    /\ UNCHANGED <<rmq, status, mem, pc, idx, budget>>

\* The StatefulSet controller starts or stops the pod (or adopts the one that
\* is running) and creates a claim that does not exist.
stsReady(i) ==
    /\ sts[i].ex /\ ~sts[i].terminating
    /\ sts[i].ready # sts[i].replicas
    /\ pvc' = IF sts[i].replicas = 1 /\ pvc[i] = 0
              THEN [pvc EXCEPT ![i] = sts[i].cap] ELSE pvc
    /\ ControllerStep(i, [sts[i] EXCEPT !.ready = sts[i].replicas])

\* The garbage collector has orphaned the pod; the StatefulSet goes.
stsGone(i) ==
    /\ sts[i].terminating
    /\ ControllerStep(i, NoSts)
    /\ UNCHANGED pvc

NodeStep(i) == stsSync(i) \/ stsReady(i) \/ stsGone(i)

Next == OperatorStep \/ Crash \/ UserEdits \/ \E i \in Node : NodeStep(i)

Spec == Init /\ [][Next]_vars

\* The operator keeps running, and so do informer and Kubernetes controllers.
FairSpec ==
    /\ Spec
    /\ WF_vars(OperatorStep)
    /\ \A i \in Node : WF_vars(stsSync(i)) /\ WF_vars(stsReady(i)) /\ WF_vars(stsGone(i))

-----------------------------------------------------------------------------
(***************************************************************************)
(* Properties.                                                             *)
(***************************************************************************)
\* Every variable keeps the type of the object it stands for; the loop over the
\* nodes ends after the last one and each StatefulSet runs at most one pod.
TypeOK ==
    /\ rmq \in PersistenceSpec /\ mem \in PersistenceSpec
    /\ status \in [success : {"Initialising", "Success", "Error", "FailedReconcilePVC"},
                   obsGen : Nat]
    /\ pc \in {"idle", "wait", "scale", "delete", "poll", "expand", "build"}
    /\ idx \in 0..Replicas
    /\ queued \in BOOLEAN
    /\ sts \in [Node -> StatefulSet] /\ view \in [Node -> StatefulSet]
    /\ pvc \in [Node -> Nat]
    /\ budget \in [edits : Nat, crashes : Nat, failures : Nat]

Observed == status.success = "Success" /\ status.obsGen = rmq.gen

\* A claim is never made smaller, whatever the user asks for and wherever the
\* operator is interrupted: data could not follow.
CapacityNeverShrinks == [][\A i \in Node : pvc'[i] >= pvc[i]]_vars

\* Success for the current generation means that the claims have the size the
\* user asked for, not only the templates the operator compares with.
SuccessMeansExpanded == Observed => \A i \in Node : pvc[i] >= rmq.storage

\* Growing the volumes takes the StatefulSet away from one node at a time.
OneStsAtATime == Cardinality({i \in Node : pvc[i] > 0 /\ ~sts[i].ex}) <= 1

\* A node that has a claim is never left with a StatefulSet that would start
\* its pod on ephemeral storage.
StorageKept == \A i \in Node : sts[i].ex /\ pvc[i] > 0 => sts[i].cap > 0

\* The operator asks for a changed claim template only by a new StatefulSet.
TemplateNeverUpdated ==
    pc = "build" /\ sts[idx].ex /\ view[idx] = sts[idx] => wantSts(idx).cap = sts[idx].cap

Applied == /\ Observed
           /\ \A i \in Node : /\ sts[i].ex /\ ~sts[i].terminating
                              /\ sts[i].cap = rmq.storage /\ pvc[i] = rmq.storage

\* The request cannot be met and the status says so; nothing is half deleted.
RefusalReported == /\ status.success = "FailedReconcilePVC"
                   /\ \E i \in Node : /\ sts[i].ex
                                      /\ sts[i].cap > rmq.storage \/ sts[i].cap = 0
                   /\ \A i \in Node : pvc[i] > 0 => sts[i].ex

\* Every request is eventually met on every node, or refused with the nodes in
\* working order.
EventuallySettled == <>[](Applied \/ RefusalReported)

-----------------------------------------------------------------------------
(***************************************************************************)
(* What makes CapacityNeverShrinks inductive: from the decision to grow a  *)
(* claim to its update, the claim exists and is smaller than the capacity  *)
(* the reconcile is going to write.                                        *)
(***************************************************************************)
GrowInv ==
    /\ pc = "build" => idx \in Node
    /\ pc \in {"delete", "poll", "expand"} =>
         idx \in Node /\ 0 < pvc[idx] /\ pvc[idx] < mem.storage

\* The types, and what a reconcile knows of the claim it is going to grow.
IndInv == TypeOK /\ GrowInv
=============================================================================
