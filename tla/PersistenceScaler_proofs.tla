----------------------- MODULE PersistenceScaler_proofs -----------------------
(***************************************************************************)
(* Type correctness and CapacityNeverShrinks of PersistenceScaler, for any *)
(* number of nodes, any capacities and any number of edits, crashes and    *)
(* failures; and without crashes, failures and lag, that one StatefulSet   *)
(* is away at a time, that storage is kept and that success means expanded.*)
(***************************************************************************)
EXTENDS PersistenceScaler, FiniteSetTheorems, TLAPS

\* Writing one well-typed StatefulSet keeps both copies well typed.
LEMMA SetStsType ==
    ASSUME TypeOK, NEW i \in Node, NEW s \in StatefulSet, SetSts(i, s)
    PROVE  sts' \in [Node -> StatefulSet] /\ view' \in [Node -> StatefulSet]
  BY DEF TypeOK, SetSts

\* A failed API call leaves a well-typed budget.
LEMMA FailsType ==
    ASSUME TypeOK, Fails
    PROVE  budget' \in [edits : Nat, crashes : Nat, failures : Nat]
  BY DEF TypeOK, Fails

\* The ways out of Reconcile keep status, queue and specs well typed.
LEMMA LeaveType ==
    ASSUME TypeOK,
           Requeue \/ Error("FailedReconcilePVC") \/ Error("Error") \/ Success
    PROVE  /\ pc' = "idle"
           /\ status' \in [success : {"Initialising", "Success", "Error", "FailedReconcilePVC"},
                           obsGen : Nat]
           /\ queued' \in BOOLEAN
           /\ rmq' = rmq /\ mem' = mem
<1>1. CASE Requeue
  BY <1>1 DEF TypeOK, Requeue, Leave
<1>2. CASE Error("FailedReconcilePVC")
  BY <1>2 DEF TypeOK, Error, Leave
<1>3. CASE Error("Error")
  BY <1>3 DEF TypeOK, Error, Leave
<1>4. CASE Success
  BY <1>4 DEF TypeOK, Success, Leave, PersistenceSpec
<1> QED  BY <1>1, <1>2, <1>3, <1>4

\* The desired StatefulSet is a StatefulSet.
LEMMA WantStsType ==
    ASSUME TypeOK, NEW i \in Node
    PROVE  wantSts(i) \in StatefulSet
<1>1. view[i] \in StatefulSet /\ mem.storage \in Nat
  BY DEF TypeOK, PersistenceSpec
<1> DEFINE c == IF mem.storage = 0 THEN view[i].cap ELSE mem.storage
           r == IF mem.disable THEN 0 ELSE 1
<1>2. c \in Nat /\ r \in 0..1
  BY <1>1 DEF StatefulSet
<1>3. wantSts(i) = [view[i] EXCEPT !.ex = TRUE, !.cap = c, !.replicas = r]
  BY DEF wantSts
<1> HIDE DEF c, r
<1> QED  BY <1>1, <1>2, <1>3 DEF StatefulSet

\* Init establishes the inductive invariant.
LEMMA InitInd == Init => IndInv
<1> SUFFICES ASSUME Init PROVE IndInv  OBVIOUS
<1> USE ScalerAssumption DEF Init
<1>1. rmq \in PersistenceSpec /\ mem \in PersistenceSpec
  BY DEF PersistenceSpec
<1>2. sts \in [Node -> StatefulSet] /\ view \in [Node -> StatefulSet]
  BY DEF NoSts, StatefulSet
<1>3. idx \in 0..Replicas /\ pvc \in [Node -> Nat] /\ queued \in BOOLEAN
  OBVIOUS
<1>4. budget \in [edits : Nat, crashes : Nat, failures : Nat]
  OBVIOUS
<1> QED  BY <1>1, <1>2, <1>3, <1>4 DEF IndInv, TypeOK, GrowInv

\* One step: the invariant is kept and no claim gets smaller.
LEMMA NextInd ==
    ASSUME IndInv, [Next]_vars
    PROVE  IndInv' /\ \A i \in Node : pvc'[i] >= pvc[i]
<1> USE ScalerAssumption
<1>t. TypeOK /\ GrowInv  BY DEF IndInv
<1>n. Node \subseteq 0..Replicas /\ \A i \in Node : i + 1 \in 0..Replicas
  BY DEF Node
<1>p. pvc \in [Node -> Nat] /\ idx \in 0..Replicas  BY <1>t DEF TypeOK
<1>s. ASSUME NEW i \in Node  PROVE sts[i] \in StatefulSet
  BY <1>t DEF TypeOK
<1>idx. (pc = "scale" /\ idx < Replicas) \/ pc \in {"delete", "poll", "expand", "build"}
         => idx \in Node
  BY <1>t, <1>p DEF GrowInv, Node
\* Leaving Reconcile with the claims as they are.
<1>leave. ASSUME Requeue \/ Error("FailedReconcilePVC") \/ Error("Error") \/ Success,
                 idx' \in 0..Replicas, sts' \in [Node -> StatefulSet],
                 view' \in [Node -> StatefulSet], UNCHANGED pvc,
                 budget' \in [edits : Nat, crashes : Nat, failures : Nat]
          PROVE  IndInv' /\ \A i \in Node : pvc'[i] >= pvc[i]
  <2>1. TypeOK'  BY <1>leave, <1>t, <1>p, LeaveType DEF TypeOK
  <2>2. GrowInv'  BY <1>leave, <1>t, LeaveType DEF GrowInv
  <2> QED  BY <2>1, <2>2, <1>leave, <1>p DEF IndInv
<1>scalefails. ASSUME ScaleFails,
                      budget' \in [edits : Nat, crashes : Nat, failures : Nat]
               PROVE  IndInv' /\ \A i \in Node : pvc'[i] >= pvc[i]
  BY <1>scalefails, <1>leave, <1>t DEF ScaleFails, TypeOK
<1>1. CASE getRabbitmqCluster
  <2>1. TypeOK'  BY <1>1, <1>t DEF getRabbitmqCluster, TypeOK
  <2>2. GrowInv' /\ \A i \in Node : pvc'[i] >= pvc[i]
    BY <1>1, <1>t, <1>p DEF getRabbitmqCluster, GrowInv
  <2> QED  BY <2>1, <2>2 DEF IndInv
<1>2. CASE waitResourceReady
  <2>0. idx' \in 0..Replicas  BY <1>2 DEF waitResourceReady
  <2>1. CASE allReplicasReadyAndUpdated
    BY <1>2, <2>0, <2>1, <1>t, <1>p DEF waitResourceReady, Goto, IndInv, TypeOK, GrowInv
  <2>2. CASE ~allReplicasReadyAndUpdated
    BY <1>2, <2>0, <2>2, <1>t, <1>leave DEF waitResourceReady, TypeOK
  <2> QED  BY <2>1, <2>2
<1>3. CASE Scale
  <2>0. idx \in Node  BY <1>3, <1>idx DEF Scale
  <2>1. CASE Refused(idx)
    BY <1>3, <2>1, <1>t, <1>leave DEF Scale, TypeOK
  <2>2. CASE ~Refused(idx)
    <3>1. UNCHANGED <<rmq, status, mem, queued, idx, sts, view, pvc, budget>>
      BY <1>3, <2>2 DEF Scale, Goto
    <3>2. CASE pc' = "delete"
      <4>1. pvcsNeedingScaling(idx) # {}
        BY <1>3, <2>2, <3>2 DEF Scale, Goto
      <4>2. pvc[idx] # 0 /\ pvc[idx] < mem.storage
        BY <4>1 DEF pvcsNeedingScaling
      <4>3. pvc[idx] \in Nat  BY <2>0, <1>p
      <4> QED  BY <3>1, <3>2, <4>2, <4>3, <2>0, <1>t, <1>p DEF IndInv, TypeOK, GrowInv
    <3>3. CASE pc' = "build"
      BY <3>1, <3>3, <2>0, <1>t, <1>p DEF IndInv, TypeOK, GrowInv
    <3> QED  BY <1>3, <2>2, <3>2, <3>3 DEF Scale, Goto
  <2> QED  BY <2>1, <2>2
<1>4. CASE deleteStatefulset
  <2>0. pc = "delete" /\ idx \in Node  BY <1>4, <1>idx DEF deleteStatefulset
  <2>1. CASE /\ sts[idx].ex
             /\ SetSts(idx, [sts[idx] EXCEPT !.terminating = TRUE])
             /\ Goto("poll")
             /\ UNCHANGED <<idx, pvc, budget>>
    <3>1. [sts[idx] EXCEPT !.terminating = TRUE] \in StatefulSet
      BY <2>0, <1>s DEF StatefulSet
    <3>2. sts' \in [Node -> StatefulSet] /\ view' \in [Node -> StatefulSet]
      BY <2>0, <2>1, <3>1, <1>t, SetStsType
    <3> QED  BY <2>0, <2>1, <3>2, <1>t, <1>p DEF Goto, IndInv, TypeOK, GrowInv
  <2>2. CASE ScaleFails /\ UNCHANGED budget
    BY <2>2, <1>t, <1>scalefails DEF TypeOK
  <2>3. CASE Fails /\ ScaleFails
    BY <2>3, <1>t, <1>scalefails, FailsType
  <2> QED  BY <1>4, <2>1, <2>2, <2>3 DEF deleteStatefulset
<1>5. CASE retryWithInterval
  <2>1. CASE Goto("expand") /\ UNCHANGED <<idx, sts, view, pvc, budget>>
    BY <1>5, <2>1, <1>t, <1>p DEF retryWithInterval, Goto, IndInv, TypeOK, GrowInv
  <2>2. CASE Fails /\ ScaleFails
    BY <2>2, <1>t, <1>scalefails, FailsType
  <2> QED  BY <1>5, <2>1, <2>2 DEF retryWithInterval
<1>6. CASE scaleUpPVCs
  <2>0. pc = "expand" /\ idx \in Node  BY <1>6, <1>idx DEF scaleUpPVCs
  <2>1. CASE /\ pvc' = [pvc EXCEPT ![idx] = mem.storage]
             /\ Goto("build")
             /\ UNCHANGED <<idx, sts, view, budget>>
    <3>1. mem.storage \in Nat /\ pvc[idx] < mem.storage
      BY <2>0, <1>t DEF TypeOK, GrowInv, PersistenceSpec
    <3>2. \A i \in Node : pvc'[i] >= pvc[i]
      BY <2>1, <3>1, <1>p
    <3>3. TypeOK' /\ GrowInv'
      BY <2>0, <2>1, <3>1, <1>t, <1>p DEF Goto, TypeOK, GrowInv
    <3> QED  BY <3>2, <3>3 DEF IndInv
  <2>2. CASE Fails /\ ScaleFails
    BY <2>2, <1>t, <1>scalefails, FailsType
  <2> QED  BY <1>6, <2>1, <2>2 DEF scaleUpPVCs
<1>7. CASE CreateOrUpdate
  <2>0. pc = "build" /\ idx \in Node /\ UNCHANGED pvc
    BY <1>7, <1>idx DEF CreateOrUpdate
  <2>1. CASE /\ Goto("scale") /\ idx' = idx + 1
             /\ UNCHANGED <<sts, view, budget>>
    BY <2>0, <2>1, <1>t, <1>p, <1>n DEF Goto, IndInv, TypeOK, GrowInv
  <2>2. CASE SetSts(idx, wantSts(idx)) /\ Requeue /\ UNCHANGED <<idx, budget>>
    <3>1. sts' \in [Node -> StatefulSet] /\ view' \in [Node -> StatefulSet]
      BY <2>0, <2>2, <1>t, WantStsType, SetStsType
    <3> QED  BY <2>0, <2>2, <3>1, <1>t, <1>leave DEF TypeOK
  <2>3. CASE /\ UNCHANGED budget \/ Fails
             /\ Error("Error") /\ UNCHANGED <<idx, sts, view>>
    <3>1. budget' \in [edits : Nat, crashes : Nat, failures : Nat]
      BY <2>3, <1>t, FailsType DEF TypeOK
    <3> QED  BY <2>0, <2>3, <3>1, <1>t, <1>leave DEF TypeOK
  <2> QED  BY <1>7, <2>1, <2>2, <2>3 DEF CreateOrUpdate
<1>8. CASE reconcileSuccess
  BY <1>8, <1>t, <1>leave DEF reconcileSuccess, TypeOK
<1>9. CASE Crash
  BY <1>9, <1>t, <1>p DEF Crash, IndInv, TypeOK, GrowInv
<1>10. CASE UserEdits
  <2>1. rmq' \in PersistenceSpec
    BY <1>10, <1>t DEF UserEdits, PersistenceSpec, TypeOK
  <2>2. /\ UNCHANGED <<status, mem, pc, idx, sts, view, pvc>>
        /\ queued' = TRUE
        /\ budget.edits > 0 /\ budget' = [budget EXCEPT !.edits = @ - 1]
    BY <1>10 DEF UserEdits
  <2> QED  BY <2>1, <2>2, <1>t, <1>p DEF IndInv, TypeOK, GrowInv
<1>11. ASSUME NEW i \in Node, stsSync(i)
       PROVE  IndInv' /\ \A j \in Node : pvc'[j] >= pvc[j]
  BY <1>11, <1>t, <1>p, <1>s DEF stsSync, IndInv, TypeOK, GrowInv
<1>12. ASSUME NEW i \in Node, stsReady(i)
       PROVE  IndInv' /\ \A j \in Node : pvc'[j] >= pvc[j]
  <2>1. [sts[i] EXCEPT !.ready = sts[i].replicas] \in StatefulSet /\ sts[i].cap \in Nat
    BY <1>s DEF StatefulSet
  <2>2. sts' \in [Node -> StatefulSet] /\ view' \in [Node -> StatefulSet]
    BY <1>12, <2>1, <1>t, SetStsType DEF stsReady, ControllerStep
  <2>3. /\ pvc' \in [Node -> Nat]
        /\ \A j \in Node : pvc'[j] >= pvc[j]
        /\ \A j \in Node : pvc[j] > 0 => pvc'[j] = pvc[j]
    BY <1>12, <2>1, <1>p DEF stsReady
  <2>4. TypeOK'
    BY <1>12, <2>2, <2>3, <1>t DEF stsReady, ControllerStep, TypeOK
  <2>5. GrowInv'
    BY <1>12, <2>3, <1>t, <1>p DEF stsReady, ControllerStep, GrowInv
  <2> QED  BY <2>3, <2>4, <2>5 DEF IndInv
<1>13. ASSUME NEW i \in Node, stsGone(i)
       PROVE  IndInv' /\ \A j \in Node : pvc'[j] >= pvc[j]
  <2>1. NoSts \in StatefulSet  BY DEF NoSts, StatefulSet
  <2>2. sts' \in [Node -> StatefulSet] /\ view' \in [Node -> StatefulSet]
    BY <1>13, <2>1, <1>t, SetStsType DEF stsGone, ControllerStep
  <2> QED  BY <1>13, <2>2, <1>t, <1>p DEF stsGone, ControllerStep, IndInv, TypeOK, GrowInv
<1>14. CASE UNCHANGED vars
  BY <1>14, <1>t, <1>p DEF vars, IndInv, TypeOK, GrowInv
<1> QED
  BY <1>1, <1>2, <1>3, <1>4, <1>5, <1>6, <1>7, <1>8, <1>9, <1>10, <1>11, <1>12,
     <1>13, <1>14 DEF Next, OperatorStep, NodeStep

\* Every reachable state of the scaler is well typed: in particular its loop
\* never runs past the last node and no StatefulSet asks for a second pod.
THEOREM ScalerTypeCorrect == Spec => []TypeOK
<1>1. IndInv /\ [Next]_vars => IndInv'  BY NextInd
<1>2. IndInv => TypeOK  BY DEF IndInv
<1> QED  BY <1>1, <1>2, InitInd, PTL DEF Spec

\* No claim ever gets smaller, for any cluster size, any sequence of requests
\* and any crashes, failures and delays: scaleUpPVCs only runs for claims that
\* are still smaller than the capacity it writes.
THEOREM NeverShrinks == Spec => CapacityNeverShrinks
<1>1. IndInv /\ [Next]_vars => IndInv'  BY NextInd
<1>2. IndInv /\ [Next]_vars => [\A i \in Node : pvc'[i] >= pvc[i]]_vars
  BY NextInd
<1> QED  BY <1>1, <1>2, InitInd, PTL DEF Spec, CapacityNeverShrinks

-----------------------------------------------------------------------------
(***************************************************************************)
(* Growing without interruption: no crash, no failed call, and StatefulSets*)
(* read as they are.  With any of these a StatefulSet may stay away        *)
(* between reconciles, and the properties below do not hold.               *)
(***************************************************************************)
Uninterrupted == CacheLag = FALSE /\ MaxCrashes = 0 /\ MaxFailures = 0

\* A node that has a claim lacks its StatefulSet only while the running reconcile
\* is growing that claim; it is then going to create the StatefulSet with a claim
\* template that fits.
AwayInv ==
    /\ view = sts /\ budget.crashes = 0 /\ budget.failures = 0
    /\ \A i \in Node : pvc[i] > 0 /\ ~sts[i].ex =>
          i = idx /\ pc \in {"poll", "expand", "build"}
                  /\ mem.storage > 0 /\ (pc = "build" => pvc[i] >= mem.storage)
    /\ \A i \in Node : sts[i].terminating => i = idx /\ pc = "poll"
    /\ pc = "delete" => sts[idx].ex
    /\ pc = "expand" => ~sts[idx].ex
    /\ \A i \in Node : ~sts[i].ex => sts[i] = NoSts
    /\ StorageKept

\* Without disabled clusters: a claim is at least as large as the template it was
\* made from, the nodes the reconcile has passed have the requested template, and
\* the status claims success only for claims that are large enough.
ExpandedInv ==
    /\ ~rmq.disable /\ ~mem.disable
    /\ mem.gen <= rmq.gen /\ status.obsGen <= rmq.gen
    /\ mem.gen = rmq.gen => mem = rmq
    /\ \A i \in Node : sts[i].ex =>
          /\ sts[i].replicas = 1
          /\ pvc[i] = 0 \/ pvc[i] >= sts[i].cap
          /\ sts[i].ready = 1 => pvc[i] >= sts[i].cap
    /\ pc \in {"scale", "delete", "poll", "expand", "build"} /\ mem.storage > 0 =>
          \A i \in Node : i < idx => sts[i].ex /\ sts[i].cap = mem.storage
    /\ SuccessMeansExpanded

\* Without lag the informer's copy follows every change of a StatefulSet.
LEMMA SetStsUnlagged ==
    ASSUME Uninterrupted, AwayInv, NEW i \in Node, NEW s, SetSts(i, s)
    PROVE  view' = sts' /\ sts' = [sts EXCEPT ![i] = s]
  BY DEF Uninterrupted, AwayInv, SetSts

\* A reconcile that ends with the nodes as they are, and none of them away.
LEMMA LeaveAway ==
    ASSUME IndInv, AwayInv,
           Requeue \/ Error("FailedReconcilePVC") \/ Error("Error") \/ Success,
           UNCHANGED <<sts, view, pvc, budget>>,
           pc \notin {"poll", "expand"},
           pc = "build" => sts[idx].ex
    PROVE  AwayInv'
<1>1. pc' = "idle"
  BY DEF Requeue, Error, Success, Leave
<1>2. ASSUME NEW i \in Node PROVE (pvc[i] > 0 => sts[i].ex) /\ ~sts[i].terminating
  BY DEF AwayInv
<1> QED  BY <1>1, <1>2 DEF AwayInv, StorageKept

\* A StatefulSet that exists is written by CreateOrUpdate with the template it has.
LEMMA AcceptedKeepsCap ==
    ASSUME IndInv, AwayInv, NEW i \in Node, WriteAccepted(i), sts[i].ex
    PROVE  wantSts(i).cap = sts[i].cap /\ wantSts(i).ex
             /\ wantSts(i).terminating = sts[i].terminating
<1>1. view[i] = sts[i] /\ sts[i] \in StatefulSet
  BY DEF AwayInv, IndInv, TypeOK
<1> QED  BY <1>1 DEF WriteAccepted, wantSts, StatefulSet

\* A StatefulSet that does not exist is created with the requested capacity.
LEMMA CreatedCap ==
    ASSUME IndInv, AwayInv, NEW i \in Node, ~sts[i].ex
    PROVE  LET s == wantSts(i)
           IN  /\ s.ex /\ s.cap = mem.storage /\ s.ready = 0 /\ ~s.terminating
               /\ s.replicas = IF mem.disable THEN 0 ELSE 1
<1>1. view[i] = NoSts /\ mem.storage \in Nat /\ mem.disable \in BOOLEAN
  BY DEF AwayInv, IndInv, TypeOK, PersistenceSpec
<1> DEFINE c == IF mem.storage = 0 THEN view[i].cap ELSE mem.storage
           r == IF mem.disable THEN 0 ELSE 1
<1>2. c = mem.storage
  BY <1>1 DEF NoSts
<1>3. wantSts(i) = [view[i] EXCEPT !.ex = TRUE, !.cap = c, !.replicas = r]
  BY DEF wantSts
<1> HIDE DEF c
<1> QED  BY <1>1, <1>2, <1>3 DEF NoSts

\* Without interruption, a node is without its StatefulSet only while its claim grows.
LEMMA AwayStep ==
    ASSUME Uninterrupted, IndInv, AwayInv, [Next]_vars
    PROVE  AwayInv'
<1> USE ScalerAssumption
<1>t. TypeOK /\ GrowInv  BY DEF IndInv
<1>nf. ~Fails /\ ~Crash
  BY DEF AwayInv, Fails, Crash
<1>p. pvc \in [Node -> Nat] /\ idx \in 0..Replicas /\ sts \in [Node -> StatefulSet]
  BY <1>t DEF TypeOK
<1>idx. (pc = "scale" /\ idx < Replicas) \/ pc \in {"delete", "poll", "expand", "build"}
         => idx \in Node
  BY <1>t, <1>p DEF GrowInv, Node
<1>1. CASE getRabbitmqCluster
  BY <1>1 DEF getRabbitmqCluster, AwayInv, StorageKept
<1>2. CASE waitResourceReady
  <2>1. CASE allReplicasReadyAndUpdated
    BY <1>2, <2>1 DEF waitResourceReady, Goto, AwayInv, StorageKept
  <2>2. CASE ~allReplicasReadyAndUpdated
    BY <1>2, <2>2, LeaveAway DEF waitResourceReady
  <2> QED  BY <2>1, <2>2
<1>3. CASE Scale
  <2>0. idx \in Node /\ UNCHANGED <<idx, sts, view, pvc, budget>>  BY <1>3, <1>idx DEF Scale
  <2>1. CASE Refused(idx)
    BY <1>3, <2>1, LeaveAway DEF Scale
  <2>2. CASE ~Refused(idx)
    BY <1>3, <2>0, <2>2 DEF Scale, Goto, AwayInv, StorageKept
  <2> QED  BY <2>1, <2>2
<1>4. CASE deleteStatefulset
  <2>0. pc = "delete" /\ idx \in Node  BY <1>4, <1>idx DEF deleteStatefulset
  <2>1. /\ sts[idx].ex /\ Goto("poll") /\ UNCHANGED <<idx, pvc, budget>>
        /\ SetSts(idx, [sts[idx] EXCEPT !.terminating = TRUE])
    BY <1>4, <2>0, <1>nf DEF deleteStatefulset, AwayInv
  <2>2. view' = sts' /\ sts' = [sts EXCEPT ![idx] = [sts[idx] EXCEPT !.terminating = TRUE]]
    BY <2>0, <2>1, SetStsUnlagged
  <2>3. \A i \in Node : /\ sts'[i].ex = sts[i].ex /\ sts'[i].cap = sts[i].cap
                        /\ i # idx => sts'[i] = sts[i]
    BY <2>0, <2>2, <1>p DEF StatefulSet
  <2> QED  BY <2>0, <2>1, <2>2, <2>3 DEF Goto, AwayInv, StorageKept
<1>5. CASE retryWithInterval
  BY <1>5, <1>nf DEF retryWithInterval, Goto, AwayInv, StorageKept, NoSts
<1>6. CASE scaleUpPVCs
  <2>0. pc = "expand" /\ idx \in Node  BY <1>6, <1>idx DEF scaleUpPVCs
  <2>1. /\ pvc' = [pvc EXCEPT ![idx] = mem.storage] /\ Goto("build")
        /\ UNCHANGED <<idx, sts, view, budget>>
    BY <1>6, <1>nf DEF scaleUpPVCs
  <2>2. ~sts[idx].ex /\ mem.storage \in Nat /\ mem.storage > 0
    BY <2>0, <1>t DEF AwayInv, GrowInv, TypeOK, PersistenceSpec
  <2>3. \A i \in Node : pvc'[i] = IF i = idx THEN mem.storage ELSE pvc[i]
    BY <2>1, <1>p
  <2>4. ASSUME NEW i \in Node, sts[i].ex PROVE pvc'[i] = pvc[i]
    BY <2>2, <2>3, <2>4
  <2> QED  BY <2>0, <2>1, <2>2, <2>3, <2>4 DEF Goto, AwayInv, StorageKept
<1>7. CASE CreateOrUpdate
  <2>0. pc = "build" /\ idx \in Node /\ UNCHANGED pvc
    BY <1>7, <1>idx DEF CreateOrUpdate
  <2>1. CASE /\ view[idx] = wantSts(idx)
             /\ Goto("scale") /\ idx' = idx + 1
             /\ UNCHANGED <<sts, view, budget>>
    <3>1. sts[idx].ex
      BY <2>0, <2>1, CreatedCap DEF AwayInv, NoSts
    <3> QED  BY <2>0, <2>1, <3>1 DEF Goto, AwayInv, StorageKept
  <2>2. CASE /\ WriteAccepted(idx) /\ SetSts(idx, wantSts(idx))
             /\ Requeue /\ UNCHANGED <<idx, budget>>
    <3>1. view' = sts' /\ sts' = [sts EXCEPT ![idx] = wantSts(idx)]
      BY <2>0, <2>2, SetStsUnlagged
    <3>2. pc' = "idle" /\ mem' = mem
      BY <2>2 DEF Requeue, Leave
    <3>3. \A i \in Node : i # idx => sts'[i] = sts[i]
      BY <3>1, <1>p
    <3>4. sts'[idx] = wantSts(idx)
      BY <2>0, <3>1, <1>p
    <3>5. ~sts[idx].terminating
      BY <2>0 DEF AwayInv
    <3>6. wantSts(idx).ex /\ ~wantSts(idx).terminating
      BY <2>0, <2>2, <3>5, AcceptedKeepsCap, CreatedCap
    <3>7. pvc[idx] > 0 => wantSts(idx).cap > 0
      <4>1. CASE sts[idx].ex
        BY <2>0, <2>2, <4>1, AcceptedKeepsCap DEF AwayInv, StorageKept
      <4>2. CASE ~sts[idx].ex
        BY <2>0, <4>2, CreatedCap DEF AwayInv
      <4> QED  BY <4>1, <4>2
    <3> QED  BY <2>0, <2>2, <3>1, <3>2, <3>3, <3>4, <3>6, <3>7 DEF AwayInv, StorageKept
  <2>3. CASE /\ view[idx] # wantSts(idx) /\ ~WriteAccepted(idx)
             /\ Error("Error") /\ UNCHANGED <<idx, sts, view, budget>>
    <3>1. sts[idx].ex
      BY <2>0, <2>3 DEF WriteAccepted, AwayInv
    <3> QED  BY <2>0, <2>3, <3>1, LeaveAway
  <2> QED  BY <1>7, <1>nf, <2>1, <2>2, <2>3 DEF CreateOrUpdate
<1>8. CASE reconcileSuccess
  BY <1>8, LeaveAway DEF reconcileSuccess
<1>9. CASE UserEdits
  BY <1>9 DEF UserEdits, AwayInv, StorageKept
<1>10. ASSUME NEW i \in Node, stsSync(i)  PROVE AwayInv'
  BY <1>10 DEF stsSync, AwayInv
<1>11. ASSUME NEW i \in Node, stsReady(i)  PROVE AwayInv'
  <2>1. /\ sts[i].ex /\ UNCHANGED <<mem, pc, idx, budget>>
        /\ view' = sts' /\ sts' = [sts EXCEPT ![i] = [sts[i] EXCEPT !.ready = sts[i].replicas]]
    BY <1>11, SetStsUnlagged DEF stsReady, ControllerStep
  <2>2. \A j \in Node : /\ sts'[j].ex = sts[j].ex /\ sts'[j].cap = sts[j].cap
                        /\ sts'[j].terminating = sts[j].terminating
                        /\ ~sts[j].ex => sts'[j] = sts[j]
    BY <2>1, <1>p DEF StatefulSet
  <2>3. \A j \in Node : pvc'[j] = pvc[j] \/ (pvc'[j] = sts[j].cap /\ sts[j].ex)
    BY <1>11, <2>1, <1>p DEF stsReady
  <2> QED  BY <2>1, <2>2, <2>3 DEF AwayInv, StorageKept
<1>12. ASSUME NEW i \in Node, stsGone(i)  PROVE AwayInv'
  <2>1. /\ i = idx /\ pc = "poll" /\ UNCHANGED <<mem, pc, idx, budget, pvc>>
        /\ view' = sts' /\ sts' = [sts EXCEPT ![i] = NoSts]
    BY <1>12, SetStsUnlagged DEF stsGone, ControllerStep, AwayInv
  <2>2. \A j \in Node : sts'[j] = IF j = i THEN NoSts ELSE sts[j]
    BY <2>1, <1>p
  <2>3. mem.storage > 0
    BY <2>1, <1>t DEF GrowInv, TypeOK, PersistenceSpec
  <2> QED  BY <2>1, <2>2, <2>3 DEF AwayInv, StorageKept, NoSts
<1>13. CASE UNCHANGED vars
  BY <1>13 DEF vars, AwayInv, StorageKept
<1> QED
  BY <1>nf, <1>1, <1>2, <1>3, <1>4, <1>5, <1>6, <1>7, <1>8, <1>9, <1>10, <1>11, <1>12,
     <1>13 DEF Next, OperatorStep, NodeStep

\* Init establishes it.
LEMMA InitAway == Uninterrupted /\ Init => AwayInv
<1> SUFFICES ASSUME Uninterrupted, Init PROVE AwayInv  OBVIOUS
<1>1. \A i \in Node : sts[i] = NoSts /\ pvc[i] = 0
  BY DEF Init
<1> QED  BY <1>1 DEF Init, Uninterrupted, AwayInv, StorageKept, NoSts

\* While volumes grow without interruption, StatefulSets are taken away from one node
\* at a time, for any number of nodes and any sequence of requests.
THEOREM OneAway == ASSUME Uninterrupted PROVE Spec => []OneStsAtATime
<1>1. AwayInv => OneStsAtATime
  <2> SUFFICES ASSUME AwayInv PROVE OneStsAtATime  OBVIOUS
  <2> DEFINE Away == {i \in Node : pvc[i] > 0 /\ ~sts[i].ex}
  <2>1. Away \in SUBSET {idx}
    BY DEF AwayInv
  <2>2. Cardinality(Away) <= Cardinality({idx}) /\ Cardinality({idx}) = 1
    BY <2>1, FS_Subset, FS_Singleton
  <2>3. Cardinality(Away) \in Nat
    BY <2>1, FS_Subset, FS_Singleton, FS_CardinalityType
  <2> QED  BY <2>2, <2>3 DEF OneStsAtATime
<1>2. IndInv /\ [Next]_vars => IndInv'  BY NextInd
<1>3. IndInv /\ AwayInv /\ [Next]_vars => AwayInv'  BY AwayStep
<1> QED  BY <1>1, <1>2, <1>3, InitInd, InitAway, PTL DEF Spec

\* Without interruption no node that has a claim gets a StatefulSet without a claim
\* template, which would start its pod on empty storage.
THEOREM StorageStaysKept == ASSUME Uninterrupted PROVE Spec => []StorageKept
<1>1. AwayInv => StorageKept  BY DEF AwayInv
<1>2. IndInv /\ [Next]_vars => IndInv'  BY NextInd
<1>3. IndInv /\ AwayInv /\ [Next]_vars => AwayInv'  BY AwayStep
<1> QED  BY <1>1, <1>2, <1>3, InitInd, InitAway, PTL DEF Spec

-----------------------------------------------------------------------------
(***************************************************************************)
(* Success means that the claims have grown, if the cluster is never       *)
(* disabled: a disabled one needs no claims.                               *)
(***************************************************************************)
\* A claim that is not smaller than before is still large enough.
LEMMA StillExpanded ==
    ASSUME IndInv, SuccessMeansExpanded, [Next]_vars,
           UNCHANGED rmq,
           status' = status \/ status'.success # "Success"
    PROVE  SuccessMeansExpanded'
<1>1. pvc \in [Node -> Nat] /\ pvc' \in [Node -> Nat] /\ rmq.storage \in Nat
  BY NextInd DEF IndInv, TypeOK, PersistenceSpec
<1>2. \A i \in Node : pvc'[i] >= pvc[i]
  BY NextInd
<1>3. ASSUME Observed', NEW i \in Node PROVE pvc'[i] >= rmq'.storage
  <2>1. Observed  BY <1>3 DEF Observed
  <2>2. pvc[i] >= rmq.storage  BY <2>1 DEF SuccessMeansExpanded
  <2> QED  BY <2>2, <1>1, <1>2
<1> QED  BY <1>3 DEF SuccessMeansExpanded

\* A reconcile that ends without success.
LEMMA LeaveExpanded ==
    ASSUME IndInv, ExpandedInv, [Next]_vars,
           Requeue \/ Error("FailedReconcilePVC") \/ Error("Error"),
           UNCHANGED <<sts, pvc>>
    PROVE  ExpandedInv'
<1>1. /\ pc' = "idle" /\ UNCHANGED <<rmq, mem>>
      /\ status' = status \/ status'.success # "Success"
      /\ status'.obsGen = status.obsGen
  BY DEF Requeue, Error, Leave, IndInv, TypeOK
<1>2. SuccessMeansExpanded'
  BY <1>1, StillExpanded DEF ExpandedInv
<1> QED  BY <1>1, <1>2 DEF ExpandedInv

\* One step keeps the relation of claims, templates and status.
LEMMA ExpandedStep ==
    ASSUME Uninterrupted, "disable" \notin EditKinds,
           IndInv, AwayInv, ExpandedInv, [Next]_vars
    PROVE  ExpandedInv'
<1> USE ScalerAssumption
<1>t. TypeOK /\ GrowInv  BY DEF IndInv
<1>nf. ~Fails /\ ~Crash
  BY DEF AwayInv, Fails, Crash
<1>p. /\ pvc \in [Node -> Nat] /\ idx \in 0..Replicas /\ sts \in [Node -> StatefulSet]
      /\ mem.storage \in Nat /\ rmq.storage \in Nat /\ mem.gen \in Nat /\ rmq.gen \in Nat
      /\ status.obsGen \in Nat /\ Node \subseteq Int
      /\ \A i \in Node : sts[i].cap \in Nat
  <2>1. /\ pvc \in [Node -> Nat] /\ idx \in 0..Replicas /\ sts \in [Node -> StatefulSet]
        /\ Node \subseteq Int
    BY <1>t DEF TypeOK, Node
  <2>2. /\ mem.storage \in Nat /\ rmq.storage \in Nat /\ mem.gen \in Nat /\ rmq.gen \in Nat
        /\ status.obsGen \in Nat
    BY <1>t DEF TypeOK, PersistenceSpec
  <2>3. \A i \in Node : sts[i].cap \in Nat
    BY <2>1 DEF StatefulSet
  <2> QED  BY <2>1, <2>2, <2>3
<1>idx. (pc = "scale" /\ idx < Replicas) \/ pc \in {"delete", "poll", "expand", "build"}
         => idx \in Node
  BY <1>t, <1>p DEF GrowInv, Node
<1>still. UNCHANGED <<rmq, status>> => SuccessMeansExpanded'
  BY StillExpanded DEF ExpandedInv
<1>1. CASE getRabbitmqCluster
  BY <1>1, <1>p, <1>still DEF getRabbitmqCluster, ExpandedInv
<1>2. CASE waitResourceReady
  <2>1. CASE allReplicasReadyAndUpdated
    BY <1>2, <2>1, <1>p, <1>still DEF waitResourceReady, Goto, ExpandedInv, Node
  <2>2. CASE ~allReplicasReadyAndUpdated
    BY <1>2, <2>2, LeaveExpanded DEF waitResourceReady
  <2> QED  BY <2>1, <2>2
<1>3. CASE Scale
  <2>1. CASE Refused(idx)
    BY <1>3, <2>1, LeaveExpanded DEF Scale
  <2>2. CASE ~Refused(idx)
    BY <1>3, <2>2, <1>p, <1>still DEF Scale, Goto, ExpandedInv
  <2> QED  BY <2>1, <2>2
<1>4. CASE deleteStatefulset
  <2>0. pc = "delete" /\ idx \in Node  BY <1>4, <1>idx DEF deleteStatefulset
  <2>1. /\ sts[idx].ex /\ Goto("poll") /\ UNCHANGED <<idx, pvc, budget>>
        /\ SetSts(idx, [sts[idx] EXCEPT !.terminating = TRUE])
    BY <1>4, <2>0, <1>nf DEF deleteStatefulset, AwayInv
  <2>2. sts' = [sts EXCEPT ![idx] = [sts[idx] EXCEPT !.terminating = TRUE]]
    BY <2>0, <2>1, SetStsUnlagged
  <2>3. \A i \in Node : /\ sts'[i].ex = sts[i].ex /\ sts'[i].cap = sts[i].cap
                        /\ sts'[i].ready = sts[i].ready
                        /\ sts'[i].replicas = sts[i].replicas
    BY <2>0, <2>2, <1>p DEF StatefulSet
  <2> QED  BY <2>0, <2>1, <2>3, <1>still DEF Goto, ExpandedInv
<1>5. CASE retryWithInterval
  BY <1>5, <1>nf, <1>still DEF retryWithInterval, Goto, ExpandedInv
<1>6. CASE scaleUpPVCs
  <2>0. pc = "expand" /\ idx \in Node  BY <1>6, <1>idx DEF scaleUpPVCs
  <2>1. /\ pvc' = [pvc EXCEPT ![idx] = mem.storage] /\ Goto("build")
        /\ UNCHANGED <<idx, sts, view, budget>>
    BY <1>6, <1>nf DEF scaleUpPVCs
  <2>2. \A i \in Node : sts[i].ex => pvc'[i] = pvc[i]
    BY <2>0, <2>1, <1>p DEF AwayInv
  <2> QED  BY <2>0, <2>1, <2>2, <1>still DEF Goto, ExpandedInv
<1>7. CASE CreateOrUpdate
  <2>0. pc = "build" /\ idx \in Node /\ UNCHANGED pvc
    BY <1>7, <1>idx DEF CreateOrUpdate
  <2>1. CASE /\ view[idx] = wantSts(idx)
             /\ Goto("scale") /\ idx' = idx + 1
             /\ UNCHANGED <<sts, view, budget>>
    <3>1. sts[idx].ex /\ (mem.storage > 0 => sts[idx].cap = mem.storage)
      <4>1. sts[idx].ex
        BY <2>0, <2>1, CreatedCap DEF AwayInv, NoSts
      <4>2. mem.storage > 0 => wantSts(idx).cap = mem.storage
        BY <2>0, <1>p DEF wantSts, StatefulSet, AwayInv
      <4> QED  BY <2>1, <4>1, <4>2 DEF AwayInv
    <3>2. ASSUME NEW i \in Node, i < idx' PROVE i < idx \/ i = idx
      BY <3>2, <2>1, <1>p
    <3> QED  BY <2>0, <2>1, <3>1, <3>2, <1>still DEF Goto, ExpandedInv
  <2>2. CASE /\ WriteAccepted(idx) /\ SetSts(idx, wantSts(idx))
             /\ Requeue /\ UNCHANGED <<idx, budget>>
    <3>1. sts' = [sts EXCEPT ![idx] = wantSts(idx)]
      BY <2>0, <2>2, SetStsUnlagged
    <3>2. pc' = "idle" /\ UNCHANGED <<rmq, mem, status>>
      BY <2>2 DEF Requeue, Leave
    <3>3. \A i \in Node : sts'[i] = IF i = idx THEN wantSts(idx) ELSE sts[i]
      BY <2>0, <3>1, <1>p
    <3>4. /\ wantSts(idx).replicas = 1
          /\ pvc[idx] = 0 \/ pvc[idx] >= wantSts(idx).cap
          /\ wantSts(idx).ready = 1 => pvc[idx] >= wantSts(idx).cap
      <4>0. mem.disable = FALSE
        BY <1>t DEF ExpandedInv, TypeOK, PersistenceSpec
      <4>1. CASE sts[idx].ex
        <5>1. wantSts(idx).ready = sts[idx].ready /\ wantSts(idx).replicas = 1
          BY <2>0, <1>p, <4>0 DEF wantSts, StatefulSet, AwayInv
        <5>2. wantSts(idx).cap = sts[idx].cap
          BY <2>0, <2>2, <4>1, AcceptedKeepsCap
        <5> QED  BY <2>0, <4>1, <5>1, <5>2 DEF ExpandedInv
      <4>2. CASE ~sts[idx].ex
        <5>1. /\ wantSts(idx).ready = 0 /\ wantSts(idx).cap = mem.storage
              /\ wantSts(idx).replicas = 1
          BY <2>0, <4>0, <4>2, CreatedCap
        <5> QED  BY <2>0, <4>2, <5>1, <1>p DEF AwayInv
      <4> QED  BY <4>1, <4>2
    <3> QED  BY <2>0, <3>2, <3>3, <3>4, <1>still DEF ExpandedInv
  <2>3. CASE Error("Error") /\ UNCHANGED <<idx, sts, view, budget>>
    BY <2>0, <2>3, LeaveExpanded
  <2> QED  BY <1>7, <1>nf, <2>1, <2>2, <2>3 DEF CreateOrUpdate
<1>8. CASE reconcileSuccess
  <2>0. pc = "scale" /\ idx = Replicas /\ UNCHANGED <<idx, sts, view, pvc, budget>>
    BY <1>8 DEF reconcileSuccess
  <2>1. CASE Requeue
    BY <2>0, <2>1, LeaveExpanded
  <2>2. CASE Success /\ allReplicasReadyAndUpdated /\ \A i \in Node : view[i].ex
    <3>1. ASSUME NEW i \in Node PROVE pvc[i] >= mem.storage
      <4>1. CASE mem.storage = 0  BY <4>1, <1>p
      <4>2. CASE mem.storage > 0
        <5>1. sts[i].ex /\ sts[i].ready = 1
          BY <2>2 DEF allReplicasReadyAndUpdated, AwayInv, ExpandedInv
        <5>2. sts[i].cap = mem.storage
          BY <2>0, <4>2 DEF ExpandedInv, Node
        <5> QED  BY <5>1, <5>2 DEF ExpandedInv
      <4> QED  BY <4>1, <4>2, <1>p
    <3>2. /\ pc' = "idle" /\ UNCHANGED <<rmq, mem>>
          /\ mem.gen = rmq.gen => status'.obsGen = mem.gen
          /\ mem.gen # rmq.gen => status' = status
      BY <2>2 DEF Success, Leave
    <3>3. SuccessMeansExpanded'
      <4>1. CASE mem.gen = rmq.gen
        BY <2>0, <3>1, <3>2, <4>1 DEF ExpandedInv, SuccessMeansExpanded
      <4>2. CASE mem.gen # rmq.gen
        BY <2>0, <3>2, <4>2, <1>still
      <4> QED  BY <4>1, <4>2
    <3> QED  BY <2>0, <3>2, <3>3 DEF ExpandedInv
  <2> QED  BY <1>8, <2>1, <2>2 DEF reconcileSuccess
<1>9. CASE UserEdits
  <2>1. /\ rmq'.gen = rmq.gen + 1 /\ rmq'.disable = rmq.disable
        /\ UNCHANGED <<status, mem, pc, idx, sts, view, pvc>>
    BY <1>9 DEF UserEdits
  <2>2. ~Observed' /\ mem'.gen # rmq'.gen
    BY <2>1, <1>p DEF Observed, ExpandedInv
  <2> QED  BY <2>1, <2>2, <1>p DEF ExpandedInv, SuccessMeansExpanded
<1>10. ASSUME NEW i \in Node, stsSync(i)  PROVE ExpandedInv'
  BY <1>10 DEF stsSync, AwayInv
<1>11. ASSUME NEW i \in Node, stsReady(i)  PROVE ExpandedInv'
  <2>1. /\ sts[i].ex /\ UNCHANGED <<rmq, status, mem, pc, idx, budget>>
        /\ sts' = [sts EXCEPT ![i] = [sts[i] EXCEPT !.ready = sts[i].replicas]]
    BY <1>11, SetStsUnlagged DEF stsReady, ControllerStep
  <2>2. \A j \in Node : /\ sts'[j].ex = sts[j].ex /\ sts'[j].cap = sts[j].cap
                        /\ sts'[j].replicas = sts[j].replicas
                        /\ j # i => sts'[j] = sts[j] /\ pvc'[j] = pvc[j]
    BY <1>11, <2>1, <1>p DEF StatefulSet, stsReady
  <2>3. pvc'[i] >= sts[i].cap
    BY <1>11, <2>1, <1>p DEF stsReady, ExpandedInv
  <2> QED  BY <2>1, <2>2, <2>3, <1>still DEF ExpandedInv
<1>12. ASSUME NEW i \in Node, stsGone(i)  PROVE ExpandedInv'
  <2>1. /\ i = idx /\ pc = "poll" /\ UNCHANGED <<rmq, status, mem, pc, idx, budget, pvc>>
        /\ sts' = [sts EXCEPT ![i] = NoSts]
    BY <1>12, SetStsUnlagged DEF stsGone, ControllerStep, AwayInv
  <2>2. \A j \in Node : sts'[j] = IF j = i THEN NoSts ELSE sts[j]
    BY <2>1, <1>p
  <2> QED  BY <2>1, <2>2, <1>p, <1>still DEF ExpandedInv, NoSts
<1>13. CASE UNCHANGED vars
  BY <1>13, <1>still DEF vars, ExpandedInv
<1> QED
  BY <1>nf, <1>1, <1>2, <1>3, <1>4, <1>5, <1>6, <1>7, <1>8, <1>9, <1>10, <1>11, <1>12,
     <1>13 DEF Next, OperatorStep, NodeStep

\* Init establishes it.
LEMMA InitExpanded == Init => ExpandedInv
<1> SUFFICES ASSUME Init PROVE ExpandedInv  OBVIOUS
<1>1. \A i \in Node : ~sts[i].ex
  BY DEF Init, NoSts
<1> QED  BY <1>1 DEF Init, ExpandedInv, SuccessMeansExpanded, Observed

\* Without interruption, and for a cluster that is not disabled, success for the
\* current generation means that every claim has the capacity the user asked for.
THEOREM SuccessExpanded ==
    ASSUME Uninterrupted, "disable" \notin EditKinds
    PROVE  Spec => []SuccessMeansExpanded
<1>1. ExpandedInv => SuccessMeansExpanded  BY DEF ExpandedInv
<1>2. IndInv /\ [Next]_vars => IndInv'  BY NextInd
<1>3. IndInv /\ AwayInv /\ [Next]_vars => AwayInv'  BY AwayStep
<1>4. IndInv /\ AwayInv /\ ExpandedInv /\ [Next]_vars => ExpandedInv'  BY ExpandedStep
<1> QED  BY <1>1, <1>2, <1>3, <1>4, InitInd, InitAway, InitExpanded, PTL DEF Spec
=============================================================================
