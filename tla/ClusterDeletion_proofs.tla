----------------------- MODULE ClusterDeletion_proofs -----------------------
(***************************************************************************)
(* The operator deletes no StatefulSet of a live cluster, and none before  *)
(* the pod of it that it found is labelled: proofs for any number of nodes,*)
(* of clusters created under the name and of faults, and for any lag of    *)
(* the informers.                                                          *)
(***************************************************************************)
EXTENDS ClusterDeletion, TLAPS

\* The values that stand for nothing have the types of what they stand for.
LEMMA BlankTypes ==
    /\ NoCluster \in Cluster /\ NoSts \in StatefulSet /\ NoPod \in Pod
    /\ NoStatefulSets \in [Node -> StatefulSet]
    /\ InitialPods \in [PodName -> Pod]
    /\ 0 \in Node
<1> USE DeletionAssumption
<1>1. 0 \in Uid /\ 1 \in Uid /\ 0 \in 0..MaxClusters /\ 0 \in 0..MaxFaults /\ 0 \in Node
  BY DEF Uid, Node
<1>2. NoCluster \in Cluster
  BY <1>1 DEF NoCluster, Cluster
<1>3. NoSts \in StatefulSet
  BY <1>1 DEF NoSts, StatefulSet
<1>4. NoPod \in Pod /\ [NoPod EXCEPT !.of = 1] \in Pod
  BY <1>1 DEF NoPod, Pod
<1>5. QED
  BY <1>1, <1>2, <1>3, <1>4 DEF NoStatefulSets, InitialPods

\* The initial states satisfy the invariant.
LEMMA InitInv == Init => IndInv
<1> SUFFICES ASSUME Init PROVE IndInv
  OBVIOUS
<1>1. TypeOK
  <2>1. rmq \in Cluster
    <3>1. 1 \in 0..MaxClusters
      BY DeletionAssumption
    <3>2. QED
      BY <3>1, BlankTypes DEF Init, Cluster, NoCluster
  <2>2. tries \in 0 .. MaxTries - 1 /\ faults \in 0..MaxFaults
    BY DeletionAssumption DEF Init
  <2>3. QED
    BY <2>1, <2>2, BlankTypes DEF Init, TypeOK
<1>2. OwnerInv /\ DeletingInv /\ LoopInv
  BY BlankTypes DEF Init, OwnerInv, StsCopies, DeletingInv, LoopInv, NoCluster, NoStatefulSets, NoSts
<1>3. QED
  BY <1>1, <1>2 DEF IndInv

\* What a reconcile holds is gone when it ends.
LEMMA RequeueInv ==
    ASSUME Requeue
    PROVE  /\ pc' = "idle" /\ queued' = TRUE /\ mem' = NoCluster
           /\ listed' = NoStatefulSets /\ todo' = {} /\ cur' = 0 /\ tries' = 0
           /\ pods' = InitialPods /\ toMark' = {}
BY DEF Requeue

-----------------------------------------------------------------------------
\* A write of the cluster, accepted or not, keeps the types.
LEMMA UpdateType ==
    ASSUME TypeOK, NEW new \in Cluster, UpdateCluster(new) PROVE TypeOK'
<1>1. rmq' \in Cluster /\ faults' \in 0..MaxFaults
  BY DeletionAssumption DEF TypeOK, UpdateCluster, Fault
<1>2. QED
  BY <1>1, BlankTypes, DeletionAssumption DEF TypeOK, UpdateCluster, Requeue, copies

\* Every step keeps the types.
LEMMA TypeStep == TypeOK /\ [Next]_vars => TypeOK'
<1> SUFFICES ASSUME TypeOK, [Next]_vars PROVE TypeOK'
  OBVIOUS
<1> USE BlankTypes DEF TypeOK
<1>1. CASE getRabbitmqCluster
  BY <1>1 DEF getRabbitmqCluster, objects, copies
<1>2. CASE addFinalizer
  <2>1. [mem EXCEPT !.fin = TRUE] \in Cluster
    BY DEF Cluster
  <2>2. QED
    BY <1>2, <2>1, UpdateType DEF addFinalizer
<1>3. CASE statefulSets
  BY <1>3, DeletionAssumption DEF statefulSets, objects, copies
<1>4. CASE \E i \in Node : listPods(i)
  BY <1>4, DeletionAssumption DEF listPods, NextSts, objects, copies
<1>5. CASE \E p \in PodName : addRabbitmqDeletionLabel(p)
  <2>1. PICK p \in PodName : addRabbitmqDeletionLabel(p)
    BY <1>5
  <2>2. [pod EXCEPT ![p].marked = (pod[p].of # 0)] \in [PodName -> Pod]
    <3>1. \A b \in BOOLEAN : [pod EXCEPT ![p].marked = b] \in [PodName -> Pod]
      BY DEF Pod
    <3>2. (pod[p].of # 0) \in BOOLEAN
      OBVIOUS
    <3>3. QED
      BY <3>1, <3>2, Zenon
  <2>3. QED
    BY <2>1, <2>2, DeletionAssumption
       DEF addRabbitmqDeletionLabel, PodsBecome, Conflict, NextSts, Fault
<1>6. CASE deleteStatefulSet
  <2>1. /\ sts' \in [Node -> StatefulSet] /\ stsView' \in [Node -> StatefulSet]
        /\ faults' \in 0..MaxFaults /\ queued' \in BOOLEAN /\ view' = view
    <3>1. faults' \in 0..MaxFaults
      BY <1>6, DeletionAssumption DEF deleteStatefulSet, Fault
    <3>2. StsBecomes([sts EXCEPT ![cur] = NoSts]) \/ UNCHANGED <<sts, view, stsView, queued>>
      BY <1>6 DEF deleteStatefulSet
    <3>3. [sts EXCEPT ![cur] = NoSts] \in [Node -> StatefulSet]
      OBVIOUS
    <3>4. QED
      BY <3>1, <3>2, <3>3 DEF StsBecomes
  <2>2. Conflict(cur) \/ NextSts(cur)
    BY <1>6 DEF deleteStatefulSet
  <2>3. /\ pc' = "sts" /\ todo' \subseteq Node /\ tries' \in 0 .. MaxTries - 1
        /\ cur' \in Node /\ pods' \in [PodName -> Pod] /\ toMark' \subseteq PodName
        /\ mem' = mem /\ listed' = listed
    BY <2>2, DeletionAssumption DEF Conflict, NextSts
  <2>4. rmq' = rmq /\ pod' = pod /\ podView' = podView /\ past' = past
    BY <1>6 DEF deleteStatefulSet
  <2>5. QED
    BY <2>1, <2>3, <2>4
<1>7. CASE removeFinalizer
  <2>1. Released(mem) \in Cluster
    BY DEF Released, Cluster
  <2>2. QED
    <3>1. CASE UpdateCluster(Released(mem))
      BY <2>1, <3>1, UpdateType
    <3>2. CASE ~UpdateCluster(Released(mem))
      BY <1>7, <3>2 DEF removeFinalizer, objects, copies
    <3>3. QED
      BY <3>1, <3>2
<1>8. CASE reconcileResources
  <2>1. ASSUME NEW i \in Node, createStatefulSet(i)
        PROVE  /\ sts' \in [Node -> StatefulSet] /\ stsView' \in [Node -> StatefulSet]
               /\ faults' \in 0..MaxFaults
    <3>1. CASE ~(Uid \ {0} \subseteq InUse(i))
      <4>1. FreshUid(i) \in Uid
        BY <3>1 DEF FreshUid
      <4>2. [uid |-> FreshUid(i), owner |-> mem.uid] \in StatefulSet
        BY <4>1 DEF StatefulSet, Cluster
      <4>3. QED
        BY <2>1, <4>2, DeletionAssumption DEF createStatefulSet, StsBecomes, Fault
    <3>2. CASE Uid \ {0} \subseteq InUse(i)
      BY <2>1, <3>2, DeletionAssumption DEF createStatefulSet, StsBecomes, Fault
    <3>3. QED
      BY <3>1, <3>2
  <2>2. /\ sts' \in [Node -> StatefulSet] /\ stsView' \in [Node -> StatefulSet]
        /\ faults' \in 0..MaxFaults
    BY <1>8, <2>1 DEF reconcileResources, Missing
  <2>3. /\ queued' \in BOOLEAN /\ pc' = "idle" /\ mem' \in Cluster
        /\ listed' \in [Node -> StatefulSet] /\ pods' \in [PodName -> Pod]
        /\ todo' \subseteq Node /\ cur' \in Node /\ tries' \in 0 .. MaxTries - 1
        /\ toMark' \subseteq PodName
    <3>1. CASE Requeue
      <4>1. 0 \in 0 .. MaxTries - 1
        BY DeletionAssumption
      <4>2. QED
        BY <3>1, <4>1, RequeueInv
    <3>2. CASE ~Requeue
      BY <1>8, <3>2 DEF reconcileResources
    <3>3. QED
      BY <3>1, <3>2
  <2>4. view' = view
    BY <1>8 DEF reconcileResources, createStatefulSet, StsBecomes
  <2>5. QED
    BY <1>8, <2>2, <2>3, <2>4 DEF reconcileResources
<1>9. CASE UserCreates
  <2>1. PICK u \in 1..MaxClusters : rmq' = [NoCluster EXCEPT !.uid = u]
    BY <1>9 DEF UserCreates
  <2>2. rmq' \in Cluster
    <3>1. u \in 0..MaxClusters
      BY DeletionAssumption
    <3>2. QED
      BY <2>1, <3>1 DEF NoCluster, Cluster
  <2>3. QED
    <3>1. /\ UNCHANGED <<view, stsView, podView, past, mem, listed, todo, cur, tries, pods,
                        toMark>>
          /\ UNCHANGED <<sts, pod, queued, faults, pc>>
      BY <1>9 DEF UserCreates, NoOperatorStep, loopVars, copies
    <3>2. QED
      BY <2>2, <3>1
<1>10. CASE UserDeletes
  <2>1. ASSUME NEW held \in OtherFinalizers
        PROVE  LET c == [rmq EXCEPT !.deleting = TRUE, !.held = held] IN
               c \in Cluster /\ Released(c) \in Cluster
    BY DeletionAssumption DEF Released, Cluster
  <2>2. PICK held \in OtherFinalizers :
          LET c == [rmq EXCEPT !.deleting = TRUE, !.held = held] IN
          /\ rmq' = IF c.fin THEN c ELSE Released(c)
          /\ past' = [rmq |-> IF rmq'.uid = 0 THEN rmq ELSE c, sts |-> sts, pod |-> pod]
    BY <1>10 DEF UserDeletes
  <2>3. rmq' \in Cluster
    BY <2>1, <2>2
  <2>4. past' \in [rmq : Cluster, sts : [Node -> StatefulSet], pod : [PodName -> Pod]]
    BY <2>1, <2>2
  <2>5. QED
    BY <1>10, <2>3, <2>4 DEF UserDeletes, NoOperatorStep, loopVars
<1>11. CASE otherFinalizersDone
  BY <1>11 DEF otherFinalizersDone, NoOperatorStep, loopVars, copies
<1>12. CASE Sync
  BY <1>12 DEF Sync, rmqSync, stsSync, podSync, NoOperatorStep, loopVars, objects
<1>13. CASE \E i \in Node : collect(i)
  BY <1>13 DEF collect, StsBecomes, NoOperatorStep, loopVars
<1>14. CASE \E i \in Node : podStart(i)
  <2>1. PICK i \in Node : podStart(i)
    BY <1>14
  <2>2. [of |-> sts[i].uid, rev |-> faults, marked |-> FALSE] \in Pod
    BY DEF Pod, StatefulSet
  <2>3. QED
    BY <2>1, <2>2 DEF podStart, PodsBecome, NoOperatorStep, loopVars
<1>15. CASE \E i \in Node : podEnd(i) \/ podFail(i)
  <2>1. PICK i \in Node : podEnd(i) \/ podFail(i)
    BY <1>15
  <2>2. faults' \in 0..MaxFaults
    BY <2>1, DeletionAssumption DEF podEnd, podFail, Fault
  <2>3. pod' \in [PodName -> Pod] /\ podView' \in [PodName -> Pod]
    BY <2>1 DEF podEnd, podFail, PodsBecome
  <2>4. QED
    BY <2>1, <2>2, <2>3 DEF podEnd, podFail, NoOperatorStep, loopVars
<1>16. CASE Crash
  BY <1>16, DeletionAssumption DEF Crash, Fault, Requeue, objects
<1>17. CASE UNCHANGED vars
  BY <1>17 DEF vars, objects, copies, loopVars
<1>18. QED
  BY <1>1, <1>2, <1>3, <1>4, <1>5, <1>6, <1>7, <1>8, <1>9, <1>10, <1>11, <1>12, <1>13,
     <1>14, <1>15, <1>16, <1>17
     DEF Next, OperatorStep, NodeStep

-----------------------------------------------------------------------------
(***************************************************************************)
(* Copies of StatefulSets.                                                 *)
(***************************************************************************)
\* A write of the cluster leaves no copy of a StatefulSet that was not there.
LEMMA UpdateCopies ==
    ASSUME NEW new, UpdateCluster(new), NEW i \in Node
    PROVE  StsCopies(i)' \subseteq StsCopies(i)
<1>1. UNCHANGED <<sts, stsView, past>> /\ listed'[i] = NoSts
  BY DEF UpdateCluster, Requeue, copies, NoStatefulSets
<1>2. QED
  BY <1>1 DEF StsCopies

\* The loop body's end keeps the lists.
LEMMA LoopEnd ==
    ASSUME NEW i, NextSts(i) \/ Conflict(i)
    PROVE  pc' = "sts" /\ todo' \subseteq todo /\ listed' = listed /\ mem' = mem
BY DEF NextSts, Conflict

\* Only reconcileResources makes a StatefulSet; the other steps copy or drop some.
LEMMA NoNewCopies ==
    ASSUME TypeOK, [Next]_vars, ~reconcileResources, NEW i \in Node
    PROVE  StsCopies(i)' \subseteq StsCopies(i)
<1> USE DEF StsCopies
<1>1. CASE getRabbitmqCluster
  BY <1>1 DEF getRabbitmqCluster, objects, copies
<1>2. CASE addFinalizer \/ removeFinalizer
  <2>1. CASE \E new : UpdateCluster(new)
    BY <2>1, UpdateCopies
  <2>2. CASE ~\E new : UpdateCluster(new)
    BY <1>2, <2>2 DEF addFinalizer, removeFinalizer, objects, copies, NoStatefulSets
  <2>3. QED
    BY <2>1, <2>2
<1>3. CASE statefulSets
  BY <1>3 DEF statefulSets, objects, copies
<1>4. CASE \E j \in Node : listPods(j)
  BY <1>4 DEF listPods, NextSts, objects, copies
<1>5. CASE \E p \in PodName : addRabbitmqDeletionLabel(p)
  BY <1>5, LoopEnd DEF addRabbitmqDeletionLabel
<1>6. CASE deleteStatefulSet
  <2>1. listed' = listed /\ past' = past
    BY <1>6, LoopEnd DEF deleteStatefulSet
  <2>2. UNCHANGED <<sts, stsView>> \/ StsBecomes([sts EXCEPT ![cur] = NoSts])
    BY <1>6 DEF deleteStatefulSet
  <2>3. QED
    BY <2>1, <2>2 DEF StsBecomes, TypeOK
<1>7. CASE UserCreates \/ UserDeletes \/ otherFinalizersDone
  <2>1. UNCHANGED <<sts, stsView, listed>>
    BY <1>7
       DEF UserCreates, UserDeletes, otherFinalizersDone, NoOperatorStep, loopVars, copies
  <2>2. past'.sts \in {sts, past.sts}
    <3>1. past' = past \/ \E x : past' = [rmq |-> x, sts |-> sts, pod |-> pod]
      BY <1>7, Zenon DEF UserCreates, UserDeletes, otherFinalizersDone, copies
    <3>2. QED
      BY <3>1
  <2>3. QED
    BY <2>1, <2>2
<1>8. CASE Sync
  BY <1>8 DEF Sync, rmqSync, stsSync, podSync, NoOperatorStep, loopVars, objects
<1>9. CASE \E j \in Node : collect(j)
  <2>1. PICK j \in Node : collect(j)
    BY <1>9
  <2>2. listed' = listed /\ past' = past
    BY <2>1 DEF collect, NoOperatorStep, loopVars
  <2>3. QED
    BY <2>1, <2>2 DEF collect, StsBecomes, TypeOK
<1>10. CASE \E j \in Node : podStart(j) \/ podEnd(j) \/ podFail(j)
  BY <1>10 DEF podStart, podEnd, podFail, NoOperatorStep, loopVars
<1>11. CASE Crash
  BY <1>11 DEF Crash, Requeue, objects, NoStatefulSets
<1>12. CASE UNCHANGED vars
  BY <1>12 DEF vars, objects, copies, loopVars
<1>13. QED
  BY <1>1, <1>2, <1>3, <1>4, <1>5, <1>6, <1>7, <1>8, <1>9, <1>10, <1>11, <1>12
     DEF Next, OperatorStep, NodeStep

\* A StatefulSet gets a uid that no copy refers to.
LEMMA FreshUidOK ==
    ASSUME NEW i \in Node, ~(Uid \ {0} \subseteq InUse(i))
    PROVE  FreshUid(i) # 0 /\ FreshUid(i) \notin InUse(i)
BY DEF FreshUid

\* The new StatefulSet's uid differs from those of all the copies.
LEMMA OwnerStep == TypeOK /\ OwnerInv /\ [Next]_vars => OwnerInv'
<1> SUFFICES ASSUME TypeOK, OwnerInv, [Next]_vars PROVE OwnerInv'
  OBVIOUS
<1> SUFFICES ASSUME NEW i \in Node
             PROVE  \A a, b \in StsCopies(i)' : a.uid = b.uid => a.owner = b.owner
  BY DEF OwnerInv
<1>1. CASE StsCopies(i)' \subseteq StsCopies(i)
  BY <1>1 DEF OwnerInv
<1>2. CASE reconcileResources /\ ~(StsCopies(i)' \subseteq StsCopies(i))
  <2>1. PICK j \in Node : createStatefulSet(j) /\ Requeue
    BY <1>2 DEF reconcileResources, Missing, StsCopies, Requeue, NoStatefulSets
  <2>2. listed'[i] = NoSts /\ past' = past
    BY <1>2, <2>1 DEF Requeue, NoStatefulSets, reconcileResources
  <2> DEFINE new == [uid |-> FreshUid(i), owner |-> mem.uid]
  <2>3. /\ ~(Uid \ {0} \subseteq InUse(i))
        /\ sts'[i] = new /\ stsView'[i] \in {stsView[i], new}
    BY <1>2, <2>1, <2>2 DEF createStatefulSet, StsBecomes, StsCopies, TypeOK
  <2>4. \A a \in StsCopies(i) : a.uid # new.uid
    BY <2>3, FreshUidOK DEF StsCopies, InUse, NoSts
  <2>5. \A a \in StsCopies(i)' : a = new \/ a \in StsCopies(i)
    BY <2>2, <2>3 DEF StsCopies
  <2>6. QED
    BY <2>4, <2>5 DEF OwnerInv
<1>3. QED
  BY <1>1, <1>2, NoNewCopies

-----------------------------------------------------------------------------
(***************************************************************************)
(* Copies of the cluster.                                                  *)
(***************************************************************************)
\* Whether c may be a copy of the cluster in the API server, d.
LEMMA CopyOfRmq ==
    DeletingInv <=> /\ rmq.uid = 0 => ~rmq.deleting
                    /\ view.uid = 0 => ~view.deleting
                    /\ mem.uid = 0 => ~mem.deleting
                    /\ past.rmq.uid = 0 => ~past.rmq.deleting
                    /\ view.deleting /\ view.uid = rmq.uid => rmq.deleting
                    /\ mem.deleting /\ mem.uid = rmq.uid => rmq.deleting
                    /\ past.rmq.deleting /\ past.rmq.uid = rmq.uid => rmq.deleting
BY DEF DeletingInv

\* A write of the cluster that undoes no deletion keeps DeletingInv.
LEMMA UpdateDeleting ==
    ASSUME DeletingInv, NEW new, UpdateCluster(new),
           new = NoCluster \/ (new.uid = mem.uid /\ new.deleting = mem.deleting)
    PROVE  DeletingInv'
<1>1. /\ UNCHANGED <<view, past>> /\ mem' = NoCluster
      /\ rmq' = rmq \/ (rmq' = new /\ mem = rmq)
  BY DEF UpdateCluster, Requeue, copies
<1>2. QED
  BY <1>1 DEF DeletingInv, NoCluster

\* A new cluster has a uid of its own, and no step takes back a deletion.
LEMMA DeletingStep == TypeOK /\ DeletingInv /\ [Next]_vars => DeletingInv'
<1> SUFFICES ASSUME TypeOK, DeletingInv, [Next]_vars PROVE DeletingInv'
  OBVIOUS
<1>1. CASE getRabbitmqCluster
  BY <1>1 DEF getRabbitmqCluster, objects, copies, DeletingInv
<1>2. CASE addFinalizer
  <2>1. /\ [mem EXCEPT !.fin = TRUE].uid = mem.uid
        /\ [mem EXCEPT !.fin = TRUE].deleting = mem.deleting
    BY DEF TypeOK, Cluster
  <2>2. QED
    BY <1>2, <2>1, UpdateDeleting DEF addFinalizer
<1>3. CASE removeFinalizer
  <2>1. CASE UpdateCluster(Released(mem))
    <3>1. \/ Released(mem) = NoCluster
          \/ Released(mem).uid = mem.uid /\ Released(mem).deleting = mem.deleting
      BY DEF Released, TypeOK, Cluster
    <3>2. QED
      BY <2>1, <3>1, UpdateDeleting
  <2>2. CASE ~UpdateCluster(Released(mem))
    BY <1>3, <2>2 DEF removeFinalizer, objects, copies, DeletingInv
  <2>3. QED
    BY <2>1, <2>2
<1>4. CASE \/ statefulSets \/ \E i \in Node : listPods(i)
           \/ \E p \in PodName : addRabbitmqDeletionLabel(p)
  <2>1. UNCHANGED <<rmq, view, past, mem>>
    BY <1>4, LoopEnd
       DEF statefulSets, listPods, addRabbitmqDeletionLabel, NextSts, objects, copies
  <2>2. QED
    BY <2>1 DEF DeletingInv
<1>5. CASE deleteStatefulSet
  <2>1. UNCHANGED <<rmq, view, past, mem>>
    BY <1>5, LoopEnd DEF deleteStatefulSet, StsBecomes
  <2>2. QED
    BY <2>1 DEF DeletingInv
<1>6. CASE reconcileResources
  <2>1. UNCHANGED <<rmq, view, past>> /\ mem' = NoCluster
    BY <1>6 DEF reconcileResources, createStatefulSet, StsBecomes, Requeue
  <2>2. QED
    BY <2>1 DEF DeletingInv, NoCluster
<1>7. CASE UserCreates
  <2>1. UNCHANGED <<view, past, mem>>
    BY <1>7 DEF UserCreates, NoOperatorStep, loopVars, copies
  <2>2. PICK u \in 1..MaxClusters :
          /\ view.uid \in 0 .. u - 1 /\ mem.uid \in 0 .. u - 1
          /\ past.rmq.uid \in 0 .. u - 1
          /\ rmq' = [NoCluster EXCEPT !.uid = u]
    BY <1>7 DEF UserCreates
  <2>3. rmq'.uid = u /\ ~rmq'.deleting
    BY <2>2 DEF NoCluster
  <2>4. view.uid # u /\ mem.uid # u /\ past.rmq.uid # u /\ u # 0
    BY <2>2, DeletionAssumption
  <2>5. QED
    BY <2>1, <2>3, <2>4, CopyOfRmq DEF DeletingInv
<1>8. CASE UserDeletes
  <2>1. UNCHANGED <<view, mem>> /\ rmq.uid # 0 /\ ~rmq.deleting
    BY <1>8 DEF UserDeletes, NoOperatorStep, loopVars
  <2>2. PICK held \in OtherFinalizers :
          LET c == [rmq EXCEPT !.deleting = TRUE, !.held = held] IN
          /\ rmq' = IF c.fin THEN c ELSE Released(c)
          /\ past' = [rmq |-> IF rmq'.uid = 0 THEN rmq ELSE c, sts |-> sts, pod |-> pod]
    BY <1>8 DEF UserDeletes
  <2> DEFINE c == [rmq EXCEPT !.deleting = TRUE, !.held = held]
  <2>3. c.uid = rmq.uid /\ c.deleting
    BY DEF TypeOK, Cluster
  <2>4. rmq' = NoCluster \/ (rmq'.uid = rmq.uid /\ rmq'.deleting)
    BY <2>2, <2>3 DEF Released, TypeOK, Cluster
  <2>5. past'.rmq = IF rmq'.uid = 0 THEN rmq ELSE c
    BY <2>2
  <2>6. QED
    BY <2>1, <2>3, <2>4, <2>5 DEF DeletingInv, NoCluster
<1>9. CASE otherFinalizersDone
  BY <1>9 DEF otherFinalizersDone, NoOperatorStep, loopVars, copies, DeletingInv, NoCluster
<1>10. CASE Sync
  BY <1>10 DEF Sync, rmqSync, stsSync, podSync, NoOperatorStep, loopVars, objects,
               DeletingInv
<1>11. CASE \E i \in Node : NodeStep(i) \/ podFail(i)
  <2>1. UNCHANGED <<rmq, view, past, mem>>
    BY <1>11 DEF NodeStep, collect, StsBecomes, podStart, podEnd, podFail,
                 NoOperatorStep, loopVars
  <2>2. QED
    BY <2>1 DEF DeletingInv
<1>12. CASE Crash
  <2>1. UNCHANGED <<rmq, past>> /\ mem' = NoCluster /\ view' \in {rmq, past.rmq}
    BY <1>12 DEF Crash, Requeue, objects
  <2>2. QED
    BY <2>1 DEF DeletingInv, NoCluster
<1>13. CASE UNCHANGED vars
  BY <1>13 DEF vars, objects, copies, loopVars, DeletingInv
<1>14. QED
  BY <1>1, <1>2, <1>3, <1>4, <1>5, <1>6, <1>7, <1>8, <1>9, <1>10, <1>11, <1>12, <1>13
     DEF Next, OperatorStep

-----------------------------------------------------------------------------
(***************************************************************************)
(* The loop of reconcileDelete.                                            *)
(***************************************************************************)
\* It is entered for a cluster that is being deleted, and every StatefulSet in it
\* has passed the check of its owner.
LEMMA LoopStep == TypeOK /\ DeletingInv /\ LoopInv /\ [Next]_vars => LoopInv'
<1> SUFFICES ASSUME TypeOK, DeletingInv, LoopInv, [Next]_vars PROVE LoopInv'
  OBVIOUS
<1> USE DEF LoopInv
<1>1. CASE getRabbitmqCluster
  BY <1>1 DEF getRabbitmqCluster
<1>2. CASE statefulSets
  BY <1>2 DEF statefulSets
<1>3. CASE \E i \in Node : listPods(i)
  BY <1>3 DEF listPods, NextSts, statefulSetUID
<1>4. CASE \E p \in PodName : addRabbitmqDeletionLabel(p)
  <2>1. \/ Conflict(cur) \/ NextSts(cur)
        \/ UNCHANGED <<pc, mem, listed, todo, cur>>
    BY <1>4 DEF addRabbitmqDeletionLabel
  <2>2. pc = "label"
    BY <1>4 DEF addRabbitmqDeletionLabel
  <2>3. QED
    BY <2>1, <2>2, LoopEnd
<1>5. CASE deleteStatefulSet
  <2>1. pc = "label" /\ (Conflict(cur) \/ NextSts(cur))
    BY <1>5 DEF deleteStatefulSet
  <2>2. QED
    BY <2>1, LoopEnd
<1>6. CASE addFinalizer \/ removeFinalizer \/ reconcileResources \/ Crash
  <2>1. pc' \in {"idle", "build"}
    BY <1>6 DEF addFinalizer, removeFinalizer, reconcileResources, Crash, UpdateCluster,
                Requeue
  <2>2. QED
    BY <2>1
<1>7. CASE \/ UserCreates \/ UserDeletes \/ otherFinalizersDone \/ Sync
           \/ \E i \in Node : NodeStep(i) \/ podFail(i)
  <2>1. UNCHANGED <<pc, mem, listed, todo, cur>>
    BY <1>7 DEF UserCreates, UserDeletes, otherFinalizersDone, Sync, rmqSync, stsSync,
                podSync, NodeStep, collect, podStart, podEnd, podFail, NoOperatorStep,
                loopVars
  <2>2. QED
    BY <2>1
<1>8. CASE UNCHANGED vars
  BY <1>8 DEF vars, loopVars
<1>9. QED
  BY <1>1, <1>2, <1>3, <1>4, <1>5, <1>6, <1>7, <1>8 DEF Next, OperatorStep

-----------------------------------------------------------------------------
\* The copies of clusters and StatefulSets that the operator works with agree with
\* each other, and with what is irrevocable, however old they are.
THEOREM DeletionInvariance == Spec => []IndInv
<1>1. IndInv /\ [Next]_vars => IndInv'
  BY TypeStep, OwnerStep, DeletingStep, LoopStep DEF IndInv
<1>2. QED
  BY InitInv, <1>1, PTL DEF Spec

\* A step that takes a StatefulSet away finds that its owner is being deleted or gone.
LEMMA KeptStep ==
    ASSUME IndInv, [Next]_vars, NEW i \in Node, sts[i].uid # 0, Live(sts[i].owner)
    PROVE  sts'[i] = sts[i]
<1> USE DEF IndInv
<1>1. CASE deleteStatefulSet
  <2>1. CASE i = cur /\ sts'[i] # sts[i]
    <3>1. pc = "label" /\ sts[i].uid = listed[i].uid
      BY <1>1, <2>1 DEF deleteStatefulSet
    <3>2. sts[i].owner = listed[i].owner
      BY <3>1 DEF OwnerInv, StsCopies
    <3>3. listed[i].owner = mem.uid /\ mem.deleting
      BY <3>1, <2>1 DEF LoopInv
    <3>4. QED
      BY <3>2, <3>3 DEF DeletingInv, Live
  <2>2. CASE i # cur
    BY <1>1, <2>2 DEF deleteStatefulSet, StsBecomes, TypeOK
  <2>3. QED
    BY <2>1, <2>2
<1>2. CASE reconcileResources
  <2>1. sts' = sts \/ \E j \in Node : sts[j] = NoSts /\ \E x : sts' = [sts EXCEPT ![j] = x]
    BY <1>2 DEF reconcileResources, createStatefulSet, StsBecomes, Missing
  <2>2. QED
    BY <2>1 DEF NoSts, TypeOK
<1>3. CASE \E j \in Node : collect(j)
  BY <1>3 DEF collect, StsBecomes, Live, TypeOK
<1>4. CASE addFinalizer \/ removeFinalizer
  BY <1>4 DEF addFinalizer, removeFinalizer, UpdateCluster, objects
<1>5. CASE \/ getRabbitmqCluster \/ statefulSets \/ \E j \in Node : listPods(j)
           \/ \E p \in PodName : addRabbitmqDeletionLabel(p)
  BY <1>5 DEF getRabbitmqCluster, statefulSets, listPods, addRabbitmqDeletionLabel, objects
<1>6. CASE \/ UserCreates \/ UserDeletes \/ otherFinalizersDone \/ Sync \/ Crash
           \/ \E j \in Node : podStart(j) \/ podEnd(j) \/ podFail(j)
  BY <1>6 DEF UserCreates, UserDeletes, otherFinalizersDone, Sync, rmqSync, stsSync,
              podSync, Crash, podStart, podEnd, podFail, objects
<1>7. CASE UNCHANGED vars
  BY <1>7 DEF vars, objects
<1>8. QED
  BY <1>1, <1>2, <1>3, <1>4, <1>5, <1>6, <1>7 DEF Next, OperatorStep, NodeStep

\* No StatefulSet of a live cluster is deleted, by the operator or by the garbage
\* collector, whatever the operator's lists say.
THEOREM LiveKept == Spec => LiveStsKept
<1>1. IndInv /\ [Next]_vars
        => [\A i \in Node : sts[i].uid # 0 /\ Live(sts[i].owner) => sts'[i] = sts[i]]_vars
  BY KeptStep
<1>2. QED
  BY DeletionInvariance, <1>1, PTL DEF Spec, LiveStsKept

\* Every variable keeps its type, for every number of nodes, clusters and faults.
THEOREM DeletionTypeCorrect == Spec => []TypeOK
BY DeletionInvariance, PTL DEF IndInv

-----------------------------------------------------------------------------
(***************************************************************************)
(* The pods of a StatefulSet that is deleted have been labelled.           *)
(***************************************************************************)
\* What tells a pod from another of the same name.
Id(p) == <<p.of, p.rev>>

\* The pods the caches, an API server that lags, or the running reconcile know node i's
\* pod to be.
KnownIds(i) == {Id(podView[i]), Id(past.pod[i]), Id(pods[i])}

\* A pod that is known but not running any more does not come back: its StatefulSet is
\* gone, or a fault has taken it since.
PodInv ==
    \A i \in Node :
        /\ \A c \in KnownIds(i) \cup {Id(pod[i])} : c[1] # 0 => faults <= c[2]
        /\ \A c \in KnownIds(i) :
              c[1] # 0 /\ c # Id(pod[i]) => sts[i].uid # c[1] \/ faults < c[2]

\* While pods are being labelled, the listed ones that are not due any more and still
\* run have their label.
MarkedInv ==
    pc = "label" =>
        \A i \in Node \ toMark :
            pods[i].of # 0 /\ Id(pods[i]) = Id(pod[i]) => pod[i].marked

\* A reconcile that has no list of pods has none of node i's.
LEMMA InitialPod == \A i \in Node : i \in PodName /\ InitialPods[i] = NoPod
BY DeletionAssumption DEF InitialPods, PodName, Node, Elsewhere

\* What the operator has listed: a copy of the cache, what it had, or nothing.
LEMMA PodsListed ==
    ASSUME TypeOK, [Next]_vars, NEW i \in Node
    PROVE  pods'[i] \in {pods[i], podView[i], NoPod}
<1> USE InitialPod
<1>1. CASE \/ getRabbitmqCluster \/ addFinalizer \/ statefulSets \/ removeFinalizer
           \/ reconcileResources \/ Crash
  BY <1>1 DEF getRabbitmqCluster, addFinalizer, statefulSets, removeFinalizer,
              reconcileResources, Crash, UpdateCluster, Requeue
<1>2. CASE \/ (\E j \in Node : listPods(j)) \/ deleteStatefulSet
           \/ \E p \in PodName : addRabbitmqDeletionLabel(p)
  BY <1>2 DEF listPods, addRabbitmqDeletionLabel, deleteStatefulSet, NextSts, Conflict
<1>3. CASE \/ Sync \/ UserCreates \/ UserDeletes \/ otherFinalizersDone
           \/ \E j \in Node : NodeStep(j) \/ podFail(j)
  BY <1>3 DEF Sync, rmqSync, stsSync, podSync, UserCreates, UserDeletes,
              otherFinalizersDone, NodeStep, collect, podStart, podEnd, podFail,
              NoOperatorStep, loopVars
<1>4. CASE UNCHANGED vars
  BY <1>4 DEF vars, loopVars
<1>5. QED
  BY <1>1, <1>2, <1>3, <1>4 DEF Next, OperatorStep

\* A step makes no pod known but the one that runs after it.
LEMMA KnownStep ==
    ASSUME TypeOK, [Next]_vars, NEW i \in Node
    PROVE  KnownIds(i)' \subseteq KnownIds(i) \cup {Id(pod'[i]), Id(NoPod)}
<1>1. podView'[i] \in {podView[i], past.pod[i], pod'[i]}
      /\ past'.pod[i] \in {past.pod[i], pod'[i]}
  <2>1. CASE \/ getRabbitmqCluster \/ addFinalizer \/ statefulSets \/ removeFinalizer
             \/ reconcileResources \/ deleteStatefulSet \/ \E j \in Node : listPods(j)
    BY <2>1 DEF getRabbitmqCluster, addFinalizer, statefulSets, removeFinalizer,
                reconcileResources, deleteStatefulSet, listPods, UpdateCluster, copies
  <2>2. CASE \/ (\E p \in PodName : addRabbitmqDeletionLabel(p))
             \/ \E j \in Node : podStart(j) \/ podEnd(j) \/ podFail(j)
    <3>1. (\E new : PodsBecome(new)) \/ UNCHANGED <<pod, podView>>
      BY <2>2 DEF addRabbitmqDeletionLabel, podStart, podEnd, podFail
    <3>2. past' = past
      BY <2>2 DEF addRabbitmqDeletionLabel, podStart, podEnd, podFail
    <3>3. QED
      BY <3>1, <3>2 DEF PodsBecome
  <2>3. CASE \/ Sync \/ UserCreates \/ otherFinalizersDone \/ Crash
             \/ \E j \in Node : collect(j)
    BY <2>3 DEF Sync, rmqSync, stsSync, podSync, UserCreates,
                otherFinalizersDone, Crash, collect, objects, copies
  <2>4. CASE UserDeletes
    <3>1. past'.pod = pod /\ UNCHANGED <<pod, podView>>
      BY <2>4 DEF UserDeletes
    <3>2. QED
      BY <3>1
  <2>5. CASE UNCHANGED vars
    BY <2>5 DEF vars, copies
  <2>6. QED
    BY <2>1, <2>2, <2>3, <2>4, <2>5 DEF Next, OperatorStep, NodeStep
<1>2. QED
  BY <1>1, PodsListed DEF KnownIds

\* How a node's pod changes: it is started where there was none, it ends when its
\* StatefulSet is gone, or a fault takes it.  A label changes nothing of its identity.
PodKept(i) == Id(pod'[i]) = Id(pod[i])

PodStarted(i) ==
    /\ pod[i] = NoPod /\ Id(pod'[i]) = <<sts[i].uid, faults>>
    /\ UNCHANGED <<sts, faults, pc, pods, toMark>>

PodLost(i) ==
    /\ pod'[i] = NoPod
    /\ \/ sts[i].uid # pod[i].of /\ UNCHANGED sts
       \/ faults > 0 /\ faults' = faults - 1

\* Every step does one of these to every pod.
LEMMA PodChange ==
    ASSUME TypeOK, [Next]_vars, NEW i \in Node
    PROVE  PodKept(i) \/ PodStarted(i) \/ PodLost(i)
<1> USE InitialPod
<1>1. CASE \E p \in PodName : addRabbitmqDeletionLabel(p)
  <2>1. PICK p \in PodName : addRabbitmqDeletionLabel(p)
    BY <1>1
  <2>2. pod' = pod \/ pod' = [pod EXCEPT ![p].marked = (pod[p].of # 0)]
    BY <2>1 DEF addRabbitmqDeletionLabel, PodsBecome
  <2>3. pod \in [PodName -> Pod]
    BY DEF TypeOK
  <2>4. \A b : LET q == [pod EXCEPT ![p].marked = b]
              IN  q[i].of = pod[i].of /\ q[i].rev = pod[i].rev
    BY <2>3 DEF Pod
  <2>5. pod'[i].of = pod[i].of /\ pod'[i].rev = pod[i].rev
    BY <2>2, <2>4, Zenon
  <2>6. QED
    BY <2>5 DEF PodKept, Id
<1>2. ASSUME NEW j \in Node, podStart(j)
      PROVE  PodKept(i) \/ PodStarted(i)
  BY <1>2 DEF podStart, PodsBecome, NoOperatorStep, loopVars, TypeOK, PodKept,
              PodStarted, Id
<1>3. ASSUME NEW j \in Node, podEnd(j) \/ podFail(j)
      PROVE  PodKept(i) \/ PodLost(i)
  <2>1. pod' = [pod EXCEPT ![j] = NoPod]
    BY <1>3 DEF podEnd, podFail, PodsBecome
  <2>2. CASE i # j
    BY <2>1, <2>2 DEF TypeOK, PodKept, Id
  <2>3. CASE i = j
    BY <1>3, <2>1, <2>3 DEF podEnd, podFail, Fault, TypeOK, PodLost
  <2>4. QED
    BY <2>2, <2>3
<1>4. CASE \/ getRabbitmqCluster \/ addFinalizer \/ statefulSets \/ removeFinalizer
           \/ reconcileResources \/ deleteStatefulSet \/ \E j \in Node : listPods(j)
  BY <1>4 DEF getRabbitmqCluster, addFinalizer, statefulSets, removeFinalizer,
              reconcileResources, deleteStatefulSet, listPods, UpdateCluster, objects,
              PodKept
<1>5. CASE \/ Sync \/ UserCreates \/ UserDeletes \/ otherFinalizersDone \/ Crash
           \/ \E j \in Node : collect(j)
  BY <1>5 DEF Sync, rmqSync, stsSync, podSync, UserCreates, UserDeletes,
              otherFinalizersDone, Crash, collect, objects, PodKept
<1>6. CASE UNCHANGED vars
  BY <1>6 DEF vars, objects, PodKept
<1>7. QED
  BY <1>1, <1>2, <1>3, <1>4, <1>5, <1>6 DEF Next, OperatorStep, NodeStep

\* A StatefulSet keeps its uid, goes, or gets one that no known pod belongs to.
LEMMA StsChange ==
    ASSUME TypeOK, [Next]_vars, NEW i \in Node
    PROVE  \/ sts'[i].uid \in {sts[i].uid, 0}
           \/ \A c \in KnownIds(i) \cup {Id(pod[i])} : sts'[i].uid # c[1]
<1>1. CASE reconcileResources
  <2>1. CASE sts' = sts
    BY <2>1
  <2>2. CASE sts' # sts
    <3>1. PICK j \in Node : createStatefulSet(j)
      BY <1>1, <2>2 DEF reconcileResources, Missing
    <3>2. /\ ~(Uid \ {0} \subseteq InUse(j))
          /\ sts' = [sts EXCEPT ![j] = [uid |-> FreshUid(j), owner |-> mem.uid]]
      BY <2>2, <3>1 DEF createStatefulSet, StsBecomes
    <3>3. CASE i # j
      BY <3>2, <3>3 DEF TypeOK
    <3>4. CASE i = j
      <4>1. sts'[i].uid = FreshUid(i) /\ FreshUid(i) \notin InUse(i)
        BY <3>2, <3>4, FreshUidOK DEF TypeOK
      <4>2. QED
        BY <4>1 DEF InUse, KnownIds, Id
    <3>5. QED
      BY <3>3, <3>4
  <2>3. QED
    BY <2>1, <2>2
<1>2. CASE ~reconcileResources
  <2>1. \/ sts' = sts
        \/ \E j \in Node : sts' = [sts EXCEPT ![j] = NoSts]
    <3>1. CASE \/ deleteStatefulSet \/ \E j \in Node : collect(j)
      BY <3>1 DEF deleteStatefulSet, collect, StsBecomes, TypeOK
    <3>2. CASE \/ getRabbitmqCluster \/ addFinalizer \/ statefulSets \/ removeFinalizer
               \/ (\E j \in Node : listPods(j))
               \/ \E p \in PodName : addRabbitmqDeletionLabel(p)
      BY <3>2 DEF getRabbitmqCluster, addFinalizer, statefulSets, removeFinalizer, listPods,
                  addRabbitmqDeletionLabel, UpdateCluster, objects
    <3>3. CASE \/ Sync \/ UserCreates \/ UserDeletes \/ otherFinalizersDone \/ Crash
               \/ \E j \in Node : podStart(j) \/ podEnd(j) \/ podFail(j)
      BY <3>3 DEF Sync, rmqSync, stsSync, podSync, UserCreates, UserDeletes,
                  otherFinalizersDone, Crash, podStart, podEnd, podFail, objects
    <3>4. CASE UNCHANGED vars
      BY <3>4 DEF vars, objects
    <3>5. QED
      BY <1>2, <3>1, <3>2, <3>3, <3>4 DEF Next, OperatorStep, NodeStep
  <2>2. QED
    BY <2>1 DEF NoSts, TypeOK
<1>3. QED
  BY <1>1, <1>2

\* Faults are only ever used up.
LEMMA FaultsStep == TypeOK /\ [Next]_vars => faults' <= faults
<1> SUFFICES ASSUME TypeOK, [Next]_vars PROVE faults' <= faults
  OBVIOUS
<1>1. faults \in Nat
  BY DeletionAssumption DEF TypeOK
<1>2. faults' = faults \/ Fault
  BY DEF Next, OperatorStep, NodeStep, Sync, getRabbitmqCluster, addFinalizer, statefulSets,
         listPods, addRabbitmqDeletionLabel, deleteStatefulSet, removeFinalizer,
         reconcileResources, createStatefulSet, UpdateCluster, rmqSync, stsSync, podSync,
         UserCreates, UserDeletes, otherFinalizersDone, collect, podStart, podEnd, podFail,
         Crash, vars
<1>3. QED
  BY <1>1, <1>2 DEF Fault

\* A pod that is gone stays gone, also for those who still list it.
LEMMA PodStep == TypeOK /\ PodInv /\ [Next]_vars => PodInv'
<1> SUFFICES ASSUME TypeOK, PodInv, [Next]_vars, NEW i \in Node,
                    NEW c \in KnownIds(i)' \cup {Id(pod'[i])}, c[1] # 0
             PROVE  /\ faults' <= c[2]
                    /\ c # Id(pod'[i]) => sts'[i].uid # c[1] \/ faults' < c[2]
  BY DEF PodInv
<1>0. /\ faults \in Int /\ faults' \in Int /\ faults' <= faults
      /\ \A d \in KnownIds(i) \cup {Id(pod[i])} : d[2] \in Int
  <2>1. \A d \in {podView[i], past.pod[i], pods[i], pod[i]} : d \in Pod
    BY InitialPod DEF TypeOK
  <2>2. \A d \in Pod : d.rev \in Int
    BY DeletionAssumption DEF Pod
  <2>3. QED
    BY <2>1, <2>2, FaultsStep, TypeStep, DeletionAssumption DEF TypeOK, KnownIds, Id
<1>1. /\ \A d \in KnownIds(i) \cup {Id(pod[i])} : d[1] # 0 => faults <= d[2]
      /\ \A d \in KnownIds(i) :
            d[1] # 0 /\ d # Id(pod[i]) => sts[i].uid # d[1] \/ faults < d[2]
  BY DEF PodInv
<1>2. c \in KnownIds(i) \/ c = Id(pod'[i])
  BY KnownStep DEF Id, NoPod
<1>3. CASE c = Id(pod'[i])
  <2>1. PodKept(i) \/ PodStarted(i)
    BY <1>3, PodChange DEF PodLost, Id, NoPod
  <2>2. QED
    BY <1>0, <1>1, <1>3, <2>1 DEF PodKept, PodStarted
<1>4. CASE c \in KnownIds(i) /\ c # Id(pod'[i])
  <2>1. faults' <= c[2]
    BY <1>0, <1>1, <1>4
  <2>2. CASE c # Id(pod[i])
    <3>1. sts[i].uid # c[1] \/ faults < c[2]
      BY <1>1, <1>4, <2>2
    <3>2. QED
      BY <1>0, <1>4, <2>1, <3>1, StsChange
  <2>3. CASE c = Id(pod[i])
    <3>1. PodLost(i)
      BY <1>4, <2>3, PodChange DEF PodKept, PodStarted, NoPod, Id
    <3>2. CASE sts[i].uid # pod[i].of /\ UNCHANGED sts
      BY <2>1, <2>3, <3>2 DEF Id
    <3>3. CASE faults > 0 /\ faults' = faults - 1
      BY <1>0, <1>1, <2>1, <2>3, <3>3
    <3>4. QED
      BY <3>1, <3>2, <3>3 DEF PodLost
  <2>4. QED
    BY <2>2, <2>3
<1>5. QED
  BY <1>2, <1>3, <1>4

\* Every step leaves a label on the pods that were labelled, or replaces the pod.
LEMMA MarkedStep == TypeOK /\ PodInv /\ MarkedInv /\ [Next]_vars => MarkedInv'
<1> SUFFICES ASSUME TypeOK, PodInv, MarkedInv, [Next]_vars, pc' = "label",
                    NEW i \in Node, i \notin toMark', pods'[i].of # 0,
                    Id(pods'[i]) = Id(pod'[i])
             PROVE  pod'[i].marked
  BY DEF MarkedInv
<1> USE InitialPod
\* The list, and what is due, stay as they are: only a pod that starts could be mistaken
\* for a labelled one.
<1>1. ASSUME pc = "label", UNCHANGED <<pods, toMark>>, pod'[i] = pod[i] \/ ~PodKept(i)
      PROVE  pod'[i].marked
  <2>1. CASE pod'[i] = pod[i]
    BY <1>1, <2>1 DEF MarkedInv
  <2>2. CASE ~PodKept(i)
    <3>1. ~PodLost(i)
      BY <1>1 DEF PodLost, NoPod, Id
    <3>2. PodStarted(i)
      BY <2>2, <3>1, PodChange
    <3>3. Id(pods[i])[1] = sts[i].uid /\ Id(pods[i])[2] = faults /\ Id(pods[i])[1] # 0
      BY <1>1, <3>2 DEF PodStarted, Id
    <3>4. Id(pods[i]) # Id(pod[i])
      BY <1>1, <3>2 DEF PodStarted, Id, NoPod
    <3>5. sts[i].uid # Id(pods[i])[1] \/ faults < Id(pods[i])[2]
      BY <3>3, <3>4 DEF PodInv, KnownIds
    <3>6. faults \in Int
      BY DeletionAssumption DEF TypeOK
    <3>7. QED
      BY <3>3, <3>5, <3>6
  <2>3. QED
    BY <1>1, <2>1, <2>2
<1>2. CASE \E j \in Node : listPods(j)
  <2>1. pods' = podView /\ toMark' = {p \in PodName : podView[p].of # 0}
    BY <1>2 DEF listPods, NextSts
  <2>2. QED
    BY <2>1
<1>3. CASE \E p \in PodName : addRabbitmqDeletionLabel(p)
  <2>1. PICK p \in PodName : addRabbitmqDeletionLabel(p)
    BY <1>3
  <2>2. /\ pc = "label" /\ pods' = pods /\ toMark' = toMark \ {p}
        /\ pod[p].of = 0 \/ pod[p] = pods[p]
        /\ pod' = [pod EXCEPT ![p].marked = (pod[p].of # 0)]
    BY <2>1 DEF addRabbitmqDeletionLabel, Conflict, NextSts, PodsBecome
  <2>3. CASE i # p
    <3>1. pod'[i] = pod[i]
      BY <2>2, <2>3 DEF TypeOK
    <3>2. QED
      BY <2>2, <2>3, <3>1 DEF MarkedInv
  <2>4. CASE i = p
    <3>1. pod \in [PodName -> Pod]
      BY DEF TypeOK
    <3>2. \A b : LET q == [pod EXCEPT ![p].marked = b]
                IN  q[p].of = pod[p].of /\ q[p].marked = b
      BY <3>1 DEF Pod
    <3>3. pod'[p].of = pod[p].of /\ pod'[p].marked = (pod[p].of # 0)
      BY <2>2, <3>2, Zenon
    <3>4. pod[p].of # 0
      BY <2>2, <2>4, <3>3 DEF Id
    <3>5. QED
      BY <2>4, <3>3, <3>4
  <2>5. QED
    BY <2>3, <2>4
<1>4. CASE \/ getRabbitmqCluster \/ addFinalizer \/ statefulSets \/ removeFinalizer
           \/ reconcileResources \/ deleteStatefulSet \/ Crash
  BY <1>4 DEF getRabbitmqCluster, addFinalizer, statefulSets, removeFinalizer,
              reconcileResources, deleteStatefulSet, Crash, UpdateCluster, Requeue,
              Conflict, NextSts
<1>5. CASE \/ Sync \/ UserCreates \/ UserDeletes \/ otherFinalizersDone
           \/ \E j \in Node : collect(j)
  <2>1. UNCHANGED <<pod, pods, toMark, pc>>
    BY <1>5 DEF Sync, rmqSync, stsSync, podSync, UserCreates, UserDeletes,
                otherFinalizersDone, collect, objects, NoOperatorStep, loopVars
  <2>2. QED
    BY <1>1, <2>1
<1>6. ASSUME NEW j \in Node, podStart(j) \/ podEnd(j) \/ podFail(j) PROVE pod'[i].marked
  <2>1. UNCHANGED <<pods, toMark, pc>>
    BY <1>6 DEF podStart, podEnd, podFail, NoOperatorStep, loopVars
  <2>2. CASE i # j
    <3>1. pod'[i] = pod[i]
      BY <1>6, <2>2 DEF podStart, podEnd, podFail, PodsBecome, TypeOK
    <3>2. QED
      BY <1>1, <2>1, <3>1
  <2>3. CASE i = j
    <3>1. ~PodKept(i)
      BY <1>6, <2>3 DEF podStart, podEnd, podFail, PodsBecome, TypeOK, PodKept, Id, NoPod
    <3>2. QED
      BY <1>1, <2>1, <3>1
  <2>4. QED
    BY <2>2, <2>3
<1>7. CASE UNCHANGED vars
  <2>1. UNCHANGED <<pod, pods, toMark, pc>>
    BY <1>7 DEF vars, objects, loopVars
  <2>2. QED
    BY <1>1, <2>1
<1>8. QED
  BY <1>2, <1>3, <1>4, <1>5, <1>6, <1>7 DEF Next, OperatorStep, NodeStep

\* When the operator deletes a StatefulSet, every pod of it that was listed and still
\* runs carries the deletion label, for every number of nodes, clusters and faults,
\* however old the list, and also next to a cluster of the same name elsewhere.
THEOREM DeletedMarked == Spec => DeletedPodsMarked
<1> DEFINE Marked ==
      \A i \in Node :
         /\ pc = "label" /\ pc' = "sts" /\ sts[i].uid # 0 /\ sts'[i].uid = 0
         /\ pod[i].of = sts[i].uid
         /\ pods[i].of = pod[i].of /\ pods[i].rev = pod[i].rev
         => pod[i].marked
<1>1. Init => PodInv /\ MarkedInv
  <2> SUFFICES ASSUME Init PROVE PodInv /\ MarkedInv
    OBVIOUS
  <2>1. \A i \in Node : KnownIds(i) \cup {Id(pod[i])} = {<<0, 0>>}
    BY InitialPod DEF Init, KnownIds, Id, NoPod
  <2>2. QED
    BY <2>1 DEF PodInv, MarkedInv, Init
<1>2. TypeOK /\ MarkedInv /\ [Next]_vars => [Marked]_vars
  <2> SUFFICES ASSUME TypeOK, MarkedInv, [Next]_vars, NEW i \in Node,
                      pc = "label", pc' = "sts", sts[i].uid # 0, sts'[i].uid = 0,
                      pod[i].of = sts[i].uid,
                      pods[i].of = pod[i].of, pods[i].rev = pod[i].rev
               PROVE  pod[i].marked
    OBVIOUS
  <2>1. toMark = {}
    <3>1. CASE deleteStatefulSet
      BY <3>1 DEF deleteStatefulSet
    <3>2. CASE \E p \in PodName : addRabbitmqDeletionLabel(p)
      BY <3>2 DEF addRabbitmqDeletionLabel
    <3>3. QED
      BY <3>1, <3>2 DEF Next, OperatorStep, NodeStep, Sync, getRabbitmqCluster, addFinalizer,
           statefulSets, listPods, removeFinalizer, reconcileResources, Crash, Requeue,
           rmqSync, stsSync, podSync, UserCreates, UserDeletes, otherFinalizersDone, collect,
           podStart, podEnd, podFail, NoOperatorStep, vars
  <2>2. QED
    BY <2>1 DEF MarkedInv, Id
<1>3. QED
  BY <1>1, <1>2, PodStep, MarkedStep, DeletionTypeCorrect, PTL DEF Spec, DeletedPodsMarked

=============================================================================
