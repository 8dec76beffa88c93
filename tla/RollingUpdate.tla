---------------------------- MODULE RollingUpdate ----------------------------
(***************************************************************************)
(* What the operator promises of a change of the nodes, whatever brought   *)
(* it about: the template of a node is changed only while every node runs  *)
(* the one it should.  So a change goes through the cluster one node at a  *)
(* time, and one that fails stops at the first node.                       *)
(*                                                                         *)
(* RabbitmqClusterReconciler implements this specification.                *)
(***************************************************************************)
CONSTANTS
    Node,        \* the nodes of the cluster
    Template,    \* what a node can be asked to run
    NoTemplate,  \* what a node that was never started runs
    MayFail      \* may a node go down by itself?

VARIABLES
    want,   \* the template of each node
    runs,   \* the template its pod was started from last
    up      \* is the pod up?

vars == <<want, runs, up>>

Init ==
    /\ want = [n \in Node |-> NoTemplate]
    /\ runs = [n \in Node |-> NoTemplate]
    /\ up = [n \in Node |-> FALSE]

Outdated(n) == want[n] # runs[n]

\* The operator gives a node another template, or its first one.
Change(n) ==
    /\ \A m \in Node : ~Outdated(m)
    /\ want'[n] \in Template
    /\ want' = [want EXCEPT ![n] = want'[n]]
    /\ UNCHANGED <<runs, up>>

\* A node goes down to be replaced, or by itself.
Stop(n) ==
    /\ up[n]
    /\ Outdated(n) \/ MayFail
    /\ up' = [up EXCEPT ![n] = FALSE]
    /\ UNCHANGED <<want, runs>>

Start(n) ==
    /\ ~up[n]
    /\ up' = [up EXCEPT ![n] = TRUE]
    /\ runs' = [runs EXCEPT ![n] = want[n]]
    /\ UNCHANGED want

Next == \E n \in Node : Change(n) \/ Stop(n) \/ Start(n)

Spec == Init /\ [][Next]_vars

-----------------------------------------------------------------------------
TypeOK ==
    /\ want \in [Node -> Template] /\ runs \in [Node -> Template]
    /\ up \in [Node -> BOOLEAN]

\* At most one node does not run its template.
OneOutdated == \A m, n \in Node : Outdated(m) /\ Outdated(n) => m = n

\* A node that has been up and is down.
Out(n) == runs[n] # NoTemplate /\ ~up[n]

\* Unless nodes go down by themselves, at most one node is down or outdated.
OneDisturbed ==
    ~MayFail => \A m, n \in Node :
        (Outdated(m) \/ Out(m)) /\ (Outdated(n) \/ Out(n)) => m = n

=============================================================================
