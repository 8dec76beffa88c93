------------------------ MODULE RollingUpdate_proofs ------------------------
(***************************************************************************)
(* What RollingUpdate promises, for any set of nodes and templates; it     *)
(* holds of every specification that implements RollingUpdate.             *)
(***************************************************************************)
EXTENDS RollingUpdate, TLAPS

\* The constants are what their names say.
ConstantsOK == NoTemplate \in Template /\ MayFail \in BOOLEAN

\* A node that went down although nodes do not fail was stopped to be replaced.
DownInv == ~MayFail => \A n \in Node : Out(n) => Outdated(n)

Inv == TypeOK /\ OneOutdated /\ DownInv

\* No step of a node leaves the invariant: it makes at most one node outdated.
LEMMA StepInv ==
    ASSUME ConstantsOK, Inv, [Next]_vars PROVE Inv'
<1> USE DEF Inv, TypeOK, OneOutdated, DownInv, Outdated, Out
<1>1. CASE \E n \in Node : Change(n)
  BY <1>1 DEF Change
<1>2. CASE \E n \in Node : Stop(n)
  BY <1>2 DEF Stop
<1>3. CASE \E n \in Node : Start(n)
  BY <1>3 DEF Start
<1>4. CASE UNCHANGED vars
  BY <1>4 DEF vars
<1>5. QED
  BY <1>1, <1>2, <1>3, <1>4 DEF Next

\* A change goes through the nodes one at a time: at most one node does not run
\* its template, and unless nodes fail by themselves it is the only one down.
THEOREM OneNodeDisturbed ==
    ASSUME ConstantsOK PROVE Spec => [](OneOutdated /\ OneDisturbed)
<1>1. Init => Inv
  BY DEF ConstantsOK, Init, Inv, TypeOK, OneOutdated, DownInv, Outdated, Out
<1>2. Inv /\ [Next]_vars => Inv'
  BY StepInv
<1>3. Inv => OneOutdated /\ OneDisturbed
  BY DEF Inv, OneOutdated, DownInv, OneDisturbed
<1>4. QED
  BY <1>1, <1>2, <1>3, PTL DEF Spec

=============================================================================
