---------------------------- MODULE MCReconciler ----------------------------
(***************************************************************************)
(* Instances of RabbitmqClusterReconciler for TLC.                         *)
(***************************************************************************)
EXTENDS RabbitmqClusterReconciler

\* Bound of the run shrink: a crash or a failed write, not both.
OneFault == budget.crashes + budget.failures >= MaxCrashes + MaxFailures - 1

=============================================================================
