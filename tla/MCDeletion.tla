----------------------------- MODULE MCDeletion -----------------------------
(***************************************************************************)
(* Instances of ClusterDeletion for TLC.                                   *)
(***************************************************************************)
EXTENDS ClusterDeletion
=============================================================================
