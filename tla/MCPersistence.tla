---------------------------- MODULE MCPersistence ----------------------------
(***************************************************************************)
(* PersistenceScaler for TLC; the configurations give the constants.       *)
(***************************************************************************)
EXTENDS PersistenceScaler
=============================================================================
