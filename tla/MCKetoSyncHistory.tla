---------------------------- MODULE MCKetoSyncHistory ----------------------------
(* The inputs of MCKetoSync, for the specification with history variables. *)
EXTENDS MCKetoSync, KetoSyncHistory
=============================================================================
