------------------------------ MODULE MCSerialSync ------------------------------
(* The inputs of MCKetoSync, for one handler. *)
EXTENDS MCKetoSync, SerialSync
=============================================================================
