----------------------------- MODULE MCHistory ------------------------------
(* ControllerHistory with the CDBs of MCCommands. *)
EXTENDS ControllerHistory, MCCommands
=============================================================================
