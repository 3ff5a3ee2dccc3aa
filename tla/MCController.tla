---------------------------- MODULE MCController ----------------------------
(* ControllerProperties with the CDBs of MCCommands. *)
EXTENDS ControllerProperties, MCCommands
=============================================================================
