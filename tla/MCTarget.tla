------------------------------ MODULE MCTarget ------------------------------
(* TargetRefinement with the CDBs of MCCommands. *)
EXTENDS TargetRefinement, MCCommands
=============================================================================
