------------------------------- MODULE MCDisk -------------------------------
(* Disk with two small image files of different lengths.                   *)
EXTENDS Disk

CONSTANTS m1, m2

Lengths == m1 :> 3 @@ m2 :> 2
=============================================================================
