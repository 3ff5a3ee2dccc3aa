---------------------------- MODULE MCDiskCache -----------------------------
(* DiskCache with symmetric sector contents. *)
EXTENDS DiskCache, TLC

ValueSymmetry == Permutations(Values)
=============================================================================
