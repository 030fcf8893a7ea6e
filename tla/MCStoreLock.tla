---------------------------- MODULE MCStoreLock ----------------------------
(***************************************************************************)
(* StoreLock with interchangeable process IDs.                             *)
(***************************************************************************)
EXTENDS StoreLock, TLC

Symmetry == Permutations(Procs)
=============================================================================
