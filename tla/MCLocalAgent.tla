---------------------------- MODULE MCLocalAgent ----------------------------
(***************************************************************************)
(* LocalAgent with interchangeable Stop requests.                          *)
(***************************************************************************)
EXTENDS LocalAgent, TLC

Symmetry == Permutations(Stops)
=============================================================================
