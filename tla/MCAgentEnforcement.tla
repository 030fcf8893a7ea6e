------------------------ MODULE MCAgentEnforcement ------------------------
(***************************************************************************)
(* DefaultWeights in units of five points: ssh 3, http 2, fail2ban and     *)
(* feed 20, threshold 10.                                                  *)
(***************************************************************************)
EXTENDS AgentEnforcement, TLC

DefaultWeights == {0, 2, 3, 20}
DefaultThreshold == 10
WeakOrTrusted == {0, 1, 2}
Symmetry == Permutations(IPs)
=============================================================================
