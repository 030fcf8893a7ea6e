---------------------------- MODULE MCDeployment ----------------------------
(* Instance of Deployment for TLC. *)
EXTENDS Deployment
=============================================================================
