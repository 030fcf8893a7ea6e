---------------------------- MODULE MCBlocklistSync ----------------------------
(* Instance of BlocklistSync for TLC.                                      *)
EXTENDS BlocklistSync
=============================================================================
