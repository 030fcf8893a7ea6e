---------------------------- MODULE MCLogTailer ----------------------------
(* Instance of LogTailer for TLC.                                          *)
EXTENDS LogTailer
=============================================================================
