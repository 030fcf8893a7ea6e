------------------------------ MODULE MCIngest ------------------------------
(* Instance of Ingest for TLC: two agents that report the same two          *)
(* addresses in opposite order.                                             *)
EXTENDS Ingest

CONSTANTS a1, a2, x1, x2

MCBatch == (a1 :> <<x1, x2>>) @@ (a2 :> <<x2, x1>>)
=============================================================================
