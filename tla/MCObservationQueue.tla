------------------------- MODULE MCObservationQueue -------------------------
(* Instances of ObservationQueue for TLC, and mutated operators that stand  *)
(* for plausible bugs in the queue and the uploader.                        *)
EXTENDS ObservationQueue, TLC
Symmetry == Permutations(Syncs)
=============================================================================
