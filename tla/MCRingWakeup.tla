---------------------------- MODULE MCRingWakeup ----------------------------
(* TLC instance of RingWakeup: the pool workers are interchangeable, and so *)
(* are the coroutines other than the root.                                  *)
EXTENDS RingWakeup, TLC

Symmetry == Permutations(Workers) \cup Permutations(Handles \ {Root})
=============================================================================
