--------------------------- MODULE MCFrameQueue ---------------------------
(* Small instances of FrameQueue for TLC.                                  *)
EXTENDS FrameQueueRefinement, TLC

\* Consumers, producers and buffer addresses are interchangeable.
Symmetry ==
  Permutations(Consumers) \cup Permutations(Producers) \cup Permutations(Bufs)
=============================================================================
