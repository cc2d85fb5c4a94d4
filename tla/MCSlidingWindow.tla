-------------------------- MODULE MCSlidingWindow --------------------------
(* SlidingWindow on a small instance; the requests in flight are alike.    *)
EXTENDS SlidingWindow, TLC

Symmetry == Permutations(Proc)
=============================================================================
