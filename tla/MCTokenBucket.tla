--------------------------- MODULE MCTokenBucket ---------------------------
(* TokenBucket on a small instance; the requests in flight are alike.      *)
EXTENDS TokenBucket, TLC

Symmetry == Permutations(Proc)
=============================================================================
