--------------------------- MODULE MCRateLimiter ---------------------------
(***************************************************************************)
(* A small instance of RateLimiter.                                        *)
(***************************************************************************)
EXTENDS RateLimiter, TLC

BackAndForward == {-2, 3}
Symmetry == Permutations(Thread)
=============================================================================
