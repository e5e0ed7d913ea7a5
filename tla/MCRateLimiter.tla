--------------------------- MODULE MCRateLimiter ---------------------------
(* TLC instances of RateLimiter. *)
EXTENDS RateLimiter, TLC

ThreadSymmetry == Permutations(Threads)

============================================================================
