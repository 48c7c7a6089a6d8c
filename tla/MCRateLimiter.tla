--------------------------- MODULE MCRateLimiter ---------------------------
(* RateLimiter for TLC: tasks are interchangeable.                         *)
EXTENDS RateLimiter, TLC

Interchangeable == Permutations(Tasks)
=============================================================================
