--------------------------- MODULE MCRateLimiter ---------------------------
(* Small instances of the rate limiter.                                    *)
EXTENDS RateLimiter, TLC

\* Callers only ever compare equal or not, so they are interchangeable.
Symmetry == Permutations(Callers)

============================================================================
