--------------------------- MODULE MCRateLimiter ---------------------------
(* Three addresses for a map of two, and three requests in introspection. *)
EXTENDS RateLimiter, TLC

Symmetry == Permutations(Keys) \cup Permutations(Bearers)

============================================================================
