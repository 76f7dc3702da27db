--------------------------- MODULE MCRateLimiter ---------------------------
(* Model values and symmetry for RateLimiter and VisitorMap. *)
EXTENDS VisitorMap, TLC

CONSTANTS k1, k2, r1, r2

Symmetry == Permutations({k1, k2}) \cup Permutations({r1, r2})
=============================================================================
