--------------------------- MODULE MCRateLimiter ---------------------------
(* The second IP has an override, a bucket filled twice as fast.            *)
EXTENDS RateLimiter, TLC

CONSTANTS ip1, ip2, ip3

MCRate == ip1 :> 1 @@ ip2 :> 2 @@ ip3 :> 1
MCBurst == ip1 :> 2 @@ ip2 :> 2 @@ ip3 :> 2

Symmetry == Permutations(Requests) \cup Permutations({ip1, ip3})
=============================================================================
