--------------------------- MODULE MCResponseCache ---------------------------
(* Three keys compete for two entries that live two units of time.         *)
EXTENDS ResponseCacheRefinement, TLC

Symmetry == Permutations(Values)
=============================================================================
