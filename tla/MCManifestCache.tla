-------------------------- MODULE MCManifestCache --------------------------
(* Three sizes and a value that is too large: one large value displaces up  *)
(* to three small ones, and an overwrite may shrink an entry or grow it.    *)
EXTENDS ManifestCache, TLC

CONSTANTS small, middle, large, huge

Sizes == small :> 1 @@ middle :> 2 @@ large :> 4 @@ huge :> 5
=============================================================================
