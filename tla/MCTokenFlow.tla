---------------------------- MODULE MCTokenFlow ----------------------------
(* Requests and URLs are interchangeable in the safety runs.                *)
EXTENDS TokenFlow, TLC

Symmetry == Permutations(Requests) \cup Permutations(Urls)
=============================================================================
