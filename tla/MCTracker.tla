----------------------------- MODULE MCTracker -----------------------------
(* Requests are alike; IPs are numbers, since Top orders them.              *)
EXTENDS Tracker, TLC

Symmetry == Permutations(Requests)
=============================================================================
