------------------------------ MODULE MCProxy ------------------------------
(* One reference is asked for in every way, a second only to compete for    *)
(* the manifest cache, which holds one.                                     *)
EXTENDS Proxy, TLC

CONSTANTS x, y, h1, h2

Q(path, ref, method, condition, authorized, host) ==
  [path |-> path, ref |-> ref, method |-> method, condition |-> condition,
   authorized |-> authorized, host |-> host]

SomeQueries == {
  Q("manifest", x, "GET", "plain", FALSE, h1),
  Q("manifest", x, "GET", "same", TRUE, h1),
  Q("manifest", x, "GET", "range", TRUE, h1),
  Q("manifest", x, "HEAD", "plain", TRUE, h1),
  Q("manifest", y, "GET", "plain", TRUE, h1),
  Q("blob", x, "GET", "plain", TRUE, h1),
  Q("blob", x, "HEAD", "plain", FALSE, h1),
  Q("list", x, "GET", "plain", TRUE, h1),
  Q("list", x, "HEAD", "plain", TRUE, h1),
  Q("v2", x, "GET", "plain", FALSE, h1),
  Q("v2", x, "GET", "plain", FALSE, h2),
  Q("v2", x, "HEAD", "plain", FALSE, h1),
  Q("outside", x, "GET", "plain", FALSE, h1)}

Symmetry == Permutations(Requests)
=============================================================================
