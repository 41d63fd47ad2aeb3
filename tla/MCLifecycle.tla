---------------------------- MODULE MCLifecycle ----------------------------
(* Connections are alike; the temporal run does without the symmetry.  One  *)
(* file has a range of hosts, the other a single address of that range,     *)
(* mapped, and a mapped range.                                              *)
EXTENDS Lifecycle, TLC

Symmetry == Permutations(Conns)

Range(cidr, mapped, hosts) == [cidr |-> cidr, mapped |-> mapped, hosts |-> hosts]
Wide == [rate |-> 6, burst |-> 9, ranges |-> <<Range(TRUE, FALSE, {"a", "b"})>>]
Single == [rate |-> 3, burst |-> 5,
           ranges |-> <<Range(FALSE, TRUE, {"b"}), Range(TRUE, TRUE, {"c"})>>]
NoRate == [rate |-> 0, burst |-> 9, ranges |-> <<Range(FALSE, FALSE, {"a"})>>]
BadRange == [rate |-> 2, burst |-> 2, ranges |-> <<Range(FALSE, FALSE, {"a"}), Bad>>]
MCFiles == {Missing, Broken, Wide, Single, NoRate, BadRange}

MCAddresses == [host : {"a", "b", "c"}, mapped : BOOLEAN] \cup {Unparsable}
MCDefault == [rate |-> 4, burst |-> 8]
=============================================================================
