----------------------------- MODULE MCSession -----------------------------
(* Names with the prefix d, the repo r and the API's own words at the front, *)
(* in the middle and run together with other words, and names that the       *)
(* router redirects.                                                         *)
EXTENDS Session

MCRepoFlags == {Empty, <<"r">>, <<"r", "/", "s">>}
MCPrefixFlags == {Empty, <<"d">>, <<"r">>, <<"d", "/", "e">>}

Tails == {
  <<"x">>, <<"d">>, <<"r", "/", "x">>, <<"x", "/", "d", "/", "y">>,
  <<"x", "d", "/", "y">>, <<"d", "x", "/", "y">>, <<"r", "x", "/", "r", "/", "y">>,
  <<"x", "/", "blobs", "/", "y">>, <<"x", "/", "manifests", "/", "y">>,
  <<"manifests">>, <<"x", "/", "tags", "/", "list", "/", "y">>,
  <<"x", "/", "/", "y">>, <<"/", "x">>, <<"x", "/", "..", "/", "y">> }
MCNames == Tails \cup {p \o Slash \o t : p \in MCPrefixFlags \ {Empty}, t \in Tails}
=============================================================================
