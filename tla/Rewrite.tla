------------------------------- MODULE Rewrite -------------------------------
(***************************************************************************)
(* How the redirector turns the names its clients use into upstream's, and *)
(* back: paths (proxy), token scopes (token, getToken), Link headers and   *)
(* names of tag lists (proxy), and what each part of the code takes a path *)
(* to be (routes, caches, limiter, metrics).                               *)
(*                                                                         *)
(* A string is a sequence of words, "/" being one.  Words run together to  *)
(* a longer one if no "/" is between them: <<"d", "x">> has the prefix     *)
(* <<"d">> without being below it.  A configuration c has the flags repo   *)
(* and prefix; plain is prefixlessHosts[r.Host].  upstream's host is left  *)
(* out: it changes no path, and the realm is modelled in Proxy.            *)
(***************************************************************************)
EXTENDS Naturals, Sequences, SequencesExt

Empty == <<>>
Slash == <<"/">>
V2 == <<"/", "v2", "/">>
TagsList == <<"/", "tags", "/", "list">>

-----------------------------------------------------------------------------
(* Package strings.                                                        *)

TrimPrefix(s, t) == IF IsPrefix(t, s) THEN SubSeq(s, Len(t) + 1, Len(s)) ELSE s

\* Where t is in s.
At(s, t) == {i \in 1..(Len(s) - Len(t) + 1) : SubSeq(s, i, i + Len(t) - 1) = t}

Holds(s, t) == At(s, t) # {}

\* Replace(s, old, new, 1)
Replace(s, old, new) ==
  IF ~Holds(s, old) THEN s
  ELSE LET i == CHOOSE i \in At(s, old) : \A j \in At(s, old) : i <= j IN
       SubSeq(s, 1, i - 1) \o new \o SubSeq(s, i + Len(old), Len(s))

\* Split(s, "/"): the strings between one slash and the next.  Cut is what it
\* has found once it has come to another word.
Cut(parts, word) ==
  IF word = "/" THEN Append(parts, Empty)
  ELSE [parts EXCEPT ![Len(parts)] = Append(@, word)]

Split(s) ==
  LET upTo[n \in 0..Len(s)] == IF n = 0 THEN <<Empty>> ELSE Cut(upTo[n - 1], s[n])
  IN upTo[Len(s)]

\* Join(parts, "/")
Join(parts) ==
  LET upTo[n \in 0..Len(parts)] ==
        IF n = 0 THEN Empty
        ELSE IF n = 1 THEN parts[1]
        ELSE upTo[n - 1] \o Slash \o parts[n]
  IN upTo[Len(parts)]

-----------------------------------------------------------------------------
(* Slips the code could have made, used to test the properties.            *)

\* The prefix is taken off and the repo is not set in front.
BarePath(c, plain, path) ==
  LET own == TrimPrefix(path, V2) IN
  V2 \o IF c.prefix # Empty /\ ~plain THEN TrimPrefix(own, c.prefix \o Slash) ELSE own

\* The repo is set in front first, and the prefix then taken off.
SwappedScope(c, scope) ==
  LET full == IF c.repo # Empty
              THEN Replace(scope, <<"repository:">>, <<"repository:">> \o c.repo \o Slash)
              ELSE scope IN
  IF c.prefix # Empty THEN Replace(full, c.prefix \o Slash, Empty) ELSE full

\* Links get the prefix whatever the host.
PrefixedLink(c, plain, link) ==
  LET mark == V2 \o c.repo IN
  IF ~IsPrefix(mark, link) THEN link
  ELSE IF c.prefix # Empty THEN V2 \o c.prefix \o TrimPrefix(link, mark)
  ELSE <<"/", "v2">> \o TrimPrefix(link, mark)

\* The name in a list is upstream's.
UpstreamName(c, path, name) == name

\* The last part of a path is looked at, which is the digest.
LastPartRelayed(path) ==
  LET parts == Split(path) IN parts[Len(parts)] # <<"blobs">>

-----------------------------------------------------------------------------
(* What clients ask for.                                                   *)

\* The registry API's paths.
PathOf(name, kind, ref) ==
  V2 \o name \o (IF kind = "tags" THEN TagsList ELSE <<"/", kind, "/">> \o ref)

\* The router redirects to the clean form of a path that is not: one with an
\* empty part or a part of dots.
Clean(path) ==
  \A part \in {<<"/", "/">>, <<"/", ".", "/">>, <<"/", "..", "/">>} : ~Holds(path, part)

\* The routes of NewWithOptions; .* matches anything, slashes included.
Routed(path) ==
  LET own == TrimPrefix(path, V2) IN
  /\ IsPrefix(V2, path)
  /\ Holds(own, <<"/", "manifests", "/">>) \/ Holds(own, <<"/", "blobs", "/">>) \/ IsSuffix(TagsList, own)

\* Without the prefix a path is not found, unless its host needs none.
Accepted(c, plain, path) ==
  c.prefix # Empty /\ ~plain => IsPrefix(c.prefix \o Slash, TrimPrefix(path, V2))

\* The path that proxy sends upstream.
UpstreamPath(c, plain, path) ==
  LET own == TrimPrefix(path, V2) IN
  V2 \o (IF c.repo # Empty THEN c.repo \o Slash ELSE Empty)
     \o (IF c.prefix # Empty /\ ~plain THEN TrimPrefix(own, c.prefix \o Slash) ELSE own)

-----------------------------------------------------------------------------
(* Token scopes.                                                           *)

ScopeOf(name) == <<"repository:">> \o name \o <<":pull">>

\* token: the scope a client asks for, as it goes upstream.
TokenScope(c, scope) ==
  LET own == IF c.prefix # Empty THEN Replace(scope, c.prefix \o Slash, Empty) ELSE scope IN
  IF c.repo # Empty
  THEN Replace(own, <<"repository:">>, <<"repository:">> \o c.repo \o Slash)
  ELSE own

\* getToken: the scope for a proxied request without a token.
GetTokenScope(c, path) ==
  LET split == Split(path)
      parts == SubSeq(split, 3, Len(split) - 2)
      own == IF c.prefix # Empty /\ parts[1] = c.prefix THEN Tail(parts) ELSE parts IN
  ScopeOf(Join(IF c.repo # Empty THEN <<c.repo>> \o own ELSE own))

-----------------------------------------------------------------------------
(* What comes back.                                                        *)

\* The target of a Link header, which names upstream's repository.
RewriteLink(c, plain, link) ==
  LET mark == V2 \o c.repo
      rest == TrimPrefix(link, mark) IN
  IF ~IsPrefix(mark, link) THEN link
  ELSE IF c.prefix # Empty /\ ~plain THEN V2 \o c.prefix \o rest
  ELSE <<"/", "v2">> \o rest

\* Whether the answer to a path is decoded as a tag list, and the name in it.
DecodedAsList(c, path) == c.repo # Empty /\ Holds(path, TagsList)
RewriteName(c, path, name) ==
  IF DecodedAsList(c, path) THEN Replace(name, c.repo \o Slash, Empty) ELSE name

-----------------------------------------------------------------------------
(* What parts of the code take a path to be.                               *)

\* isBlobRequest; Split(Trim(path, "/"), "/") drops the empty first part.
IsBlobRequest(path) ==
  LET parts == Tail(Split(path)) IN
  Len(parts) >= 4 /\ \E i \in 3..(Len(parts) - 1) : parts[i] = <<"blobs">>

\* manifestCacheKey and blobRedirectCacheKey
MaybeCached(path, kind) == Holds(path, Slash \o <<kind>> \o Slash)

\* Whether the body of an answer is relayed.
BodyRelayed(path) ==
  LET parts == Split(path) IN parts[Len(parts) - 1] # <<"blobs">>

\* backendOperation, of the path that goes upstream.
BackendOperation(path) ==
  LET parts == Tail(Split(path))
      n == Len(parts)
      marks == {i \in 2..(n - 1) : parts[i] \in {<<"manifests">>, <<"blobs">>}} IN
  IF n >= 4 /\ parts[n - 1] = <<"tags">> /\ parts[n] = <<"list">> THEN "tags"
  ELSE IF marks = {} THEN "other"
  ELSE parts[CHOOSE i \in marks : \A j \in marks : i <= j][1]

\* metricPath, of the path that clients ask for.
MetricPath(path) ==
  LET parts == Tail(Split(path))
      n == Len(parts)
      separated(word) == \E i \in 3..(n - 1) : parts[i] = <<word>> IN
  IF n < 4 THEN "unknown"
  ELSE IF n >= 5 /\ parts[n - 1] = <<"tags">> /\ parts[n] = <<"list">> THEN "tags"
  ELSE IF separated("manifests") THEN "manifests"
  ELSE IF separated("blobs") THEN "blobs"
  ELSE "unknown"
=============================================================================
