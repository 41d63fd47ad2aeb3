------------------------------ MODULE Session ------------------------------
(***************************************************************************)
(* A client's session with a redirector that renames repositories: it may  *)
(* get a token for the repository it wants, asks for manifests and blobs,  *)
(* and lists tags page by page, following the Link header of each page.    *)
(*                                                                         *)
(* Tokens, paths, Links and names are rewritten at different places of the *)
(* code, by prefix, by first occurrence or by part.  What the client sees  *)
(* hangs together only if those places agree.                              *)
(***************************************************************************)
EXTENDS Rewrite

CONSTANTS
  RepoFlags, PrefixFlags,  \* values of the flags repo and prefix
  Names,            \* repositories as clients name them
  Pages             \* how many pages a tag list has

ASSUME SessionAssumption ==
  /\ Pages \in Nat \ {0}
  /\ RepoFlags \cup PrefixFlags \cup Names \subseteq Seq(STRING)

None == <<"none">>
Ref == <<"ref">>
Kinds == {"manifests", "blobs", "tags"}

VARIABLES
  config,   \* the flags, and whether the host of the client is prefixless
  name,     \* the repository it wants
  pc,       \* where its session is
  token,    \* the scope of its token, if it has one
  kind, path,       \* its last request ...
  upPath, upScope,  \* ... and what became of it upstream
  page,     \* the page of the list it asked for
  next,     \* the Link it was given
  listed    \* the name the list gives for its repository

vars == <<config, name, pc, token, kind, path, upPath, upScope, page, next, listed>>

PathIsPlain == config.plain \/ config.prefix = Empty

TypeOK ==
  /\ config \in [repo : RepoFlags, prefix : PrefixFlags, plain : BOOLEAN]
  /\ name \in Names
  /\ pc \in {"ready", "sent", "answered", "moved", "missing", "unrouted", "refused",
            "undecodable"}
  /\ kind \in Kinds /\ page \in 0..Pages
  /\ pc = "sent" => IsPrefix(V2 \o config.repo, upPath) /\ upScope # None
  /\ next # None => pc = "answered" /\ kind = "tags" /\ page < Pages
  /\ pc = "unrouted" => page > 1

Init ==
  /\ config \in [repo : RepoFlags, prefix : PrefixFlags, plain : BOOLEAN]
  /\ name \in Names
  /\ pc = "ready"
  /\ token = None
  /\ kind = "manifests" /\ path = Empty
  /\ upPath = Empty /\ upScope = None
  /\ page = 0 /\ next = None /\ listed = None

-----------------------------------------------------------------------------
\* The repository that an upstream path of kind k is about.
UpstreamRepo(k, up) ==
  LET own == TrimPrefix(up, V2) IN
  SubSeq(own, 1, Len(own) - 4)

\* The client asks /token for its repository.
GetToken ==
  /\ pc = "ready" /\ token = None
  /\ token' = TokenScope(config, ScopeOf(name))
  /\ UNCHANGED <<config, name, pc, kind, path, upPath, upScope, page, next, listed>>

\* The router, which answers 301 to a path that is not clean, and the head of
\* proxy, up to the call upstream.
Send(k, p) ==
  /\ kind' = k /\ path' = p
  /\ \/ /\ ~Clean(p)
        /\ pc' = "moved"
        /\ UNCHANGED <<upPath, upScope>>
     \/ /\ Clean(p) /\ ~Routed(p)
        /\ pc' = "unrouted"
        /\ UNCHANGED <<upPath, upScope>>
     \/ /\ Clean(p) /\ Routed(p) /\ ~Accepted(config, config.plain, p)
        /\ pc' = "missing"
        /\ UNCHANGED <<upPath, upScope>>
     \/ /\ Clean(p) /\ Routed(p) /\ Accepted(config, config.plain, p)
        /\ pc' = "sent"
        /\ upPath' = UpstreamPath(config, config.plain, p)
        /\ upScope' = IF token # None THEN token ELSE GetTokenScope(config, p)

Ask(k) ==
  /\ pc = "ready"
  /\ Send(k, PathOf(name, k, Ref))
  /\ page' = IF k = "tags" THEN 1 ELSE 0
  /\ UNCHANGED <<config, name, token, next, listed>>

Follow ==
  /\ pc = "answered" /\ next # None
  /\ Send("tags", next)
  /\ page' = page + 1
  /\ next' = None
  /\ UNCHANGED <<config, name, token, listed>>

\* The session goes on with another request.
Again ==
  /\ pc = "answered"
  /\ pc' = "ready" /\ page' = 0 /\ next' = None
  /\ UNCHANGED <<config, name, token, kind, path, upPath, upScope, listed>>

-----------------------------------------------------------------------------
(* Upstream, and the rest of proxy.                                        *)

Granted ==
  LET repo == UpstreamRepo(kind, upPath) IN repo # Empty /\ upScope = ScopeOf(repo)

\* A token for another repository opens nothing, and nothing has an empty name.
Refuse ==
  /\ pc = "sent" /\ ~Granted
  /\ pc' = "refused"
  /\ UNCHANGED <<config, name, token, kind, path, upPath, upScope, page, next, listed>>

\* A manifest or blob that proxy takes for a tag list, which it cannot decode.
Undecodable ==
  /\ pc = "sent" /\ Granted
  /\ kind # "tags" /\ DecodedAsList(config, path)
  /\ pc' = "undecodable"
  /\ UNCHANGED <<config, name, token, kind, path, upPath, upScope, page, next, listed>>

Relay ==
  /\ pc = "sent" /\ Granted
  /\ kind # "tags" /\ ~DecodedAsList(config, path)
  /\ pc' = "answered"
  /\ UNCHANGED <<config, name, token, kind, path, upPath, upScope, page, next, listed>>

\* The Link of all pages but the last names upstream's repository; its query,
\* which differs from page to page, comes through as it is.
RelayPage ==
  /\ pc = "sent" /\ Granted
  /\ kind = "tags"
  /\ pc' = "answered"
  /\ next' = IF page < Pages THEN RewriteLink(config, config.plain, upPath) ELSE None
  /\ listed' = RewriteName(config, path, UpstreamRepo(kind, upPath))
  /\ UNCHANGED <<config, name, token, kind, path, upPath, upScope, page>>

Next ==
  \/ GetToken \/ Follow \/ Again \/ \E k \in Kinds : Ask(k)
  \/ Refuse \/ Undecodable \/ Relay \/ RelayPage

Spec == Init /\ [][Next]_vars

-----------------------------------------------------------------------------
(* Properties.                                                             *)

\* The prefix alone is not the name of a repository.
Proper == name # config.prefix

\* The prefix is one part, and the scope a client asks for has it nowhere but,
\* on a host that requires it, at the front of the name.
PrefixOnce ==
  /\ Proper
  /\ \A i \in DOMAIN config.prefix : config.prefix[i] # "/"
  /\ config.plain /\ config.prefix # Empty => ~Holds(ScopeOf(name), config.prefix \o Slash)

\* "Repository and prefix rewriting must agree": the token for a path, be it
\* the client's own from /token or one that proxy fetches, is a token for the
\* repository that the path names upstream.
TokenFits ==
  pc = "sent" /\ PrefixOnce => upScope = ScopeOf(UpstreamRepo(kind, upPath))

\* Without a prefix, a tag list bears the name its client knows, so that the
\* client does not ask for the first page again and again.
ListedName == pc = "answered" /\ kind = "tags" /\ PathIsPlain => listed = name

LinkLeadsOn ==
  next # None =>
    /\ Clean(next) /\ Routed(next) /\ Accepted(config, config.plain, next)
    /\ UpstreamPath(config, config.plain, next) = upPath

\* With a repo, a client that follows the Links it is given sees the list that
\* upstream has, page after page.
RepoLinkLeadsOn == config.repo # Empty => LinkLeadsOn

\* "In order for the client to be able to use this link, we need to rewrite it
\* to point to the user's requested repo", whatever the flags.
EveryLinkLeadsOn == LinkLeadsOn

\* No part of the name and the flags is one the registry API has a use for.
Unreserved ==
  \A s \in {name, config.repo, config.prefix} : \A i \in DOMAIN s :
    s[i] \notin {"manifests", "blobs", "tags", "list"}

\* metricPath asks for five parts of a tag list, and /v2/x/tags/list has four.
Counted == kind = "tags" => \E i \in DOMAIN name : name[i] = "/"

\* The limiter, the caches, the relaying of bodies and the metrics each work
\* out from a path what it is about, and they agree.
SameKind ==
  pc \in {"sent", "answered"} /\ Proper /\ Unreserved =>
    /\ IsBlobRequest(path) <=> kind = "blobs"
    /\ BodyRelayed(path) <=> kind # "blobs"
    /\ \A k \in {"manifests", "blobs"} : MaybeCached(path, k) <=> kind = k
    /\ DecodedAsList(config, path) => kind = "tags"
    /\ Counted => MetricPath(path) = kind
    /\ BackendOperation(upPath) = kind
=============================================================================
