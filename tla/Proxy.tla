-------------------------------- MODULE Proxy --------------------------------
(***************************************************************************)
(* The handlers for manifests, blobs, tag lists (redirect.go) and /v2/     *)
(* (v2.go) in front of their caches.                                       *)
(*                                                                         *)
(* A handler looks in the cache of its path, is charged by the rate        *)
(* limiter on a miss, gets a token if its client sent none, asks upstream, *)
(* relays the answer and stores it if it may be shared.  Nothing keeps two *)
(* requests for the same thing from doing so side by side, and time passes *)
(* between any two steps.  A step stands for the handler's code up to the  *)
(* next call that waits, takes a lock or reads the clock.                  *)
(*                                                                         *)
(* ManifestCache and ResponseCache (for /v2/) are the project's modules;   *)
(* the blob cache is a ristretto cache, which may refuse or evict an entry *)
(* at any time.  How a token is found is left to TokenFlow.                *)
(***************************************************************************)
EXTENDS Integers, Sequences, FiniteSets

CONSTANTS
  Requests,   \* slots for concurrent requests
  Queries,    \* the requests that arrive
  Refs,       \* manifest references with their Accept headers, and digests
  Hosts,      \* what clients call this server
  Lives,      \* how long upstream's signed redirects live; 0 if it does not say
  Margin,     \* blobRedirectCacheExpiryMargin
  MaxTTL,     \* blobRedirectCacheMaxTTL
  MaxLag,     \* bound on the time from reading the clock to storing a redirect
  V2TTL,      \* v2CacheTTL
  MaxBytes,   \* of the manifest cache, a manifest taking one unit
  Registry,   \* the host in upstream's challenge
  NoEntry

Paths == {"manifest", "blob", "list", "v2", "outside"}
Conditions == {"plain", "same", "range"}  \* If-None-Match that matches, Range

Query == [path : Paths, ref : Refs, method : {"GET", "HEAD"},
          condition : Conditions, authorized : BOOLEAN, host : Hosts]

\* whole, large, cut: a 200 whose body is read, exceeds the limit, breaks off.
\* empty: a 200 to HEAD.  refused: any other status.
Relayed == {"whole", "large", "empty", "notModified", "partial", "redirect",
            "challenge", "refused"}
Answers == Relayed \cup {"cut"}

ASSUME ProxyAssumption ==
  /\ Queries \subseteq Query
  /\ Lives \subseteq Nat
  /\ {Margin, MaxTTL, MaxLag, MaxBytes} \subseteq Nat
  /\ V2TTL \in Nat \ {0}
  /\ MaxLag < Margin
  /\ Registry \notin Hosts
  /\ NoEntry \notin Answers \cup Hosts \cup {Registry}
  /\ NoEntry \notin [value : Hosts \cup {Registry}, left : 0..V2TTL]

VARIABLES
  pc, query, reply,                  \* where a request is, what it asks, gets
  charged, sent,                     \* charged for; needed upstream
  answer, life,                      \* upstream's answer, and its redirect's time
  ttl, lag,                          \* TTL worked out, and how long ago
  items, order, used, history,       \* the manifest cache
  redirects,                         \* the blob cache
  challenges                         \* the /v2/ cache

reqVars == <<pc, query, reply, charged, sent, answer, life, ttl, lag>>
manifestVars == <<items, order, used, history>>
cacheVars == <<manifestVars, redirects, challenges>>
vars == <<reqVars, cacheVars>>

Manifests == INSTANCE ManifestCache WITH
  Keys <- Refs, Values <- Answers, Size <- [a \in Answers |-> 1]

V2Cache == INSTANCE ResponseCache WITH
  Keys <- {"/v2/"}, Values <- Hosts \cup {Registry}, TTL <- V2TTL,
  MaxEntries <- 1, entries <- challenges

\* What may be left of a redirect's time.
TimesLeft == UNION {0..n : n \in Lives \cup {0}}
None == "none"
NoReply == [body |-> None, realm |-> None]

TypeOK ==
  /\ pc \in [Requests ->
       {"idle", "lookup", "charge", "token", "send", "clock", "store", "done"}]
  /\ query \in [Requests -> Queries]
  /\ reply \in [Requests -> [body : Relayed \cup {None, "error", "limited", "notFound"},
                              realm : Hosts \cup {Registry, None}]]
  /\ charged \in [Requests -> 0..1]
  /\ sent \in [Requests -> BOOLEAN]
  /\ answer \in [Requests -> Answers \cup {None}]
  /\ life \in [Requests -> TimesLeft]
  /\ ttl \in [Requests -> 0..MaxTTL]
  /\ lag \in [Requests -> 0..MaxLag]
  /\ Manifests!TypeOK
  /\ redirects \in [Refs -> [left : 1..MaxTTL, life : TimesLeft] \cup {NoEntry}]
  /\ V2Cache!TypeOK

Init ==
  /\ pc = [r \in Requests |-> "idle"]
  /\ query \in [Requests -> Queries]
  /\ reply = [r \in Requests |-> NoReply]
  /\ charged = [r \in Requests |-> 0]
  /\ sent = [r \in Requests |-> FALSE]
  /\ answer = [r \in Requests |-> None]
  /\ life = [r \in Requests |-> 0]
  /\ ttl = [r \in Requests |-> 0]
  /\ lag = [r \in Requests |-> 0]
  /\ Manifests!Init
  /\ redirects = [k \in Refs |-> NoEntry]
  /\ V2Cache!Init

-----------------------------------------------------------------------------
(* Slips the code could have made, used to test the properties.            *)

\* Manifests are cached whatever the method, or whatever the status.
AnyMethod(q, a) == a \in {"whole", "large", "empty"}
AnyStatus(q, a) == q.method = "GET" /\ a # "cut"

\* The challenge is stored as it was rewritten for its first caller.
RewrittenChallenge(q) == q.host

\* The margin is forgotten.
NoMargin(n) == IF n <= 0 THEN 0 ELSE IF n > MaxTTL THEN MaxTTL ELSE n

\* A redirect is kept as long as its signature lasts.
Uncapped(n) == IF n <= Margin THEN 0 ELSE n - Margin

\* A token fetch is charged for on top of the request it is for.
ChargedToken(r, granted) ==
  /\ pc[r] = "token"
  /\ granted
  /\ pc' = [pc EXCEPT ![r] = "send"]
  /\ charged' = [charged EXCEPT ![r] = @ + 1]
  /\ UNCHANGED <<query, reply, sent, answer, life, ttl, lag, cacheVars>>
-----------------------------------------------------------------------------

Exempt(q) == q.path = "blob"

\* writeV2Headers
Rewritten(realm, host) == IF realm = Registry THEN host ELSE realm

\* ttl > 0 for a redirect that can be cached, from the time it has left
RedirectTTL(n) ==
  IF n <= Margin THEN 0 ELSE IF n - Margin > MaxTTL THEN MaxTTL ELSE n - Margin

\* proxyAndCacheManifest is for a 200 to GET.
ManifestCacheable(q, a) == q.method = "GET" /\ a \in {"whole", "large"}

\* serveCachedManifest
Conditional(q, a) ==
  CASE q.condition = "same" -> "notModified"
    [] q.condition # "same" /\ q.method = "HEAD" -> "empty"
    [] OTHER -> a

Reply(r, body, realm) ==
  /\ pc' = [pc EXCEPT ![r] = "done"]
  /\ reply' = [reply EXCEPT ![r] = [body |-> body, realm |-> realm]]

-----------------------------------------------------------------------------
(* Before upstream is asked.                                               *)

Arrive(r, q) ==
  /\ pc[r] \in {"idle", "done"}
  /\ pc' = [pc EXCEPT ![r] = "lookup"]
  /\ query' = [query EXCEPT ![r] = q]
  /\ reply' = [reply EXCEPT ![r] = NoReply]
  /\ charged' = [charged EXCEPT ![r] = 0]
  /\ sent' = [sent EXCEPT ![r] = FALSE]
  /\ UNCHANGED <<answer, life, ttl, lag, cacheVars>>

\* A miss.
NotFound(r) ==
  /\ pc' = [pc EXCEPT ![r] = "charge"]
  /\ UNCHANGED reply

\* A path without the required prefix is answered here.
LookupOutside(r) ==
  /\ query[r].path = "outside"
  /\ Reply(r, "notFound", None)
  /\ UNCHANGED cacheVars

LookupManifest(r) ==
  LET q == query[r] IN
  /\ q.path = "manifest"
  /\ \/ /\ Manifests!Get(q.ref)
        /\ Reply(r, Conditional(q, items[q.ref]), None)
     \/ Manifests!Miss(q.ref) /\ NotFound(r)
  /\ UNCHANGED <<redirects, challenges>>

LookupRedirect(r) ==
  LET q == query[r] IN
  /\ q.path = "blob"
  /\ \/ q.method = "GET" /\ redirects[q.ref] # NoEntry /\ Reply(r, "redirect", None)
     \/ q.method # "GET" /\ NotFound(r)
     \/ redirects[q.ref] = NoEntry /\ NotFound(r)
  /\ UNCHANGED cacheVars

LookupChallenge(r) ==
  LET q == query[r] IN
  /\ q.path = "v2"
  /\ \/ /\ q.method = "GET"
        /\ \E realm \in Hosts \cup {Registry, NoEntry} :
             /\ V2Cache!Get("/v2/", realm)
             /\ \/ realm # NoEntry /\ Reply(r, "challenge", Rewritten(realm, q.host))
                \/ realm = NoEntry /\ NotFound(r)
     \/ q.method # "GET" /\ NotFound(r) /\ UNCHANGED challenges
  /\ UNCHANGED <<manifestVars, redirects>>

Lookup(r) ==
  /\ pc[r] = "lookup"
  /\ \/ LookupOutside(r) \/ LookupManifest(r) \/ LookupRedirect(r) \/ LookupChallenge(r)
     \/ query[r].path = "list" /\ NotFound(r) /\ UNCHANGED cacheVars
  /\ UNCHANGED <<query, charged, sent, answer, life, ttl, lag>>

\* allowRequest
Charge(r, allowed) ==
  LET q == query[r] IN
  /\ pc[r] = "charge"
  /\ Exempt(q) => allowed
  /\ \/ /\ allowed
        /\ pc' = [pc EXCEPT ![r] = IF q.authorized \/ q.path = "v2" THEN "send" ELSE "token"]
        /\ charged' = [charged EXCEPT ![r] = IF Exempt(q) THEN @ ELSE @ + 1]
        /\ UNCHANGED reply
     \/ /\ ~allowed
        /\ Reply(r, "limited", None)
        /\ UNCHANGED charged
  /\ UNCHANGED <<query, sent, answer, life, ttl, lag, cacheVars>>

\* getToken: the token may come from a cache, but only upstream refuses one.
Token(r, granted) ==
  /\ pc[r] = "token"
  /\ \/ granted /\ pc' = [pc EXCEPT ![r] = "send"] /\ UNCHANGED <<reply, sent>>
     \/ ~granted /\ Reply(r, "error", None) /\ sent' = [sent EXCEPT ![r] = TRUE]
  /\ UNCHANGED <<query, charged, answer, life, ttl, lag, cacheVars>>

-----------------------------------------------------------------------------
(* Upstream's answer and what becomes of it.                               *)

\* What upstream may answer.
Upstream(q) ==
  {"refused"} \cup
    CASE q.path = "blob" -> {"redirect", "whole"}
      [] q.path = "v2"   -> {"challenge"} \cup (IF q.method = "GET" THEN {"large", "cut"} ELSE {})
      [] OTHER ->
           (IF q.method = "HEAD" THEN {"empty"} ELSE {"whole", "large", "cut"})
           \cup (IF q.condition = "same" THEN {"notModified"} ELSE {})
           \cup (IF q.condition = "range" THEN {"partial"} ELSE {})

\* doBackendRequest gives an answer, and the handler turns to its body.
Answer(r, a, n) ==
  /\ pc[r] = "send"
  /\ a \in Upstream(query[r])
  /\ a # "redirect" => n = 0
  /\ pc' = [pc EXCEPT ![r] = IF a = "redirect" /\ query[r].method = "GET" THEN "clock" ELSE "store"]
  /\ sent' = [sent EXCEPT ![r] = TRUE]
  /\ answer' = [answer EXCEPT ![r] = a]
  /\ life' = [life EXCEPT ![r] = n]
  /\ UNCHANGED <<query, reply, charged, ttl, lag, cacheVars>>

\* It gives none: a timeout, or the client has gone.
Fail(r) ==
  /\ pc[r] = "send"
  /\ Reply(r, "error", None)
  /\ sent' = [sent EXCEPT ![r] = TRUE]
  /\ UNCHANGED <<query, charged, answer, life, ttl, lag, cacheVars>>

\* time.Now() in the call of blobCache.set, and blobRedirectCacheTTL.
ReadClock(r) ==
  /\ pc[r] = "clock"
  /\ pc' = [pc EXCEPT ![r] = "store"]
  /\ ttl' = [ttl EXCEPT ![r] = RedirectTTL(life[r])]
  /\ UNCHANGED <<query, reply, charged, sent, answer, life, lag, cacheVars>>

StoreManifest(r) ==
  LET q == query[r] IN
  /\ q.path = "manifest"
  /\ IF ManifestCacheable(q, answer[r]) /\ answer[r] # "large"
     THEN Manifests!Set(q.ref, answer[r]) \/ Manifests!Refuse(answer[r])
     ELSE UNCHANGED manifestVars
  /\ Reply(r, answer[r], None)
  /\ UNCHANGED <<redirects, challenges>>

\* SetWithTTL may refuse an entry.  Bodies of blobs are not relayed.
StoreRedirect(r, accepted) ==
  LET q == query[r] IN
  /\ q.path = "blob"
  /\ \/ /\ accepted /\ ttl[r] > 0
        /\ redirects' = [redirects EXCEPT ![q.ref] = [left |-> ttl[r], life |-> life[r]]]
     \/ /\ ~accepted \/ ttl[r] = 0
        /\ UNCHANGED redirects
  /\ Reply(r, answer[r], None)
  /\ UNCHANGED <<manifestVars, challenges>>

\* The realm that is stored.
StoredRealm(q) == Registry

\* The challenge is stored as it came and rewritten for its caller.
StoreChallenge(r) ==
  LET q == query[r] IN
  /\ q.path = "v2"
  /\ IF answer[r] = "challenge" /\ q.method = "GET"
     THEN \E stored \in BOOLEAN : V2Cache!Set("/v2/", StoredRealm(q), stored)
     ELSE UNCHANGED challenges
  /\ Reply(r, answer[r],
           IF answer[r] = "challenge" THEN Rewritten(Registry, q.host) ELSE None)
  /\ UNCHANGED <<manifestVars, redirects>>

\* A tag list is decoded and rewritten, which needs a body in JSON.
RelayList(r) ==
  /\ query[r].path = "list"
  /\ \/ answer[r] \in {"whole", "large", "refused"} /\ Reply(r, answer[r], None)
     \/ answer[r] \notin {"whole", "large"} /\ Reply(r, "error", None)
  /\ UNCHANGED cacheVars

Store(r, accepted) ==
  /\ pc[r] = "store"
  /\ \/ answer[r] = "cut" /\ Reply(r, "error", None) /\ UNCHANGED cacheVars
     \/ /\ answer[r] # "cut"
        /\ \/ StoreManifest(r) \/ StoreRedirect(r, accepted)
           \/ StoreChallenge(r) \/ RelayList(r)
  /\ answer' = [answer EXCEPT ![r] = None]
  /\ life' = [life EXCEPT ![r] = 0]
  /\ ttl' = [ttl EXCEPT ![r] = 0]
  /\ lag' = [lag EXCEPT ![r] = 0]
  /\ UNCHANGED <<query, charged, sent>>

-----------------------------------------------------------------------------
\* ristretto drops an entry to stay within its cost.
Evict(k) ==
  /\ redirects[k] # NoEntry
  /\ redirects' = [redirects EXCEPT ![k] = NoEntry]
  /\ UNCHANGED <<reqVars, manifestVars, challenges>>

Less(n) == IF n > 0 THEN n - 1 ELSE 0

Storing(r) == pc[r] = "store" /\ ttl[r] > 0

\* The clock moves; a redirect whose TTL is over is not found any more.
Tick ==
  /\ \A r \in Requests : Storing(r) => lag[r] < MaxLag
  /\ V2Cache!Tick
  /\ redirects' = [k \in Refs |->
       IF redirects[k] = NoEntry \/ redirects[k].left = 1 THEN NoEntry
       ELSE [left |-> redirects[k].left - 1, life |-> Less(redirects[k].life)]]
  /\ life' = [r \in Requests |-> Less(life[r])]
  /\ lag' = [r \in Requests |-> IF Storing(r) THEN lag[r] + 1 ELSE lag[r]]
  /\ UNCHANGED <<pc, query, reply, charged, sent, answer, ttl, manifestVars>>

Next ==
  \/ \E r \in Requests :
       \/ Lookup(r) \/ Fail(r) \/ ReadClock(r)
       \/ \E q \in Queries : Arrive(r, q)
       \/ \E b \in BOOLEAN : Charge(r, b) \/ Token(r, b) \/ Store(r, b)
       \/ \E a \in Answers, n \in Lives \cup {0} : Answer(r, a, n)
  \/ \E k \in Refs : Evict(k)
  \/ Tick

Spec == Init /\ [][Next]_vars

-----------------------------------------------------------------------------
(* Properties.                                                             *)

\* Whichever requests filled the caches, each client gets an answer to its own
\* request: 304 only if it holds the manifest, a part only if it asked for one,
\* no body only for HEAD, and a challenge that names the host it called.
AnswerFits ==
  \A r \in Requests :
    /\ reply[r].body = "notModified" => query[r].condition = "same"
    /\ reply[r].body = "partial" => query[r].condition = "range"
    /\ reply[r].body = "empty" => query[r].method = "HEAD"
    /\ reply[r].body = "challenge" => reply[r].realm = query[r].host

\* A redirect from the cache can still be followed: when it is found its
\* signature has more than the margin to go, less the time that storing it took.
RedirectAlive ==
  \A k \in Refs : redirects[k] # NoEntry => redirects[k].life > Margin - MaxLag

\* "Charges a request only when it needs upstream data: a request answered
\* from the manifest, blob, token or /v2/ cache costs nothing", and "an
\* anonymous token fetch followed by a manifest fetch costs one charge".
ChargedForUpstream ==
  \A r \in Requests : pc[r] = "done" =>
    (charged[r] = 1 <=> sent[r] /\ ~Exempt(query[r]))
=============================================================================
