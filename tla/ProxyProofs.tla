----------------------------- MODULE ProxyProofs -----------------------------
(***************************************************************************)
(* Theorems about Proxy, for any requests, references, hosts and times.    *)
(***************************************************************************)
EXTENDS Proxy, TLAPS

\* The types that the arguments below need; what the manifest cache counts and
\* orders is left to its own module.
Types ==
  /\ pc \in [Requests ->
       {"idle", "lookup", "charge", "token", "send", "clock", "store", "done"}]
  /\ query \in [Requests -> Queries]
  /\ DOMAIN reply = Requests
  /\ charged \in [Requests -> Nat]
  /\ sent \in [Requests -> BOOLEAN]
  /\ answer \in [Requests -> Answers \cup {None}]
  /\ life \in [Requests -> Nat]
  /\ ttl \in [Requests -> Nat]
  /\ lag \in [Requests -> Nat]
  /\ DOMAIN items = Refs
  /\ DOMAIN redirects = Refs
  /\ DOMAIN challenges = {"/v2/"}

\* Only whole manifests and challenges as upstream sent them are cached.
Shareable ==
  /\ \A k \in Refs : items[k] \in {NoEntry, "whole"}
  /\ challenges["/v2/"] # NoEntry => challenges["/v2/"].value = Registry

Answered ==
  \A r \in Requests :
    /\ pc[r] \in {"clock", "store"} => answer[r] \in Upstream(query[r])
    /\ pc[r] = "clock" => query[r].path = "blob"

\* A request is charged as it leaves the caches behind.
Charges ==
  \A r \in Requests :
    /\ pc[r] \in {"lookup", "charge"} => charged[r] = 0 /\ ~sent[r]
    /\ pc[r] \in {"token", "send", "clock", "store"} =>
         charged[r] = IF Exempt(query[r]) THEN 0 ELSE 1
    /\ pc[r] \in {"token", "send"} => ~sent[r]
    /\ pc[r] \in {"clock", "store"} => sent[r]

\* A TTL runs ahead of its redirect's time by the margin, less what has passed
\* since the clock was read.
Timed ==
  /\ \A r \in Requests :
       /\ lag[r] <= MaxLag
       /\ ~Storing(r) => lag[r] = 0
       /\ pc[r] # "store" => ttl[r] = 0
       /\ Storing(r) => life[r] >= ttl[r] + Margin - lag[r]
  /\ \A k \in Refs : redirects[k] # NoEntry =>
       /\ redirects[k].left \in Nat /\ redirects[k].life \in Nat
       /\ redirects[k].left > 0
       /\ redirects[k].life >= redirects[k].left + Margin - MaxLag

IInv ==
  Types /\ Shareable /\ Answered /\ Charges /\ Timed /\ AnswerFits /\ ChargedForUpstream

-----------------------------------------------------------------------------
LEMMA Constants ==
  /\ Margin \in Nat /\ MaxTTL \in Nat /\ MaxLag \in Nat /\ MaxLag < Margin
  /\ \A n \in Lives \cup {0} : n \in Nat
  BY ProxyAssumption

\* What a request asks for, as far as answers depend on it.
LEMMA Asked ==
  ASSUME NEW q \in Queries
  PROVE  /\ q.path \in Paths /\ q.method \in {"GET", "HEAD"} /\ q.condition \in Conditions
         /\ Exempt(q) <=> q.path = "blob"
  BY ProxyAssumption DEF Query, Exempt

\* Upstream's answers, by the requests they can be given to.
LEMMA UpstreamFits ==
  ASSUME NEW q \in Queries, NEW a \in Upstream(q)
  PROVE  /\ a \in Answers
         /\ a = "notModified" => q.condition = "same" /\ q.path \in {"manifest", "list", "outside"}
         /\ a = "partial" => q.condition = "range"
         /\ a = "empty" => q.method = "HEAD"
         /\ a = "challenge" => q.path = "v2"
         /\ a = "redirect" => q.path = "blob"
<1>1. CASE q.path = "blob"
  BY <1>1 DEF Upstream, Answers, Relayed
<1>2. CASE q.path = "v2"
  BY <1>2 DEF Upstream, Answers, Relayed
<1>3. CASE q.path \notin {"blob", "v2"}
  <2>1. q.path \in {"manifest", "list", "outside"}
    BY <1>3, Asked DEF Paths
  <2> QED
    BY <1>3, <2>1 DEF Upstream, Answers, Relayed
<1> QED
  BY <1>1, <1>2, <1>3

\* What a request gets from the manifest cache fits it.
LEMMA ConditionalFits ==
  ASSUME NEW q \in Queries
  PROVE  /\ Conditional(q, "whole") \in {"notModified", "empty", "whole"}
         /\ Conditional(q, "whole") = "notModified" => q.condition = "same"
         /\ Conditional(q, "whole") = "empty" => q.method = "HEAD"
  BY DEF Conditional

\* A step that replies to one request keeps AnswerFits if the reply fits it.
LEMMA ReplyFits ==
  ASSUME AnswerFits, NEW r \in Requests, NEW body, NEW realm,
         DOMAIN reply = Requests, query' = query, Reply(r, body, realm),
         body = "notModified" => query[r].condition = "same",
         body = "partial" => query[r].condition = "range",
         body = "empty" => query[r].method = "HEAD",
         body = "challenge" => realm = query[r].host
  PROVE  AnswerFits' /\ DOMAIN reply' = Requests
<1>1. DOMAIN reply' = Requests /\ reply'[r] = [body |-> body, realm |-> realm]
      /\ \A s \in Requests \ {r} : reply'[s] = reply[s]
  BY DEF Reply
<1> QED
  BY <1>1 DEF AnswerFits

-----------------------------------------------------------------------------
(* The caches.                                                             *)

\* No call of the manifest cache puts anything else in it than it is given.
LEMMA ManifestsKeep ==
  ASSUME DOMAIN items = Refs, \A j \in Refs : items[j] \in {NoEntry, "whole"}, NEW k \in Refs,
         \/ Manifests!Get(k) \/ Manifests!Miss(k) \/ Manifests!Set(k, "whole")
         \/ Manifests!Refuse("whole") \/ UNCHANGED manifestVars
  PROVE  DOMAIN items' = Refs /\ \A j \in Refs : items'[j] \in {NoEntry, "whole"}
<1>1. CASE items' = items
  BY <1>1
<1>2. CASE Manifests!Set(k, "whole")
  <2>1. \E dropped : items' = [x \in Refs |-> IF x \in dropped THEN NoEntry
                                              ELSE [items EXCEPT ![k] = "whole"][x]]
    BY <1>2, Zenon DEF Manifests!Set
  <2>2. \A x \in Refs : [items EXCEPT ![k] = "whole"][x] \in {NoEntry, "whole"}
    OBVIOUS
  <2> QED
    BY <2>1, <2>2
<1> QED
  BY <1>1, <1>2
     DEF Manifests!Get, Manifests!Miss, Manifests!Refuse, Manifests!vars, manifestVars

\* Nor does any call of the /v2/ cache, nor the clock.
LEMMA ChallengeKept ==
  ASSUME DOMAIN challenges = {"/v2/"},
         challenges["/v2/"] # NoEntry => challenges["/v2/"].value = Registry,
         \/ \E realm : V2Cache!Get("/v2/", realm)
         \/ \E stored \in BOOLEAN : V2Cache!Set("/v2/", Registry, stored)
         \/ V2Cache!Tick
         \/ UNCHANGED challenges
  PROVE  /\ DOMAIN challenges' = {"/v2/"}
         /\ challenges'["/v2/"] # NoEntry => challenges'["/v2/"].value = Registry
<1>1. CASE \E realm : V2Cache!Get("/v2/", realm)
  BY <1>1 DEF V2Cache!Get
<1>2. ASSUME NEW stored \in BOOLEAN, V2Cache!Set("/v2/", Registry, stored)
      PROVE  /\ DOMAIN challenges' = {"/v2/"}
             /\ challenges'["/v2/"] # NoEntry => challenges'["/v2/"].value = Registry
  <2>1. DOMAIN V2Cache!MakeRoom("/v2/") = {"/v2/"}
        /\ V2Cache!MakeRoom("/v2/")["/v2/"] \in {NoEntry, challenges["/v2/"]}
    BY DEF V2Cache!MakeRoom, V2Cache!Sweep
  <2> QED
    BY <1>2, <2>1 DEF V2Cache!Set
<1>3. CASE V2Cache!Tick
  BY <1>3 DEF V2Cache!Tick, V2Cache!Unexpired
<1> QED
  BY <1>1, <1>2, <1>3

\* What the /v2/ cache finds is upstream's challenge.
LEMMA ChallengeFound ==
  ASSUME Shareable, NEW realm, V2Cache!Get("/v2/", realm), realm # NoEntry
  PROVE  realm = Registry
BY DEF Shareable, V2Cache!Get, V2Cache!Unexpired

-----------------------------------------------------------------------------
(* Before upstream is asked.                                               *)

LEMMA InitKeeps == Init => IInv
<1> SUFFICES ASSUME Init PROVE IInv
  OBVIOUS
<1>1. Types /\ Shareable
  BY DEF Init, Types, Shareable, Manifests!Init, V2Cache!Init
<1>2. Answered /\ Charges /\ AnswerFits /\ ChargedForUpstream
  BY DEF Init, Answered, Charges, AnswerFits, ChargedForUpstream, NoReply, None
<1>3. Timed
  BY Constants DEF Init, Timed, Storing
<1> QED
  BY <1>1, <1>2, <1>3 DEF IInv

LEMMA ArriveKeeps ==
  ASSUME IInv, NEW r \in Requests, NEW q \in Queries, Arrive(r, q)
  PROVE  IInv'
<1>1. Types' /\ Shareable'
  BY DEF IInv, Types, Shareable, Arrive, cacheVars, manifestVars
<1>2. Answered' /\ Charges' /\ AnswerFits' /\ ChargedForUpstream'
  BY DEF IInv, Types, Answered, Charges, AnswerFits, ChargedForUpstream, Arrive, NoReply, None
<1>3. Timed'
  BY DEF IInv, Types, Timed, Storing, Arrive, cacheVars
<1> QED
  BY <1>1, <1>2, <1>3 DEF IInv

LEMMA LookupKeeps ==
  ASSUME IInv, NEW r \in Requests, Lookup(r)
  PROVE  IInv'
<1>1. pc[r] = "lookup" /\ UNCHANGED <<query, charged, sent, answer, life, ttl, lag, redirects>>
  BY DEF Lookup, LookupOutside, LookupManifest, LookupRedirect, LookupChallenge, cacheVars
<1>2. query[r] \in Queries /\ query[r].ref \in Refs
  BY ProxyAssumption DEF IInv, Types, Query
<1>3. \/ NotFound(r)
      \/ \E body, realm :
           /\ Reply(r, body, realm)
           /\ body = "notModified" => query[r].condition = "same"
           /\ body = "partial" => query[r].condition = "range"
           /\ body = "empty" => query[r].method = "HEAD"
           /\ body = "challenge" => realm = query[r].host
  <2>1. CASE LookupOutside(r)
    BY <2>1 DEF LookupOutside
  <2>2. CASE LookupManifest(r)
    <3>1. items[query[r].ref] \in {NoEntry, "whole"}
      BY <1>2 DEF IInv, Shareable
    <3> QED
      BY <2>2, <3>1, <1>2, ConditionalFits DEF LookupManifest, Manifests!Get
  <2>3. CASE LookupRedirect(r)
    BY <2>3 DEF LookupRedirect
  <2>4. CASE LookupChallenge(r)
    <3>1. Rewritten(Registry, query[r].host) = query[r].host
      BY DEF Rewritten
    <3> QED
      BY <2>4, <3>1, ChallengeFound DEF LookupChallenge, IInv
  <2> QED
    BY <2>1, <2>2, <2>3, <2>4 DEF Lookup
<1>4. /\ pc' = [pc EXCEPT ![r] = "charge"] /\ reply' = reply
      \/ pc' = [pc EXCEPT ![r] = "done"]
  BY <1>3 DEF NotFound, Reply
<1>5. AnswerFits' /\ DOMAIN reply' = Requests
  BY <1>1, <1>3, ReplyFits DEF IInv, Types, NotFound, AnswerFits
<1>6. /\ DOMAIN items' = Refs /\ \A j \in Refs : items'[j] \in {NoEntry, "whole"}
  BY <1>2, ManifestsKeep
     DEF IInv, Types, Shareable, Lookup, LookupOutside, LookupManifest, LookupRedirect,
         LookupChallenge, cacheVars
<1>7. /\ DOMAIN challenges' = {"/v2/"}
      /\ challenges'["/v2/"] # NoEntry => challenges'["/v2/"].value = Registry
  BY ChallengeKept
     DEF IInv, Types, Shareable, Lookup, LookupOutside, LookupManifest, LookupRedirect,
         LookupChallenge, cacheVars
<1>8. Types' /\ Shareable'
  BY <1>1, <1>4, <1>5, <1>6, <1>7 DEF IInv, Types, Shareable
<1>9. Answered' /\ Charges' /\ ChargedForUpstream'
  BY <1>1, <1>4 DEF IInv, Types, Answered, Charges, ChargedForUpstream
<1>10. Timed'
  BY <1>1, <1>4 DEF IInv, Types, Timed, Storing
<1> QED
  BY <1>5, <1>8, <1>9, <1>10 DEF IInv

LEMMA ChargeKeeps ==
  ASSUME IInv, NEW r \in Requests, NEW allowed \in BOOLEAN, Charge(r, allowed)
  PROVE  IInv'
<1>1. pc[r] = "charge" /\ UNCHANGED <<query, sent, answer, life, ttl, lag, cacheVars>>
  BY DEF Charge
<1>2. \/ /\ pc' = [pc EXCEPT ![r] = "send"] \/ pc' = [pc EXCEPT ![r] = "token"]
         /\ charged' = [charged EXCEPT ![r] = IF Exempt(query[r]) THEN @ ELSE @ + 1]
         /\ reply' = reply
      \/ ~Exempt(query[r]) /\ Reply(r, "limited", None) /\ charged' = charged
  BY DEF Charge
<1>3. AnswerFits' /\ DOMAIN reply' = Requests
  BY <1>1, <1>2, ReplyFits DEF IInv, Types, AnswerFits
<1>4. Types' /\ Shareable'
  BY <1>1, <1>2, <1>3 DEF IInv, Types, Shareable, Reply, cacheVars, manifestVars
<1>5. Answered' /\ Charges' /\ ChargedForUpstream'
  BY <1>1, <1>2 DEF IInv, Types, Answered, Charges, ChargedForUpstream, Reply
<1>6. Timed'
  BY <1>1, <1>2 DEF IInv, Types, Timed, Storing, Reply, cacheVars
<1> QED
  BY <1>3, <1>4, <1>5, <1>6 DEF IInv

LEMMA TokenKeeps ==
  ASSUME IInv, NEW r \in Requests, NEW granted \in BOOLEAN, Token(r, granted)
  PROVE  IInv'
<1>1. pc[r] = "token" /\ UNCHANGED <<query, charged, answer, life, ttl, lag, cacheVars>>
  BY DEF Token
<1>2. \/ pc' = [pc EXCEPT ![r] = "send"] /\ UNCHANGED <<reply, sent>>
      \/ Reply(r, "error", None) /\ sent' = [sent EXCEPT ![r] = TRUE]
  BY DEF Token
<1>3. AnswerFits' /\ DOMAIN reply' = Requests
  BY <1>1, <1>2, ReplyFits DEF IInv, Types, AnswerFits
<1>4. Types' /\ Shareable'
  BY <1>1, <1>2, <1>3 DEF IInv, Types, Shareable, Reply, cacheVars, manifestVars
<1>5. Answered' /\ Charges' /\ ChargedForUpstream'
  BY <1>1, <1>2 DEF IInv, Types, Answered, Charges, ChargedForUpstream, Reply
<1>6. Timed'
  BY <1>1, <1>2 DEF IInv, Types, Timed, Storing, Reply, cacheVars
<1> QED
  BY <1>3, <1>4, <1>5, <1>6 DEF IInv

-----------------------------------------------------------------------------
(* Upstream's answer and what becomes of it.                               *)

LEMMA AnswerKeeps ==
  ASSUME IInv, NEW r \in Requests, NEW a \in Answers, NEW n \in Lives \cup {0}, Answer(r, a, n)
  PROVE  IInv'
<1>1. /\ pc[r] = "send" /\ a \in Upstream(query[r]) /\ n \in Nat
      /\ sent' = [sent EXCEPT ![r] = TRUE]
      /\ answer' = [answer EXCEPT ![r] = a]
      /\ life' = [life EXCEPT ![r] = n]
      /\ UNCHANGED <<query, reply, charged, ttl, lag, cacheVars>>
  BY Constants DEF Answer
<1>2. query[r] \in Queries
  BY DEF IInv, Types
<1>3. \/ pc' = [pc EXCEPT ![r] = "store"]
      \/ pc' = [pc EXCEPT ![r] = "clock"] /\ query[r].path = "blob"
  BY <1>1, <1>2, UpstreamFits DEF Answer
<1>4. Types' /\ Shareable'
  BY <1>1, <1>3 DEF IInv, Types, Shareable, cacheVars, manifestVars
<1>5. Answered' /\ Charges' /\ ChargedForUpstream' /\ AnswerFits'
  BY <1>1, <1>3 DEF IInv, Types, Answered, Charges, ChargedForUpstream, AnswerFits
<1>6. Timed'
  BY <1>1, <1>3 DEF IInv, Types, Timed, Storing, cacheVars
<1> QED
  BY <1>4, <1>5, <1>6 DEF IInv

LEMMA FailKeeps ==
  ASSUME IInv, NEW r \in Requests, Fail(r)
  PROVE  IInv'
<1>1. /\ pc[r] = "send" /\ Reply(r, "error", None) /\ sent' = [sent EXCEPT ![r] = TRUE]
      /\ UNCHANGED <<query, charged, answer, life, ttl, lag, cacheVars>>
  BY DEF Fail
<1>2. AnswerFits' /\ DOMAIN reply' = Requests
  BY <1>1, ReplyFits DEF IInv, Types
<1>3. Types' /\ Shareable'
  BY <1>1, <1>2 DEF IInv, Types, Shareable, Reply, cacheVars, manifestVars
<1>4. Answered' /\ Charges' /\ ChargedForUpstream'
  BY <1>1 DEF IInv, Types, Answered, Charges, ChargedForUpstream, Reply
<1>5. Timed'
  BY <1>1 DEF IInv, Types, Timed, Storing, Reply, cacheVars
<1> QED
  BY <1>2, <1>3, <1>4, <1>5 DEF IInv

LEMMA ReadClockKeeps ==
  ASSUME IInv, NEW r \in Requests, ReadClock(r)
  PROVE  IInv'
<1>1. /\ pc[r] = "clock" /\ pc' = [pc EXCEPT ![r] = "store"]
      /\ ttl' = [ttl EXCEPT ![r] = RedirectTTL(life[r])]
      /\ UNCHANGED <<query, reply, charged, sent, answer, life, lag, cacheVars>>
  BY DEF ReadClock
<1>2. /\ life[r] \in Nat /\ RedirectTTL(life[r]) \in Nat
      /\ RedirectTTL(life[r]) > 0 => life[r] >= RedirectTTL(life[r]) + Margin
  BY Constants DEF IInv, Types, RedirectTTL
<1> HIDE DEF RedirectTTL
<1>3. Types' /\ Shareable'
  BY <1>1, <1>2 DEF IInv, Types, Shareable, cacheVars, manifestVars
<1>4. Answered' /\ Charges' /\ ChargedForUpstream' /\ AnswerFits'
  BY <1>1 DEF IInv, Types, Answered, Charges, ChargedForUpstream, AnswerFits
<1>5. Timed'
  BY <1>1, <1>2, Constants DEF IInv, Types, Timed, Storing, cacheVars
<1> QED
  BY <1>3, <1>4, <1>5 DEF IInv

LEMMA StoreKeeps ==
  ASSUME IInv, NEW r \in Requests, NEW accepted \in BOOLEAN, Store(r, accepted)
  PROVE  IInv'
<1>1. /\ pc[r] = "store"
      /\ answer' = [answer EXCEPT ![r] = None] /\ life' = [life EXCEPT ![r] = 0]
      /\ ttl' = [ttl EXCEPT ![r] = 0] /\ lag' = [lag EXCEPT ![r] = 0]
      /\ UNCHANGED <<query, charged, sent>>
  BY DEF Store
<1>2. /\ query[r] \in Queries /\ query[r].ref \in Refs /\ answer[r] \in Upstream(query[r])
  BY <1>1, ProxyAssumption DEF IInv, Types, Answered, Query
<1>3. /\ answer[r] = "notModified" => query[r].condition = "same"
      /\ answer[r] = "partial" => query[r].condition = "range"
      /\ answer[r] = "empty" => query[r].method = "HEAD"
      /\ answer[r] = "challenge" => query[r].path = "v2"
      /\ answer[r] \in Answers
  BY <1>2, UpstreamFits
<1>4. \E body, realm :
        /\ Reply(r, body, realm)
        /\ body = "notModified" => query[r].condition = "same"
        /\ body = "partial" => query[r].condition = "range"
        /\ body = "empty" => query[r].method = "HEAD"
        /\ body = "challenge" => realm = query[r].host
  <2>1. Rewritten(Registry, query[r].host) = query[r].host
    BY DEF Rewritten
  <2>2. CASE Reply(r, "error", None)
    BY <2>2
  <2>3. CASE StoreManifest(r)
    BY <2>3, <1>3 DEF StoreManifest
  <2>4. CASE StoreRedirect(r, accepted)
    BY <2>4, <1>3 DEF StoreRedirect
  <2>5. CASE StoreChallenge(r)
    BY <2>1, <2>5, <1>3 DEF StoreChallenge
  <2>6. CASE RelayList(r) /\ Reply(r, answer[r], None)
    BY <2>6, <1>3 DEF RelayList
  <2> QED
    BY <2>2, <2>3, <2>4, <2>5, <2>6 DEF Store, RelayList
<1>5. AnswerFits' /\ DOMAIN reply' = Requests
  BY <1>1, <1>4, ReplyFits DEF IInv, Types
<1>6. pc' = [pc EXCEPT ![r] = "done"]
  BY <1>4 DEF Reply
<1>7. DOMAIN items' = Refs /\ \A j \in Refs : items'[j] \in {NoEntry, "whole"}
  <2>1. CASE StoreManifest(r)
    <3>1. \/ answer[r] = "whole" /\ (Manifests!Set(query[r].ref, answer[r]) \/ Manifests!Refuse(answer[r]))
          \/ UNCHANGED manifestVars
      BY <2>1 DEF StoreManifest, ManifestCacheable
    <3> QED
      BY <3>1, <1>2, ManifestsKeep DEF IInv, Types, Shareable
  <2>2. CASE UNCHANGED manifestVars
    BY <2>2 DEF IInv, Types, Shareable, manifestVars
  <2> QED
    BY <2>1, <2>2 DEF Store, StoreRedirect, StoreChallenge, RelayList, cacheVars
<1>8. /\ DOMAIN challenges' = {"/v2/"}
      /\ challenges'["/v2/"] # NoEntry => challenges'["/v2/"].value = Registry
  <2>1. \/ \E stored \in BOOLEAN : V2Cache!Set("/v2/", Registry, stored)
        \/ UNCHANGED challenges
    BY DEF Store, StoreManifest, StoreRedirect, StoreChallenge, RelayList, cacheVars, StoredRealm
  <2> QED
    BY <2>1, ChallengeKept DEF IInv, Types, Shareable
<1>9. \/ UNCHANGED redirects
      \/ /\ ttl[r] > 0
         /\ redirects' = [redirects EXCEPT ![query[r].ref] = [left |-> ttl[r], life |-> life[r]]]
  BY DEF Store, StoreManifest, StoreRedirect, StoreChallenge, RelayList, cacheVars
<1>10. Types'
  <2>1. pc' \in [Requests ->
          {"idle", "lookup", "charge", "token", "send", "clock", "store", "done"}]
    BY <1>6 DEF IInv, Types
  <2> QED
    BY <2>1, <1>1, <1>5, <1>7, <1>8, <1>9 DEF IInv, Types
<1>11. Answered' /\ Charges' /\ ChargedForUpstream'
  BY <1>1, <1>6 DEF IInv, Types, Answered, Charges, ChargedForUpstream
<1>12. Timed'
  <2>1. \A s \in Requests :
          /\ lag'[s] <= MaxLag
          /\ ~Storing(s)' => lag'[s] = 0
          /\ pc'[s] # "store" => ttl'[s] = 0
          /\ Storing(s)' => life'[s] >= ttl'[s] + Margin - lag'[s]
    BY <1>1, <1>6, Constants DEF IInv, Types, Timed, Storing
  <2>2. ttl[r] > 0 => /\ ttl[r] \in Nat /\ life[r] \in Nat
                      /\ life[r] >= ttl[r] + Margin - MaxLag
    BY <1>1, Constants DEF IInv, Types, Timed, Storing
  <2>3. \A k \in Refs : redirects'[k] # NoEntry =>
          /\ redirects'[k].left \in Nat /\ redirects'[k].life \in Nat
          /\ redirects'[k].left > 0
          /\ redirects'[k].life >= redirects'[k].left + Margin - MaxLag
    BY <1>2, <1>9, <2>2 DEF IInv, Types, Timed
  <2> QED
    BY <2>1, <2>3 DEF Timed
<1> QED
  BY <1>5, <1>7, <1>8, <1>10, <1>11, <1>12 DEF IInv, Shareable

-----------------------------------------------------------------------------
(* The caches and the clock.                                               *)

LEMMA EvictKeeps ==
  ASSUME IInv, NEW k \in Refs, Evict(k)
  PROVE  IInv'
<1>1. Types' /\ Shareable' /\ Answered' /\ Charges' /\ AnswerFits' /\ ChargedForUpstream'
  BY DEF IInv, Types, Shareable, Answered, Charges, AnswerFits, ChargedForUpstream, Evict,
         reqVars, manifestVars
<1>2. Timed'
  BY DEF IInv, Types, Timed, Storing, Evict, reqVars
<1> QED
  BY <1>1, <1>2 DEF IInv

LEMMA TickKeeps ==
  ASSUME IInv, Tick
  PROVE  IInv'
<1>1. /\ \A n \in Nat : Less(n) \in Nat /\ (n > 0 => Less(n) = n - 1)
  BY DEF Less
<1>2. /\ UNCHANGED <<pc, query, reply, charged, sent, answer, ttl, manifestVars>>
      /\ life' = [r \in Requests |-> Less(life[r])]
      /\ lag' = [r \in Requests |-> IF Storing(r) THEN lag[r] + 1 ELSE lag[r]]
      /\ \A r \in Requests : Storing(r) => lag[r] < MaxLag
  BY DEF Tick
<1> HIDE DEF Less
<1>3. /\ DOMAIN challenges' = {"/v2/"}
      /\ challenges'["/v2/"] # NoEntry => challenges'["/v2/"].value = Registry
  BY ChallengeKept DEF IInv, Types, Shareable, Tick
<1>4. Types' /\ Shareable'
  BY <1>1, <1>2, <1>3 DEF IInv, Types, Shareable, Tick, manifestVars
<1>5. Answered' /\ Charges' /\ AnswerFits' /\ ChargedForUpstream'
  BY <1>2 DEF IInv, Answered, Charges, AnswerFits, ChargedForUpstream
<1>6. Timed'
  <2>1. ASSUME NEW r \in Requests
        PROVE  /\ lag'[r] <= MaxLag
               /\ ~Storing(r)' => lag'[r] = 0
               /\ pc'[r] # "store" => ttl'[r] = 0
               /\ Storing(r)' => life'[r] >= ttl'[r] + Margin - lag'[r]
    BY <1>1, <1>2, Constants DEF IInv, Types, Timed, Storing
  <2>2. ASSUME NEW k \in Refs, redirects'[k] # NoEntry
        PROVE  /\ redirects'[k].left \in Nat /\ redirects'[k].life \in Nat
               /\ redirects'[k].left > 0
               /\ redirects'[k].life >= redirects'[k].left + Margin - MaxLag
    <3>1. /\ redirects[k] # NoEntry /\ redirects[k].left # 1
          /\ redirects'[k].left = redirects[k].left - 1
          /\ redirects'[k].life = Less(redirects[k].life)
      BY <2>2 DEF Tick
    <3> QED
      BY <3>1, <1>1, Constants DEF IInv, Timed
  <2> QED
    BY <2>1, <2>2 DEF Timed
<1> QED
  BY <1>3, <1>4, <1>5, <1>6 DEF IInv

-----------------------------------------------------------------------------
(* Theorems.                                                               *)

\* Every step of the handlers, the caches and the clock keeps the invariant.
THEOREM Invariance == Spec => []IInv
<1>1. Init => IInv
  BY InitKeeps
<1>2. IInv /\ [Next]_vars => IInv'
  <2> SUFFICES ASSUME IInv, [Next]_vars PROVE IInv'
    OBVIOUS
  <2>1. ASSUME NEW r \in Requests, Lookup(r) \/ Fail(r) \/ ReadClock(r) PROVE IInv'
    BY <2>1, LookupKeeps, FailKeeps, ReadClockKeeps
  <2>2. ASSUME NEW r \in Requests, NEW q \in Queries, Arrive(r, q) PROVE IInv'
    BY <2>2, ArriveKeeps
  <2>3. ASSUME NEW r \in Requests, NEW b \in BOOLEAN, Charge(r, b) \/ Token(r, b) \/ Store(r, b)
        PROVE  IInv'
    BY <2>3, ChargeKeeps, TokenKeeps, StoreKeeps
  <2>4. ASSUME NEW r \in Requests, NEW a \in Answers, NEW n \in Lives \cup {0}, Answer(r, a, n)
        PROVE  IInv'
    BY <2>4, AnswerKeeps
  <2>5. ASSUME NEW k \in Refs, Evict(k) PROVE IInv'
    BY <2>5, EvictKeeps
  <2>6. CASE Tick
    BY <2>6, TickKeeps
  <2>7. CASE UNCHANGED vars
    BY <2>7 DEF vars, reqVars, cacheVars, manifestVars, IInv, Types, Shareable, Answered, Charges,
                Timed, Storing, AnswerFits, ChargedForUpstream
  <2> QED
    BY <2>1, <2>2, <2>3, <2>4, <2>5, <2>6, <2>7 DEF Next
<1> QED
  BY <1>1, <1>2, PTL DEF Spec

\* Whichever requests filled the caches, and however they interleaved, each
\* client gets an answer to its own request.
THEOREM AnswerFitsCorrect == Spec => []AnswerFits
<1>1. IInv => AnswerFits
  BY DEF IInv
<1> QED
  BY <1>1, Invariance, PTL

\* No request is charged that is answered from a cache, none twice, and none
\* that needs upstream for nothing, blobs apart.
THEOREM ChargedForUpstreamCorrect == Spec => []ChargedForUpstream
<1>1. IInv => ChargedForUpstream
  BY DEF IInv
<1> QED
  BY <1>1, Invariance, PTL

\* Whatever the life of a signature, the margin and the longest TTL are, and
\* however long it takes to store a redirect, one that is found can be followed.
THEOREM RedirectAliveCorrect == Spec => []RedirectAlive
<1>1. IInv => RedirectAlive
  BY Constants DEF IInv, Timed, RedirectAlive
<1> QED
  BY <1>1, Invariance, PTL

-----------------------------------------------------------------------------
(* The handlers use their caches as the caches' own modules say they work. *)

\* All that the handlers do to the manifest cache are calls of its methods, so
\* what holds of ManifestCache holds of it here.
THEOREM UsesManifestCache == Spec => Manifests!Spec
<1>1. Init => Manifests!Init
  BY DEF Init
<1>2. IInv /\ [Next]_vars => [Manifests!Next]_(Manifests!vars)
  <2> SUFFICES ASSUME IInv, [Next]_vars, ~UNCHANGED manifestVars PROVE Manifests!Next
    BY DEF manifestVars, Manifests!vars
  <2>1. ASSUME NEW r \in Requests, Lookup(r) PROVE Manifests!Next
    <3>1. query[r].ref \in Refs
      BY ProxyAssumption DEF IInv, Types, Query
    <3>2. Manifests!Get(query[r].ref) \/ Manifests!Miss(query[r].ref)
      BY <2>1 DEF Lookup, LookupOutside, LookupManifest, LookupRedirect, LookupChallenge, cacheVars
    <3> QED
      BY <3>1, <3>2 DEF Manifests!Next
  <2>2. ASSUME NEW r \in Requests, NEW b \in BOOLEAN, Store(r, b) PROVE Manifests!Next
    <3>1. query[r].ref \in Refs
      BY ProxyAssumption DEF IInv, Types, Query
    <3>2. answer[r] = "whole"
          /\ (Manifests!Set(query[r].ref, answer[r]) \/ Manifests!Refuse(answer[r]))
      BY <2>2 DEF Store, StoreManifest, StoreRedirect, StoreChallenge, RelayList, cacheVars,
                  ManifestCacheable
    <3>3. answer[r] \in Answers
      BY <3>2 DEF Answers, Relayed
    <3> QED
      BY <3>1, <3>2, <3>3 DEF Manifests!Next
  <2> QED
    BY <2>1, <2>2
       DEF Next, vars, cacheVars, Fail, ReadClock, Arrive, Charge, Token, Answer, Evict, Tick
<1> QED
  BY <1>1, <1>2, Invariance, PTL DEF Spec, Manifests!Spec

\* All that the handlers do to the /v2/ cache are calls of its methods and the
\* passing of time, so what is proved of ResponseCache holds of it here, where
\* ProxyAssumption implies CacheAssumption.
THEOREM UsesResponseCache == Spec => V2Cache!Spec
<1>1. Init => V2Cache!Init
  BY DEF Init
<1>2. [Next]_vars => [V2Cache!Next]_challenges
  <2> SUFFICES ASSUME [Next]_vars, ~UNCHANGED challenges PROVE V2Cache!Next
    OBVIOUS
  <2>1. ASSUME NEW r \in Requests, Lookup(r) PROVE V2Cache!Next
    <3>1. \E realm \in Hosts \cup {Registry, NoEntry} : V2Cache!Get("/v2/", realm)
      BY <2>1 DEF Lookup, LookupOutside, LookupManifest, LookupRedirect, LookupChallenge, cacheVars
    <3> QED
      BY <3>1 DEF V2Cache!Next
  <2>2. ASSUME NEW r \in Requests, NEW b \in BOOLEAN, Store(r, b) PROVE V2Cache!Next
    <3>1. \E stored \in BOOLEAN : V2Cache!Set("/v2/", Registry, stored)
      BY <2>2 DEF Store, StoreManifest, StoreRedirect, StoreChallenge, RelayList, cacheVars,
                  StoredRealm
    <3> QED
      BY <3>1 DEF V2Cache!Next
  <2>3. CASE Tick
    BY <2>3 DEF Tick, V2Cache!Next
  <2> QED
    BY <2>1, <2>2, <2>3
       DEF Next, vars, cacheVars, Fail, ReadClock, Arrive, Charge, Token, Answer, Evict
<1> QED
  BY <1>1, <1>2, PTL DEF Spec, V2Cache!Spec

-----------------------------------------------------------------------------
(* Types.  Those of the caches come from the caches' own modules.          *)

ManifestTheorems == INSTANCE ManifestCacheProofs WITH
  Keys <- Refs, Values <- Answers, Size <- [a \in Answers |-> 1]

LEMMA ManifestCacheTyped == Spec => []Manifests!TypeOK
<1>1. ManifestTheorems!ManifestAssumption
  <2>1. [a \in Answers |-> 1] \in [Answers -> Nat]
    OBVIOUS
  <2> QED
    BY <2>1, ProxyAssumption DEF ManifestTheorems!ManifestAssumption
<1>2. /\ Manifests!Init => ManifestTheorems!Init
      /\ [Manifests!Next]_(Manifests!vars) => [ManifestTheorems!Next]_(ManifestTheorems!vars)
  BY DEF Manifests!Set, ManifestTheorems!Set, Manifests!Kept,
         ManifestTheorems!Kept, Manifests!After, ManifestTheorems!After,
         Manifests!ToFront, ManifestTheorems!ToFront, Manifests!Without,
         ManifestTheorems!Without, Manifests!WithoutOld,
         ManifestTheorems!WithoutOld, Manifests!Range, ManifestTheorems!Range,
         Manifests!RemoveAt, ManifestTheorems!RemoveAt, Manifests!Max,
         ManifestTheorems!Max, Manifests!SumFunctionOnSet,
         ManifestTheorems!SumFunctionOnSet, Manifests!FoldFunctionOnSet,
         ManifestTheorems!FoldFunctionOnSet, Manifests!MapThenFoldSet,
         ManifestTheorems!MapThenFoldSet, Manifests!Init, ManifestTheorems!Init,
         Manifests!Next, ManifestTheorems!Next, Manifests!Get,
         ManifestTheorems!Get, Manifests!Touched, ManifestTheorems!Touched,
         Manifests!Miss, ManifestTheorems!Miss, Manifests!Refuse,
         ManifestTheorems!Refuse, Manifests!vars, ManifestTheorems!vars
<1>3. Manifests!Spec => ManifestTheorems!Spec
  BY <1>2, PTL DEF Manifests!Spec, ManifestTheorems!Spec
<1>4. ManifestTheorems!Spec => []ManifestTheorems!TypeOK
  BY <1>1, ManifestTheorems!TypeCorrect, PTL
<1>5. ManifestTheorems!TypeOK => Manifests!TypeOK
  BY DEF ManifestTheorems!TypeOK, Manifests!TypeOK
<1> QED
  BY <1>3, <1>4, <1>5, UsesManifestCache, PTL

LEMMA ChallengesTyped == Spec => []V2Cache!TypeOK
<1>1. V2Cache!Init => V2Cache!TypeOK
  BY DEF V2Cache!Init, V2Cache!TypeOK
<1>2. V2Cache!TypeOK /\ [V2Cache!Next]_challenges => V2Cache!TypeOK'
  <2> SUFFICES ASSUME V2Cache!TypeOK, V2Cache!Next PROVE V2Cache!TypeOK'
    BY DEF V2Cache!TypeOK
  <2>1. V2TTL \in Nat \ {0}
    BY ProxyAssumption
  <2>2. ASSUME NEW k \in {"/v2/"}, NEW a, V2Cache!Get(k, a) PROVE V2Cache!TypeOK'
    BY <2>2 DEF V2Cache!Get, V2Cache!TypeOK
  <2>3. ASSUME NEW k \in {"/v2/"}, NEW v \in Hosts \cup {Registry}, NEW b, V2Cache!Set(k, v, b)
        PROVE  V2Cache!TypeOK'
    <3>1. V2Cache!MakeRoom(k) \in [{"/v2/"} -> V2Cache!Entry \cup {NoEntry}]
      BY DEF V2Cache!MakeRoom, V2Cache!Sweep, V2Cache!TypeOK
    <3>2. [value |-> v, left |-> V2TTL] \in V2Cache!Entry
      BY <2>1 DEF V2Cache!Entry
    <3> QED
      BY <2>3, <3>1, <3>2 DEF V2Cache!Set, V2Cache!TypeOK
  <2>4. CASE V2Cache!Tick
    <3>1. ASSUME NEW e \in V2Cache!Entry, e.left > 0 PROVE [e EXCEPT !.left = @ - 1] \in V2Cache!Entry
      BY <2>1, <3>1 DEF V2Cache!Entry
    <3> QED
      BY <2>4, <3>1 DEF V2Cache!Tick, V2Cache!Unexpired, V2Cache!TypeOK
  <2> QED
    BY <2>2, <2>3, <2>4 DEF V2Cache!Next
<1> QED
  BY <1>1, <1>2, UsesResponseCache, PTL DEF V2Cache!Spec

\* What the handlers' own state ranges over.
Ranges ==
  /\ reply \in [Requests -> [body : Relayed \cup {None, "error", "limited", "notFound"},
                              realm : Hosts \cup {Registry, None}]]
  /\ charged \in [Requests -> 0..1]
  /\ life \in [Requests -> TimesLeft]
  /\ ttl \in [Requests -> 0..MaxTTL]
  /\ redirects \in [Refs -> [left : 1..MaxTTL, life : TimesLeft] \cup {NoEntry}]

LEMMA LessLeft ==
  /\ TimesLeft \subseteq Nat /\ 0 \in TimesLeft /\ Lives \cup {0} \subseteq TimesLeft
  /\ \A n \in TimesLeft : Less(n) \in TimesLeft
<1>1. \A n \in Lives \cup {0} : n \in Nat
  BY ProxyAssumption
<1>2. ASSUME NEW n \in TimesLeft PROVE Less(n) \in TimesLeft /\ n \in Nat
  <2>1. PICK m \in Lives \cup {0} : n \in 0..m
    BY DEF TimesLeft
  <2>2. Less(n) \in 0..m
    BY <1>1, <2>1 DEF Less
  <2> QED
    BY <1>1, <2>1, <2>2 DEF TimesLeft
<1>3. ASSUME NEW n \in Lives \cup {0} PROVE n \in TimesLeft
  <2>1. n \in 0..n
    BY <1>1
  <2> QED
    BY <2>1 DEF TimesLeft
<1> QED
  BY <1>2, <1>3

Bodies == Relayed \cup {None, "error", "limited", "notFound"}
Realms == Hosts \cup {Registry, None}

LEMMA ReplyRanges ==
  ASSUME Ranges, NEW r \in Requests, NEW body \in Bodies, NEW realm \in Realms,
         Reply(r, body, realm)
  PROVE  reply' \in [Requests -> [body : Bodies, realm : Realms]]
<1>1. [body |-> body, realm |-> realm] \in [body : Bodies, realm : Realms]
  OBVIOUS
<1>2. reply \in [Requests -> [body : Bodies, realm : Realms]]
  BY DEF Ranges, Bodies, Realms
<1> HIDE DEF Bodies, Realms
<1> QED
  BY <1>1, <1>2 DEF Reply

\* Each step of a handler but the last leaves the blob cache alone.
LEMMA AskingRanges ==
  ASSUME IInv, Ranges, NEW r \in Requests,
         \/ \E q \in Queries : Arrive(r, q)
         \/ Lookup(r)
         \/ \E b \in BOOLEAN : Charge(r, b) \/ Token(r, b)
         \/ \E a \in Answers, n \in Lives \cup {0} : Answer(r, a, n)
         \/ Fail(r)
         \/ ReadClock(r)
  PROVE  Ranges'
<1>1. \/ reply' = reply
      \/ \E body \in Bodies, realm \in Realms : Reply(r, body, realm)
      \/ reply' = [reply EXCEPT ![r] = NoReply]
  <2>1. ASSUME Lookup(r), reply' # reply
        PROVE  \E body \in Bodies, realm \in Realms : Reply(r, body, realm)
    <3>1. query[r] \in Queries /\ query[r].ref \in Refs /\ query[r].host \in Hosts
      BY ProxyAssumption DEF IInv, Types, Query
    <3>2. CASE LookupManifest(r)
      <4>1. items[query[r].ref] \in {NoEntry, "whole"}
        BY <3>1 DEF IInv, Shareable
      <4> QED
        BY <2>1, <3>1, <3>2, <4>1, ConditionalFits
           DEF LookupManifest, NotFound, Manifests!Get, Bodies, Realms, Relayed
    <3>3. CASE LookupChallenge(r)
      <4>1. Rewritten(Registry, query[r].host) = query[r].host
        BY DEF Rewritten
      <4> QED
        BY <2>1, <3>1, <3>3, <4>1, ChallengeFound
           DEF LookupChallenge, NotFound, IInv, Bodies, Realms, Relayed
    <3> QED
      BY <2>1, <3>2, <3>3
         DEF Lookup, LookupOutside, LookupRedirect, NotFound, Bodies, Realms, Relayed
  <2> QED
    BY <2>1 DEF Arrive, Charge, Token, Answer, Fail, ReadClock, Bodies, Realms
<1>2. reply' \in [Requests -> [body : Bodies, realm : Realms]]
  <2>1. NoReply \in [body : Bodies, realm : Realms]
    BY DEF NoReply, Bodies, Realms
  <2>2. reply \in [Requests -> [body : Bodies, realm : Realms]]
    BY DEF Ranges, Bodies, Realms
  <2> HIDE DEF Bodies, Realms
  <2> QED
    BY <1>1, <2>1, <2>2, ReplyRanges
<1>3. charged' \in [Requests -> 0..1]
  <2>1. charged \in [Requests -> 0..1]
    BY DEF Ranges
  <2>2. pc[r] = "charge" => charged[r] = 0
    BY DEF IInv, Charges
  <2>3. \/ charged' = charged
        \/ charged' = [charged EXCEPT ![r] = 0]
        \/ charged[r] = 0 /\ charged' = [charged EXCEPT ![r] = charged[r] + 1]
    BY <2>1, <2>2 DEF Arrive, Lookup, Charge, Token, Answer, Fail, ReadClock
  <2> QED
    BY <2>1, <2>3
<1>4. life' \in [Requests -> TimesLeft]
  <2>1. life' = life \/ \E n \in TimesLeft : life' = [life EXCEPT ![r] = n]
    BY LessLeft DEF Arrive, Lookup, Charge, Token, Answer, Fail, ReadClock
  <2> QED
    BY <2>1 DEF Ranges
<1>5. ttl' \in [Requests -> 0..MaxTTL]
  <2>1. RedirectTTL(life[r]) \in 0..MaxTTL
    <3>1. life[r] \in Nat
      BY DEF IInv, Types
    <3> QED
      BY <3>1, Constants DEF RedirectTTL
  <2>2. ttl' = ttl \/ ttl' = [ttl EXCEPT ![r] = RedirectTTL(life[r])]
    BY DEF Arrive, Lookup, Charge, Token, Answer, Fail, ReadClock
  <2> QED
    BY <2>1, <2>2 DEF Ranges
<1>6. redirects' = redirects
  BY DEF Arrive, Lookup, LookupOutside, LookupManifest, LookupRedirect, LookupChallenge, Charge,
         Token, Answer, Fail, ReadClock, cacheVars
<1> QED
  BY <1>2, <1>3, <1>4, <1>5, <1>6 DEF Ranges, Bodies, Realms

LEMMA StoreRanges ==
  ASSUME IInv, Ranges, NEW r \in Requests, NEW b \in BOOLEAN, Store(r, b)
  PROVE  Ranges'
<1>1. query[r] \in Queries /\ query[r].ref \in Refs /\ query[r].host \in Hosts
  BY ProxyAssumption DEF IInv, Types, Query
<1>2. answer[r] \in Answers
  BY <1>1, UpstreamFits DEF IInv, Answered, Store
<1>3. \E body \in Bodies, realm \in Realms : Reply(r, body, realm)
  <2>1. answer[r] # "cut" => answer[r] \in Bodies
    BY <1>2 DEF Answers, Bodies
  <2>2. "error" \in Bodies /\ None \in Realms /\ Rewritten(Registry, query[r].host) \in Realms
    BY <1>1 DEF Bodies, Realms, Rewritten
  <2> QED
    BY <2>1, <2>2 DEF Store, StoreManifest, StoreRedirect, StoreChallenge, RelayList
<1>4. reply' \in [Requests -> [body : Bodies, realm : Realms]]
  BY <1>3, ReplyRanges
<1>5. charged' = charged /\ life' = [life EXCEPT ![r] = 0] /\ ttl' = [ttl EXCEPT ![r] = 0]
  BY DEF Store
<1>6. redirects' \in [Refs -> [left : 1..MaxTTL, life : TimesLeft] \cup {NoEntry}]
  <2>1. \/ redirects' = redirects
        \/ /\ ttl[r] > 0
           /\ redirects' = [redirects EXCEPT ![query[r].ref] = [left |-> ttl[r], life |-> life[r]]]
    BY DEF Store, StoreManifest, StoreRedirect, StoreChallenge, RelayList, cacheVars
  <2>2. ttl[r] > 0 => [left |-> ttl[r], life |-> life[r]] \in [left : 1..MaxTTL, life : TimesLeft]
    BY Constants DEF Ranges
  <2> QED
    BY <1>1, <2>1, <2>2 DEF Ranges
<1> QED
  BY <1>4, <1>5, <1>6, LessLeft, Constants DEF Ranges, Bodies, Realms

LEMMA TickRanges ==
  ASSUME IInv, Ranges, Tick
  PROVE  Ranges'
<1>1. reply' = reply /\ charged' = charged /\ ttl' = ttl
  BY DEF Tick
<1>2. life' \in [Requests -> TimesLeft]
  BY LessLeft DEF Tick, Ranges
<1>3. redirects' \in [Refs -> [left : 1..MaxTTL, life : TimesLeft] \cup {NoEntry}]
  <2> DEFINE E == [left : 1..MaxTTL, life : TimesLeft]
  <2>1. ASSUME NEW e \in E, e.left # 1 PROVE [left |-> e.left - 1, life |-> Less(e.life)] \in E
    <3>1. e.left \in 1..MaxTTL /\ e.life \in TimesLeft
      OBVIOUS
    <3>2. e.left - 1 \in 1..MaxTTL
      BY <2>1, <3>1, Constants
    <3>3. Less(e.life) \in TimesLeft
      BY <3>1, LessLeft
    <3> QED
      BY <3>2, <3>3
  <2>2. redirects \in [Refs -> E \cup {NoEntry}]
    BY DEF Ranges
  <2> HIDE DEF E
  <2>3. redirects' = [k \in Refs |->
          IF redirects[k] = NoEntry \/ redirects[k].left = 1 THEN NoEntry
          ELSE [left |-> redirects[k].left - 1, life |-> Less(redirects[k].life)]]
    BY DEF Tick
  <2>4. redirects' \in [Refs -> E \cup {NoEntry}]
    BY <2>1, <2>2, <2>3
  <2> QED
    BY <2>4 DEF E
<1> QED
  BY <1>1, <1>2, <1>3 DEF Ranges

LEMMA RangesStep == IInv /\ Ranges /\ [Next]_vars => Ranges'
<1> SUFFICES ASSUME IInv, Ranges, [Next]_vars PROVE Ranges'
  OBVIOUS
<1>1. CASE UNCHANGED vars
  BY <1>1 DEF vars, reqVars, cacheVars, Ranges
<1>2. ASSUME NEW k \in Refs, Evict(k) PROVE Ranges'
  BY <1>2 DEF Evict, reqVars, Ranges
<1> QED
  BY <1>1, <1>2, AskingRanges, StoreRanges, TickRanges DEF Next

\* Every request is at one of the handler's steps with an answer the handlers
\* give, and the three caches hold entries of their kinds, within their limits.
THEOREM TypeCorrect == Spec => []TypeOK
<1>1. Init => Ranges
  BY LessLeft, Constants DEF Init, Ranges, NoReply
<1>2. Spec => []Ranges
  BY <1>1, RangesStep, Invariance, PTL DEF Spec
<1>3. IInv /\ Ranges /\ Manifests!TypeOK /\ V2Cache!TypeOK => TypeOK
  <2> SUFFICES ASSUME IInv, Ranges, Manifests!TypeOK, V2Cache!TypeOK PROVE TypeOK
    OBVIOUS
  <2>1. lag \in [Requests -> 0..MaxLag]
    BY Constants DEF IInv, Types, Timed
  <2> QED
    BY <2>1 DEF TypeOK, IInv, Types, Ranges
<1> QED
  BY <1>2, <1>3, Invariance, ManifestCacheTyped, ChallengesTyped, PTL
=============================================================================
