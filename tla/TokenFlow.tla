------------------------------ MODULE TokenFlow ------------------------------
(***************************************************************************)
(* How requests obtain an anonymous pull token                             *)
(* (pkg/redirect/anonymous_token.go, called from redirect.go).             *)
(*                                                                         *)
(* Request goroutines look the token URL up in the cache, are charged by   *)
(* the rate limiter, and on a miss join one shared upstream fetch per URL  *)
(* (a singleflight.Group).  The fetch runs in a goroutine of its own, on a *)
(* context that outlives the request that started it.  Clients disconnect  *)
(* at any moment, upstream answers, fails or stalls, and the clock runs.   *)
(*                                                                         *)
(* Requests is a set of slots: a slot whose request is done is used again, *)
(* so behaviours are unbounded.  The rate limiter is any sequence of       *)
(* verdicts.  A step of a goroutine stands for its code up to the next     *)
(* point where another goroutine, the clock or the network can interfere.  *)
(***************************************************************************)
EXTENDS Naturals, FiniteSets

CONSTANTS
  Requests,    \* concurrent requests
  Urls,        \* upstream token URLs, scope and service included
  Kinds,       \* the kinds of request that arrive
  Answers,     \* the answers that upstream gives
  TTL,         \* anonymousTokenTTL
  Timeout,     \* Client.Timeout of the client that fetches tokens
  Lifetime,    \* the shortest lifetime of an upstream token
  MaxEntries,  \* tokenCacheMaxEntries
  NoEntry,     \* no cached answer
  Background   \* a fetch context that no client cancels

\* client: anonymous GET /token; bypass: any other /token request;
\* proxy, blob: a /v2/ request without Authorization, blob being rate exempt.
AllKinds == {"client", "bypass", "proxy", "blob"}

\* good, tokenless, malformed: 200 with a token, with JSON that has none, and
\* with no JSON; oversized: 200 with a token and more than 64 KiB; refused:
\* any other status.
AllAnswers == {"good", "tokenless", "malformed", "oversized", "refused"}

ASSUME FlowAssumption ==
  /\ Kinds \subseteq AllKinds
  /\ Answers \subseteq AllAnswers
  /\ TTL \in Nat \ {0}
  /\ Timeout \in Nat \ {0}
  /\ Lifetime \in Nat
  /\ TTL + Timeout <= Lifetime
  /\ MaxEntries \in Nat
  /\ IsFiniteSet(Urls)
  /\ NoEntry \notin Answers \cup [value : Answers, left : 0..TTL]
  /\ Background \notin Requests

VARIABLES
  pc, kind, url,  \* where each request is, what it is and the URL it needs
  canceled,       \* its client has gone: ctx.Done() is closed
  charged,        \* how often the rate limiter took a token for it
  inbox,          \* its DoChan channel, which holds at most one result
  reply,          \* what its client got
  phase,          \* the running call of each URL's singleflight key
  ctx, timer,     \* the context of its fetch and the time its client has left
  waiters,        \* requests whose channels the call will send to
  result,         \* what the call returned
  cache,          \* tokenCache
  age             \* time since the fetch that got the cached answer was sent

reqVars == <<pc, kind, url, canceled, charged, inbox, reply>>
callVars == <<phase, ctx, timer, waiters, result>>
vars == <<reqVars, callVars, cache, age>>

Cache == INSTANCE ResponseCache WITH
  Keys <- Urls, Values <- Answers, entries <- cache

Errors == {"error", "timeout", "canceled"}
Results == Answers \cup Errors
None == "none"

TypeOK ==
  /\ pc \in [Requests -> {"idle", "lookup", "charge", "join", "wait", "direct", "done"}]
  /\ kind \in [Requests -> AllKinds]
  /\ url \in [Requests -> Urls]
  /\ canceled \in [Requests -> BOOLEAN]
  /\ charged \in [Requests -> 0..1]
  /\ inbox \in [Requests -> Results \cup {None}]
  /\ reply \in [Requests -> Results \cup {None, "limited", "answered"}]
  /\ phase \in [Urls -> {None, "recheck", "fetch", "finish"}]
  /\ ctx \in [Urls -> Requests \cup {Background}]
  /\ timer \in [Urls -> 0..Timeout]
  /\ waiters \in [Urls -> SUBSET Requests]
  /\ result \in [Urls -> Results \cup {None}]
  /\ Cache!TypeOK
  /\ age \in [Urls -> 0..Lifetime]

Init ==
  /\ pc = [r \in Requests |-> "idle"]
  /\ kind \in [Requests -> Kinds]
  /\ url \in [Requests -> Urls]
  /\ canceled = [r \in Requests |-> FALSE]
  /\ charged = [r \in Requests |-> 0]
  /\ inbox = [r \in Requests |-> None]
  /\ reply = [r \in Requests |-> None]
  /\ phase = [u \in Urls |-> None]
  /\ ctx = [u \in Urls |-> Background]
  /\ timer = [u \in Urls |-> 0]
  /\ waiters = [u \in Urls |-> {}]
  /\ result = [u \in Urls |-> None]
  /\ Cache!Init
  /\ age = [u \in Urls |-> 0]

-----------------------------------------------------------------------------
(* Slips the code could have made, used to test the properties.            *)

\* Every 200 within the size limit is cached, whatever its body.
CacheAny200(a) == a \in {"good", "tokenless", "malformed"}

\* The fetch uses its leader's context.
LeaderCtx(r) == r

\* An anonymous /token client joins a fetch without being charged.
UnchargedLookup(r) ==
  /\ pc[r] = "lookup"
  /\ cache[url[r]] = NoEntry
  /\ pc' = [pc EXCEPT ![r] = "join"]
  /\ UNCHANGED <<kind, url, canceled, charged, inbox, reply, callVars, cache, age>>

\* Every miss is charged, a proxied request's second time.
RechargingLookup(r) ==
  /\ pc[r] = "lookup"
  /\ pc' = [pc EXCEPT ![r] = "charge"]
  /\ UNCHANGED <<kind, url, canceled, charged, inbox, reply, callVars, cache, age>>

\* A call does not look in the cache before it fetches.
UncheckedFetch(u) ==
  /\ phase[u] = "recheck"
  /\ phase' = [phase EXCEPT ![u] = "fetch"]
  /\ timer' = [timer EXCEPT ![u] = Timeout]
  /\ UNCHANGED <<reqVars, ctx, waiters, result, cache, age>>

\* A follower's channel is not kept.
LostFollower(r) ==
  /\ pc[r] = "join" /\ ~canceled[r]
  /\ pc' = [pc EXCEPT ![r] = "wait"]
  /\ \/ /\ phase[url[r]] = None
        /\ phase' = [phase EXCEPT ![url[r]] = "recheck"]
        /\ waiters' = [waiters EXCEPT ![url[r]] = {r}]
     \/ phase[url[r]] # None /\ UNCHANGED <<phase, waiters>>
  /\ UNCHANGED <<kind, url, canceled, charged, inbox, reply, ctx, timer, result, cache, age>>

\* The client that fetches tokens has no timeout.
NoTimeOut(u) == FALSE

\* A request waits for the shared fetch without watching its own context.
DeafWait(r) == FALSE
-----------------------------------------------------------------------------
(* What the code decides from an answer.                                   *)

\* decodeToken fails only on a body that is not JSON.
Decodes(a) == a \in {"good", "tokenless", "oversized"}

\* Stored: a 200 that is not too large and decodes.
Cacheable(a) == Decodes(a) /\ a # "oversized"

\* getToken goes on with a 200 that decodes; anything else is an error reply.
Usable(a) == Decodes(a)

Exempt(k) == k = "blob"

Client(r) == kind[r] = "client"

-----------------------------------------------------------------------------
(* Steps of a request.                                                     *)

\* A request arrives in a free slot.  The /token handler of an anonymous
\* client looks in the cache first; every other handler is charged first.
Arrive(r, k, u) ==
  /\ pc[r] \in {"idle", "done"}
  /\ pc' = [pc EXCEPT ![r] = IF k = "client" THEN "lookup" ELSE "charge"]
  /\ kind' = [kind EXCEPT ![r] = k]
  /\ url' = [url EXCEPT ![r] = u]
  /\ canceled' = [canceled EXCEPT ![r] = FALSE]
  /\ charged' = [charged EXCEPT ![r] = 0]
  /\ reply' = [reply EXCEPT ![r] = None]
  /\ UNCHANGED <<inbox, callVars, cache, age>>

\* The client is given the answer as it is; a proxied request goes upstream
\* with its token, or is refused if there is none to be had.
Settle(r, res) ==
  IF ~Client(r) /\ res \in Answers /\ Usable(res)
  THEN pc' = [pc EXCEPT ![r] = "direct"] /\ UNCHANGED reply
  ELSE pc' = [pc EXCEPT ![r] = "done"] /\ reply' = [reply EXCEPT ![r] = res]

\* cachedToken
Lookup(r) ==
  /\ pc[r] = "lookup"
  /\ \E a \in Answers \cup {NoEntry} :
       /\ Cache!Get(url[r], a)
       /\ IF a # NoEntry
          THEN Settle(r, a)
          ELSE /\ pc' = [pc EXCEPT ![r] = IF Client(r) THEN "charge" ELSE "join"]
               /\ UNCHANGED reply
  /\ UNCHANGED <<kind, url, canceled, charged, inbox, callVars, age>>

\* allowRequest
Charge(r, allowed) ==
  /\ pc[r] = "charge"
  /\ Exempt(kind[r]) => allowed
  /\ IF allowed
     THEN /\ pc' = [pc EXCEPT ![r] = CASE Client(r)          -> "join"
                                       [] kind[r] = "bypass" -> "direct"
                                       [] OTHER              -> "lookup"]
          /\ charged' = [charged EXCEPT ![r] = IF Exempt(kind[r]) THEN @ ELSE @ + 1]
          /\ UNCHANGED reply
     ELSE /\ pc' = [pc EXCEPT ![r] = "done"]
          /\ reply' = [reply EXCEPT ![r] = "limited"]
          /\ UNCHANGED charged
  /\ UNCHANGED <<kind, url, canceled, inbox, callVars, cache, age>>

\* context.WithoutCancel: the fetch does not see its leader's disconnect.
FetchCtx(r) == Background

\* The head of fetchAnonymousToken: a client that has gone does not join.
Leave(r) ==
  /\ pc[r] = "join" /\ canceled[r]
  /\ Settle(r, "canceled")
  /\ UNCHANGED <<kind, url, canceled, charged, inbox, callVars, cache, age>>

\* DoChan starts a call or adds a channel to the one that is running.
Join(r) ==
  /\ pc[r] = "join" /\ ~canceled[r]
  /\ pc' = [pc EXCEPT ![r] = "wait"]
  /\ IF phase[url[r]] = None
     THEN /\ phase' = [phase EXCEPT ![url[r]] = "recheck"]
          /\ ctx' = [ctx EXCEPT ![url[r]] = FetchCtx(r)]
     ELSE UNCHANGED <<phase, ctx>>
  /\ waiters' = [waiters EXCEPT ![url[r]] = @ \cup {r}]
  /\ UNCHANGED <<kind, url, canceled, charged, inbox, reply, timer, result, cache, age>>

\* The two arms of the select; when both are ready either may be taken.
Receive(r) ==
  /\ pc[r] = "wait" /\ inbox[r] # None
  /\ Settle(r, inbox[r])
  /\ inbox' = [inbox EXCEPT ![r] = None]
  /\ UNCHANGED <<kind, url, canceled, charged, callVars, cache, age>>

\* The channel is dropped with whatever it holds or will be sent.
Abandon(r) ==
  /\ pc[r] = "wait" /\ canceled[r]
  /\ Settle(r, "canceled")
  /\ inbox' = [inbox EXCEPT ![r] = None]
  /\ waiters' = [waiters EXCEPT ![url[r]] = @ \ {r}]
  /\ UNCHANGED <<kind, url, canceled, charged, phase, ctx, timer, result, cache, age>>

\* The request's own upstream round trip, which carries its own context.
Direct(r, outcome) ==
  /\ pc[r] = "direct"
  /\ outcome = "canceled" => canceled[r]
  /\ pc' = [pc EXCEPT ![r] = "done"]
  /\ reply' = [reply EXCEPT ![r] = outcome]
  /\ UNCHANGED <<kind, url, canceled, charged, inbox, callVars, cache, age>>

\* The client disconnects.
Disconnect(r) ==
  /\ pc[r] \notin {"idle", "done"} /\ ~canceled[r]
  /\ canceled' = [canceled EXCEPT ![r] = TRUE]
  /\ UNCHANGED <<pc, kind, url, charged, inbox, reply, callVars, cache, age>>

-----------------------------------------------------------------------------
(* Steps of the goroutine that runs the function given to DoChan.          *)

Return(u, res) ==
  /\ phase' = [phase EXCEPT ![u] = "finish"]
  /\ result' = [result EXCEPT ![u] = res]
  /\ timer' = [timer EXCEPT ![u] = 0]

\* "A previous flight may have filled the cache since our first lookup."
Recheck(u) ==
  /\ phase[u] = "recheck"
  /\ \E a \in Answers \cup {NoEntry} :
       /\ Cache!Get(u, a)
       /\ \/ a # NoEntry /\ Return(u, a)
          \/ /\ a = NoEntry
             /\ phase' = [phase EXCEPT ![u] = "fetch"]
             /\ timer' = [timer EXCEPT ![u] = Timeout]
             /\ UNCHANGED result
  /\ UNCHANGED <<reqVars, ctx, waiters, age>>

\* Upstream answers in time, and the answer is cached if it may be.
Answer(u, a) ==
  /\ phase[u] = "fetch" /\ timer[u] > 0
  /\ Return(u, a)
  /\ \/ /\ Cacheable(a)
        /\ \E stored \in BOOLEAN :
             /\ Cache!Set(u, a, stored)
             /\ age' = [age EXCEPT ![u] = IF stored THEN Timeout - timer[u] ELSE @]
     \/ ~Cacheable(a) /\ UNCHANGED <<cache, age>>
  /\ UNCHANGED <<reqVars, ctx, waiters>>

\* Errors a fetch can meet before its time is up.
FetchErrors(u) ==
  {"error"} \cup IF ctx[u] # Background /\ canceled[ctx[u]] THEN {"canceled"} ELSE {}

Fail(u, err) ==
  /\ phase[u] = "fetch"
  /\ err \in FetchErrors(u)
  /\ Return(u, err)
  /\ UNCHANGED <<reqVars, ctx, waiters, cache, age>>

TimeOut(u) ==
  /\ phase[u] = "fetch" /\ timer[u] = 0
  /\ Return(u, "timeout")
  /\ UNCHANGED <<reqVars, ctx, waiters, cache, age>>

\* singleflight forgets the key and sends to every channel in one critical
\* section; each channel has room, so no send blocks.
Finish(u) ==
  /\ phase[u] = "finish"
  /\ inbox' = [r \in Requests |-> IF r \in waiters[u] THEN result[u] ELSE inbox[r]]
  /\ phase' = [phase EXCEPT ![u] = None]
  /\ ctx' = [ctx EXCEPT ![u] = Background]
  /\ waiters' = [waiters EXCEPT ![u] = {}]
  /\ result' = [result EXCEPT ![u] = None]
  /\ UNCHANGED <<pc, kind, url, canceled, charged, reply, timer, cache, age>>

-----------------------------------------------------------------------------
Live(u) == Cache!Unexpired(cache[u])

\* The clock moves, unless nothing is left for it to change.
Tick ==
  /\ \E u \in Urls : Live(u) \/ timer[u] > 0
  /\ Cache!Tick
  /\ timer' = [u \in Urls |-> IF timer[u] > 0 THEN timer[u] - 1 ELSE 0]
  /\ age' = [u \in Urls |-> IF Live(u) /\ age[u] < Lifetime THEN age[u] + 1 ELSE age[u]]
  /\ UNCHANGED <<reqVars, phase, ctx, waiters, result>>

RequestStep(r) ==
  \/ Lookup(r)
  \/ \E allowed \in BOOLEAN : Charge(r, allowed)
  \/ Leave(r) \/ Join(r) \/ Receive(r) \/ Abandon(r)
  \/ \E outcome \in {"answered"} \cup Errors : Direct(r, outcome)

CallStep(u) == Recheck(u) \/ TimeOut(u) \/ Finish(u)

Next ==
  \/ \E r \in Requests :
       \/ RequestStep(r)
       \/ Disconnect(r)
       \/ \E k \in Kinds, u \in Urls : Arrive(r, k, u)
  \/ \E u \in Urls :
       \/ CallStep(u)
       \/ \E a \in Answers : Answer(u, a)
       \/ \E err \in Errors : Fail(u, err)
  \/ Tick

Spec == Init /\ [][Next]_vars

\* Request goroutines run, and their own round trips are bounded by a client
\* timeout.  Nothing is asked of upstream.
RequestsRun == \A r \in Requests : WF_vars(RequestStep(r))

\* Calls run, and their client timeout fires: time passes.
CallsRun == (\A u \in Urls : WF_vars(CallStep(u))) /\ WF_vars(Tick)

\* Upstream may hang, and without CallsRun its timeout need never fire.
FairSpec == Spec /\ RequestsRun

-----------------------------------------------------------------------------
(* Properties.                                                             *)

\* One upstream fetch per token lifetime: while the cache has a live answer
\* for a URL nobody is fetching it, although a request that missed before the
\* answer was stored may start a call after the call that stored it is gone
\* (the second cache lookup, inside the function given to DoChan).
NoRedundantFetch == \A u \in Urls : phase[u] = "fetch" => ~Live(u)

\* A request in the select of fetchAnonymousToken has its result or is owed
\* one by the running call of its URL, and a call owes nothing to anyone else.
NoStranded ==
  /\ \A r \in Requests : pc[r] = "wait" =>
       \/ inbox[r] # None
       \/ phase[url[r]] # None /\ r \in waiters[url[r]]
  /\ \A u \in Urls : \A r \in waiters[u] :
       pc[r] = "wait" /\ url[r] = u /\ inbox[r] = None

\* "The shared fetch survives disconnects": only a request whose own client
\* has gone is told that it was canceled, however many shared its fetch.
CanceledOnlySelf == \A r \in Requests : reply[r] = "canceled" => canceled[r]

\* An answer that is handed out from the cache comes from a fetch sent less
\* than Lifetime ago: the TTL, which runs from the store, and the time the
\* fetch took stay under the "Docker token spec's 60s default".
ServedFresh == \A u \in Urls : Live(u) => age[u] < Lifetime

\* What is cached would not fail the token lookup of any later request
\* ("don't let one poison subsequent token lookups for either caller").
CachedUsable == \A u \in Urls : cache[u] # NoEntry => Usable(cache[u].value)

\* "Handlers must check each caller's rate limit before joining the fetch":
\* a request that waits for or makes an upstream call was charged, once, if it
\* is not exempt, and a request that was refused was not charged.
ChargedOnce ==
  \A r \in Requests :
    /\ pc[r] \in {"join", "wait", "direct"} => (charged[r] = 0 <=> Exempt(kind[r]))
    /\ reply[r] = "limited" => charged[r] = 0

\* Every request ends, even if upstream never answers: its token fetch, which
\* another request may have started, is bounded by the client timeout.
EveryRequestEnds ==
  CallsRun => \A r \in Requests : pc[r] \notin {"idle", "done"} ~> pc[r] = "done"

\* A request whose client has gone stops waiting for the shared fetch without
\* any help from upstream or the clock.
DisconnectFrees ==
  \A r \in Requests : pc[r] = "wait" /\ canceled[r] ~> pc[r] # "wait"
=============================================================================
