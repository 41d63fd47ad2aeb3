# registry-redirect in TLA+

registry-redirect is one Go process that answers container clients on behalf of
an upstream registry (ghcr.io or gcr.io). It keeps everything in memory, shares
it between request goroutines, and depends on an upstream that may be slow or
gone. These modules model that process; TLC checks them on small instances and
TLAPS proves their safety properties for every instance.

## Inventory

| Component | State | Operations | What makes it correct |
|---|---|---|---|
| response cache (`response_cache.go`) | map, expiry per entry, mutex | get, set with sweeps | capacity, exact time to live, no live entry lost |
| anonymous tokens (`anonymous_token.go`) | token cache, singleflight calls | lookup, charge, shared fetch, cancel | one fetch at a time, nobody stranded or canceled for another, fresh and usable tokens, one charge |
| IP rate limiter (`rate_limiter.go`) | map of buckets, lastSeen, lastTrim | allow, trims, evictions | bounded map, bounded admissions, one bucket per IP |
| rate-limited IP tracker (`rate_limit_tracker.go`) | counts, sequence | Record, Top | bounded, no count invented or lost, keeps the noisiest |
| manifest cache (`manifest_cache.go`) | map, list, byte count | get, set, removeOldest | accounting, memory bound, LRU |
| blob redirect cache (`blob_cache.go`) | ristretto cache | get, set with TTL | a served redirect can still be followed |
| proxy handler (`redirect.go`) | none of its own | manifests, blobs, tag lists | answers fit the request, charge only for upstream |
| path, scope, Link and name rewriting (`redirect.go`, `anonymous_token.go`) | flags | out on the way upstream, back on the way to the client | the places that rewrite agree, a Link leads on |
| `/v2/` handler (`v2.go`) | a response cache of one entry | challenge | the challenge names the caller's host |
| lifecycle (`main.go`) | signal, server, WaitGroup | load, serve, shutdown | nothing in flight is lost, the process ends |
| override configuration (`rate_limit_config.go`, `main.go`) | overrides, fixed after start | load, validate, compile, match | all files or none, earlier files win |
| options, metrics, CI module, deployment | counters | | what a path is counted as agrees with what it is |

Interaction: the router calls a handler in a goroutine of its own, inside
CustomHandler, which counts it. A handler looks in its cache, then asks the rate
limiter, then (without Authorization) the token flow, then upstream, and stores
what it may share. The `/token` handler of an anonymous GET uses the same token
flow. A refused request is recorded by the tracker, which a second server shows.
The limit of an IP comes from the override files read at start.

Hard behaviours: goroutines that interleave between a cache miss and the store
that follows; a shared fetch that outlives the request that started it; a clock
read before a lock is taken; caches at their limits; clients that disconnect,
idle or read slowly; a shutdown with a deadline shorter than a request may take;
names rewritten by prefix in one place, by first occurrence in another and by
part in a third. `PROJECT.json` lists them by line under `hazards`, with the
properties for each.

## Modules

| Module | Role |
|---|---|
| `TTLMap` | abstract: what callers of a cache with a time to live are promised |
| `ResponseCache` | `responseCache`; an operation is a critical section of `mu` |
| `ResponseCacheRefinement` | the same with what each call returned; implements `TTLMap` |
| `TokenFlow` | requests, singleflight calls, token cache (an instance of `ResponseCache`) |
| `RateLimiter` | `ipRateLimiter` and its buckets |
| `Tracker` | `RateLimitedIPTracker` and the refusals that reach it |
| `ManifestCache` | `manifestCache` |
| `Proxy` | manifest, blob, tag list and `/v2/` handlers over their caches (instances of `ManifestCache` and `ResponseCache`) |
| `Rewrite` | operators: paths, scopes, Links, names, and what each part of the code takes a path to be |
| `Session` | a client that gets tokens, asks for manifests and blobs, and follows Links, over `Rewrite` |
| `IPOverrides` | operators: configuration files and the limit of an IP |
| `Lifecycle` | `main`, `serve`, `CustomHandler`, with the loading of `IPOverrides` |
| `*Proofs` | theorems about `ResponseCache`, `TokenFlow`, `RateLimiter`, `Tracker`, `ManifestCache`, `Proxy`, `Session`, `Lifecycle` |
| `MC*` | values for TLC, symmetry |

Conventions. A step of a goroutine is its code up to the next lock, channel,
network call or reading of the clock. Times are kept relative (time left, time
since), so that no counter grows. Bodies, headers, URLs and addresses are members
of small sets, named for what the code tells apart. Requests and connections are
slots that are used again, so behaviours do not end. The section "slips" of a
module holds variants of its definitions that show what each property is
sensitive to; nothing else refers to them.

**ResponseCache.** `entries[k].left > 0` is `time.Now().Before(expiresAt)`. A
nil cache, which a disabled option gives, is `MaxEntries = 0`. Refinement hides
expired entries: `Promised` is the map a caller can observe.

**TokenFlow.** `pc` follows `serveAnonymousToken`, `token` and the token part of
`proxy`: lookup, charge, join, wait, direct. `phase`, `waiters`, `result` and
`inbox` are the singleflight call of each URL: `Join` is the head of
`fetchAnonymousToken` and DoChan, `Recheck`, `Answer`, `Fail` and `TimeOut` are
the function given to it, `Finish` is singleflight's delivery to the buffered
channels, `Receive` and `Abandon` are the arms of the select. `ctx` is the
fetch's context, which WithoutCancel makes `Background`. The rate limiter is any
sequence of verdicts.

**RateLimiter.** `Read`, `GetClient` and `Charge` are the three parts of `allow`:
`l.now()`, `client` under `mu`, `AllowN` under the bucket's own lock. `lag` is
how long ago the request read the clock. `budget` is a history variable: a bucket
that is never forgotten, against which admissions are counted. `displaced` marks
the requests whose bucket `MaxIPs` pushed out while they held it.

**Tracker.** An entry of `t.counts` is spread over `tracked`, `count` and `seen`.
`Refuse` is allow's verdict and `Record` the call that follows it outside the
limiter's lock, so refusals overtake one another. The map has no order: any
lowest entry may be the one that gives way. `refusals` is a history variable.

**ManifestCache.** `items`, `order` and `used` are the three fields the code
keeps in step by hand; `history`, a history variable, lists all keys by last use.

**Proxy.** Lookups and stores are the handlers' cache calls; `Answer` is a
response of upstream, `ReadClock` and `StoreRedirect` separate `time.Now()` from
`SetWithTTL`. Which token is used is left to `TokenFlow`: `Token` grants or
refuses. ristretto may refuse or evict any entry.

**Rewrite, Session.** A string is a sequence of words, `"/"` being one, so that
`"dx/y"` has the string prefix `"d"` without being below it. `Rewrite` has the
`strings` calls of the code at this grain: `TrimPrefix`, `Replace(.., 1)`,
`Split`, `Join`, the last two as recursive functions. `Session` strings them
together as a client sees them: a token for the name it wants, a path, what goes
upstream, the Link that comes back, the path it follows. The router answers 301 to
a path that is not `Clean`, with an empty part or one of dots, which ends a session
(`moved`); without this a Link could come back to a path that upstream never saw. Upstream grants a request if its token is for the repository
that the path names.

**IPOverrides, Lifecycle.** `LoadFile` is one round of the loop in
`loadIPRateLimitOverrides` with what its caller makes of an error; an address is
a host and whether it is written in IPv4-mapped form, which `netip` tells apart.
`stage` is main's place in `serve`; `conn` is the connection state that net/http
tracks and Shutdown polls; `handler` is the request on it. `owed` is a history
variable: the requests in flight when Shutdown was called.

## Checks

| Run | Question | Bounds |
|---|---|---|
| `response_cache` | capacity; implements `TTLMap` | 3 keys for 2 entries, TTL 2 |
| `token_flow` | one fetch, nobody stranded or canceled for another, freshness | 3 requests, 1 URL, time-out 2, TTL 2, lifetime 4 |
| `token_kinds` | usable cache, one charge | 2 requests of 3 kinds, 2 URLs for 1 entry, odd answers |
| `token_live` | every request ends; a disconnect frees its request | 2 requests, upstream answers or not |
| `rate_limiter` | bounded map, bounded admissions, trims harmless, one bucket per IP | 3 IPs, one with an override, for 2 buckets, 2 requests, lag up to 1 |
| `tracker` | bounded, counts right, loudest kept | 4 IPs for 2 entries, 2 requests, 3 refusals of each IP |
| `lifecycle` | all limits or none, earlier files win, clean exit, exit after a signal | 6 kinds of file, 2 paths, 2 connections, up to 2 upstream calls each |
| `lifecycle_cut` | the deadline cuts a request (violated) | the same |
| `manifest_cache` | accounting, memory, LRU | 5 keys, 4 bytes, values of 1, 2, 4 and (too large) 5 |
| `proxy` | answers fit, redirects alive, charges | 2 requests of 13 forms, manifest cache of one, redirects of 3 or 5 units |
| `session` | scopes, paths, Links, names and classifications agree | 3 repos, 4 prefixes, 55 names, plain hosts or not, 3 pages |
| `session_link` | a Link without a repo leads nowhere (violated) | the same |

Why the bounds suffice. Three requests are a leader, a follower and a latecomer
that missed the cache before the leader stored; a fourth only repeats a role.
Time-outs and lifetimes of 2 distinguish before, at and after. One entry fewer
than keys makes every cache overflow. In the rate limiter two requests are enough
to be charged in the opposite order to their reading of the clock, and three IPs
over two buckets to evict; the one with an override refills faster than it is
used. In the tracker two IPs more than entries displace one another while a third
gets loud, and two requests are recorded in either order. In the manifest cache
one large value displaces several small ones and overwrites grow and shrink
entries. In `Lifecycle` 5 seconds are 2 units, so that a second upstream call
runs past the deadline; two files are an earlier and a later one with ranges that
overlap, mapped or not, and one of each way a file can be unusable. In `Session`
names have the prefix, the repo and the API's own words at the front, in the
middle and run together with other words, and parts that the router will not have;
repos and prefixes have one part or
two, or are equal; three pages are a first, a middle and a last one.
`Lifecycle` and `Session` switch deadlock checking off: the process does stop,
and a session ends with an error.

Named bounds: `MaxLag` (`RateLimiter`, `Proxy`: time a goroutine may be held up
between reading the clock and using it), `LongAgo` (older times are not told
apart), `NewGrace`, `MaxCalls`, `MaxFiles` (`Lifecycle`), `MaxRefusals`
(`Tracker`), `Pages` (`Session`).

Fairness. `token_live` has `FairSpec`, in which only the goroutines of requests
are sure to run (`RequestsRun`): neither the clock nor upstream nor a running
fetch can be what frees the request of a client that has gone (`DisconnectFrees`).
`EveryRequestEnds` adds, as its hypothesis `CallsRun`, that fetches run and time
passes, which makes the client time-out fire: `withDefaults` gives every client
one. A request's own round trip may end in an error, as the same time-out
guarantees. Nothing is asked of upstream (`Answer`, `Fail`) or of clients
(`Arrive`, `Disconnect`). `lifecycle` is fair to main (the loading included), to
Shutdown's polling, to the handlers' bounded calls and to the clock, never to a
client: `Respond`, which waits for a client to read, has no fairness.

What the violated runs show. `lifecycle_cut`: the comment above `wg.Wait()` in
`main.go` promises to wait for requests in flight, but Shutdown's 5 second
deadline ends in `Fatalf`. The shortest behaviour has a client that reads slowly;
a proxied request in the second of its two upstream calls is cut in the same way.
`session_link`: without a repo, which the flag's comment allows, the test for
upstream's own Links holds for every Link, the slash after `v2` is trimmed with
the rest, and `/v2/foo/tags/list` comes back as `/v2foo/tags/list`.

What holds with a reservation. `ExitsAfterSignal` excepts a wait in `wg.Wait`,
which has no deadline, for a connection accepted as Shutdown last polled.
`WithinBudget` restores the budget of an IP that `MaxIPs` pushes out, and does
not count charges to its old bucket. `RedirectAlive` loses from the margin what
storing the entry took. `EarlierWins` excepts mapped ranges in CIDR notation,
which never match. `LoudestStays` needs room for two: with one entry every
newcomer displaces it. `IdleIsFull` and `WithinBudget` rest on a bucket refilling
within `IdleTTL` less a lag: two minutes against ten by default, but a file may
set a burst of more than ten minutes' worth of its rate, which `validate` does not
refuse, and whose clients get a fresh burst when idle for ten minutes.
`TokenFits` excepts (`PrefixOnce`) a name that is only the
prefix, one that has it anywhere on a prefixless host, and a prefix with a slash:
the scope loses a prefix by part or by first occurrence, the path at its front.
`ListedName` is stated without a prefix, and `SameKind` without words of the API in
names and flags (`Unreserved`), and without tag lists of names of one part, which
`metricPath` counts as unknown because it wants five parts where there are four.

Noticed on the way, without a run of their own: with a prefix the name in a tag
list does not get it back, so it is not "the user's requested repo"
(`redirect.go:372`); `main.go:50` says that a path without the prefix is served
anyway, the code answers 404 except on prefixless hosts.

## Proofs

`tlapm` checks eight `*Proofs` modules. Assumptions are the named ones on
constants, nothing else:

| Assumption | Says |
|---|---|
| `CacheAssumption` | keys are finite, the time to live positive, the absent entry is no entry |
| `FlowAssumption` | the same of the token cache; TTL plus time-out is at most the shortest lifetime of a token (45 s + 5 s <= 60 s) |
| `LimiterAssumption` | a bucket is full again by the time its entry is idle, `MaxLag` included (two minutes against ten); `IdleTTL` exceeds two lags |
| `TrackerAssumption` | requests and IPs are finite, `Limit` is positive (the constructor puts a default in place of any other) |
| `LifecycleAssumption`, `RangesAssumption` | connections are finite; a range that parses is in CIDR notation or not, mapped or not |
| `ManifestAssumption` | values have sizes, the limit is a number, the absent entry is no value; keys need not be finite |
| `ProxyAssumption` | queries have the form the router lets through; `MaxLag` is less than the margin |
| `SessionAssumption` | flags and names are sequences of strings, lists have a page |

- `ResponseCache`. `TypeCorrect`, `CapacityCorrect`: the capacity needs only types
  beside itself, but a sweep may shrink the stored set by any amount, so the proof
  compares the stored sets before and after by inclusion and cardinality.
  `PromiseKept`: every step of the cache with its observed answers is a step of
  `TTLMap` or leaves `Promised` and `out` alone. A get that deletes an expired
  entry and a sweep are invisible; a refused set needs that after the sweep all
  stored entries are live.
- `TokenFlow`. `TypeCorrect`, `ChargedOnceCorrect`: that `charged` stays within
  one needs that a request is uncharged until its charge. `NoRedundantFetchCorrect`:
  inductive because a fetch starts only on a miss in the same step, and only the
  fetch of a URL itself stores its answer. `NoStrandedCorrect`: both halves are
  needed, what a waiting request is owed and that a call's waiters wait for it with
  an empty inbox. `CanceledOnlySelfCorrect`: strengthened with "every fetch has a
  context no client cancels", so that no result or inbox holds a cancellation.
  `ServedFreshCorrect`: strengthened with the exact relation of an entry's age and
  time left, `age + left` at most TTL + Timeout. `CachedUsableCorrect`: from what
  is cacheable. `UsesResponseCache`: each step is a step of `ResponseCache` on the
  token cache or leaves it alone.
- `RateLimiter`. `client` changes the map three times under one lock (periodic
  trim, trim under pressure, eviction) before it finds or makes an entry, so the
  invariant of the map, `MapInv`, is a predicate on a map, shown to survive each.
  Its parts are `Dated` (an entry whose bucket is about to be charged is no older
  than two lags), `Refilled` (an idle bucket is full) and `Solvent` (a bucket in the map
  holds no more than the budget of its IP); `WithinBudget`, `IdleIsFull` and
  `OneBucket` follow. That a new bucket can be found is the pigeonhole of
  `FreeBucket`: `MaxIPs` entries and the buckets held are fewer than `Buckets`.
- `Tracker`. `NothingLost` relates counts, records under way and refusals; to move
  a refusal from one to the other takes the cardinality of `Pending`. Beyond
  `Limit` clients the equality is not claimed, and up to it nothing is displaced,
  since who has an entry was refused (`TrackedRefused`). `SeenApart`, no two
  entries were seen at the same time, gives `OneLowest`; `LoudestStays` follows as
  only the lowest of two entries gives way.
- `Lifecycle`. `CleanExit` needs `Kept`: what is owed is being handled on a
  connection that Shutdown sees as active, which is neither closable nor gone until
  it was answered. `AllOrNothing` and `EarlierWins` come from `Configured`: the
  overrides are those of the files read, one for one; the first override that has
  an address is then that of the first file that covers its host.
- `ManifestCache`. `Accounted` says that `used` is the sum of the sizes of what is
  stored. The library's sum is a fold, a function chosen for its recursive equation,
  and that there is one would take induction over data. Instead, a smallest
  set without one (`Smallest`) has one, put together from those of its subsets; from
  its equation follows what a key more or less does to the sum. Where the
  loop of `removeOldest` stops is a greatest number that exists (`Greatest`), and the
  new entry alone fits (`LeftEnough`); `MemoryBound` follows. For `EvictsColdest` the
  invariant ties the list to use: `order` and `history` have no duplicates, and
  keys stand in `order` as they do in `history` (`InOrder`).
- `Proxy`. `AnswerFits` needs that what is stored may be shared (`Shareable`), that
  an answer under way fits the query it was sent for (`Answered`);
  `ChargedForUpstream` that charges follow the place in the handler (`Charges`);
  `RedirectAlive` that a TTL under way is the life it was worked out from, less
  lag and margin (`Timed`). `UsesManifestCache` and `UsesResponseCache`: the
  handlers use their caches only as those modules allow. `TypeCorrect` includes
  the manifest cache's types, with `TypeCorrect` of `ManifestCacheProofs` instantiated
  and carried over by `UsesManifestCache`: no argument about the cache is repeated.
- `Session`. The invariant says where everything under way comes from: a path that
  is served is `PathOf(name, kind)` (`Asked`), a scope is that of /token or of
  getToken for it (`Scoped`), a Link is `RewriteLink` of what went upstream
  (`Linked`), a listed name `RewriteName` of it (`NameGiven`). That it is inductive
  is a fact about Links: with a repo, a Link is the very path the client asked for
  (`LinkReturns`), and without one the slash that `RewriteLink` drops is missing, so
  that a Link is served only if what follows begins with another slash, which no
  clean path has (`LeadsNowhere`).
  `TypeCorrect` and `RepoLinkCorrect` follow. The rest is about strings:
  `UpstreamIs`, the path for a name goes upstream as the path for upstream's
  name of it (`UpName`), under the hypothesis that the prefix does not reach into
  the path behind the name (`Apart`). `ListedCorrect` is then
  `NameIs`: the repo put in front of a name is its first occurrence.
  `TokenFitsCorrect` has one half for each place that makes scopes: in
  `TokenScopeIs` the first occurrence of the prefix in a scope is at the front of
  the name, one word earlier being impossible as it would put a slash into the prefix;
  in `GetTokenScopeIs` the parts of the path are `Split` of the name, and `Join`
  undoes `Split` (`JoinSplit`). `SameKindCorrect` is `PathParts`, which gives each part
  of a path, with what each reader of paths looks for. `Split` and `Join` compute
  from left to right; that a computation exists and is the only one (`ChainExists`,
  `SplitIs`, `JoinIs`) is shown by the least step at which it would not, and so
  are the facts about their results, where one would otherwise use induction over strings.

Only model-checked: liveness (`EveryRequestEnds`, `DisconnectFrees`,
`ExitsAfterSignal`), which is out of the prover's reach. All other properties
that a passing run checks are stated by a theorem.

## Not modelled

The CI module (`src/.dagger`) calls Dagger to build and test and keeps no state.
The deployment files are data. Of the options only the client time-out changes a
behaviour; the other defaults are values of the modules' constants. Counters and
log lines are left out, except for what a path is counted as. Which header an IP
is read from is a choice without state, and the IP a member of a set. net/http,
singleflight, x/time/rate and ristretto are external: modelled as far as the code
relies on them. Manifests have no versions: no document says how fresh a tag must
be. Nor have they encodings: what upstream does with `Accept-Encoding` is not in
the repository.

## State of the work

Every part of the redirector that keeps state is modelled, with its handlers
composed over its caches, and every safety property that a passing run checks is
proved for all values of the constants. What could follow: versions of tags and representations
in `Proxy`, once it is decided how fresh and in what encoding a manifest must be;
an abstract token service that `TokenFlow` implements.
