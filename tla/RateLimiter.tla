----------------------------- MODULE RateLimiter -----------------------------
(***************************************************************************)
(* ipRateLimiter (pkg/redirect/rate_limiter.go): one token bucket per      *)
(* client IP, at most MaxIPs of them, idle ones dropped.                   *)
(*                                                                         *)
(* allow reads the clock, then finds or makes the IP's bucket under mu,    *)
(* then charges the bucket, which has a lock of its own, at the time it    *)
(* read first.  Other requests, and the clock, move between these steps: a *)
(* bucket may be charged at a time before its last charge, or after it was *)
(* dropped from the map.                                                   *)
(*                                                                         *)
(* Times are kept as how long ago they were, so that the clock never ends. *)
(* The token bucket is golang.org/x/time/rate, with whole tokens.          *)
(***************************************************************************)
EXTENDS Integers, FiniteSets

CONSTANTS
  Requests,   \* concurrent requests
  IPs,        \* what clientIP returns
  Rate,       \* tokens per unit of time for each IP, overrides applied
  Burst,      \* size of each IP's bucket, overrides applied
  MaxIPs, IdleTTL,
  TrimEvery,  \* the minute between periodic trims
  MaxLag,     \* bound on the time from the reading of the clock to the charge
  NoClient    \* no entry for an IP

\* An IP that has been idle for IdleTTL has a full bucket and nobody charging
\* it.  The defaults are far from the bound: a bucket refills in two minutes.
\* An override is not checked for it (validate in rate_limit_config.go).
ASSUME LimiterAssumption ==
  /\ IsFiniteSet(Requests)
  /\ NoClient \notin [bucket : Nat, idle : Nat]
  /\ Rate \in [IPs -> Nat \ {0}]
  /\ Burst \in [IPs -> Nat \ {0}]
  /\ MaxIPs \in Nat \ {0}
  /\ {IdleTTL, TrimEvery, MaxLag} \subseteq Nat
  /\ IdleTTL > 2 * MaxLag
  /\ \A i \in IPs : Rate[i] * (IdleTTL - MaxLag) >= Burst[i]

Buckets == 1..(MaxIPs + Cardinality(Requests))

\* Times this long ago and longer are not told apart.
LongAgo == MaxLag + IF IdleTTL > TrimEvery THEN IdleTTL ELSE TrimEvery

VARIABLES
  clients,    \* the map: each IP's bucket and the time since lastSeen
  tokens,     \* what is in each bucket ...
  since,      \* ... as of this long ago
  sinceTrim,  \* time since lastTrim
  pc, ip,     \* where each request is and whom it is charged to
  lag,        \* how long ago it read the clock
  held,       \* the bucket client() returned to it, or 0
  budget,     \* what each IP may still spend, for a limiter that forgets nothing
  displaced   \* requests whose bucket the bound on IPs pushed out of the map

vars == <<clients, tokens, since, sinceTrim, pc, ip, lag, held, budget, displaced>>

Client == [bucket : Buckets, idle : 0..LongAgo]

TypeOK ==
  /\ clients \in [IPs -> Client \cup {NoClient}]
  /\ tokens \in [Buckets -> Nat]
  /\ since \in [Buckets -> 0..LongAgo]
  /\ sinceTrim \in 0..LongAgo
  /\ pc \in [Requests -> {"idle", "client", "charge"}]
  /\ ip \in [Requests -> IPs]
  /\ lag \in [Requests -> 0..MaxLag]
  /\ held \in [Requests -> Buckets \cup {0}]
  /\ budget \in [IPs -> Int]
  /\ displaced \subseteq {r \in Requests : pc[r] = "charge"}
  /\ \A i \in IPs : clients[i] # NoClient => tokens[clients[i].bucket] <= Burst[i]

Init ==
  /\ clients = [i \in IPs |-> NoClient]
  /\ tokens = [b \in Buckets |-> 0]
  /\ since = [b \in Buckets |-> 0]
  /\ sinceTrim = LongAgo
  /\ pc = [r \in Requests |-> "idle"]
  /\ ip \in [Requests -> IPs]
  /\ lag = [r \in Requests |-> 0]
  /\ held = [r \in Requests |-> 0]
  /\ budget = Burst
  /\ displaced = {}

-----------------------------------------------------------------------------
(* Slips the code could have made, used to test the properties.            *)

\* > for >= in the test that makes room for a new client.
RoomForOneMore(c) ==
  {V \in SUBSET {i \in IPs : c[i] # NoClient} :
     Cardinality(V) = IF Cardinality({i \in IPs : c[i] # NoClient}) > MaxIPs THEN 1 ELSE 0}

\* An entry is dropped at half its time, when its bucket may not be full.
HastyIdle(c, i, l) == c[i].idle >= l + 1

\* A new bucket holds the burst and the first unit of the rate.
BurstAndRate(i) == Burst[i] + Rate[i]

\* A new bucket for every request.
FreshBucket(r, i, c) ==
  LET b == CHOOSE x \in Buckets : \A q \in Requests : held[q] # x IN
  /\ clients' = [c EXCEPT ![i] = [bucket |-> b, idle |-> lag[r]]]
  /\ held' = [held EXCEPT ![r] = b]
  /\ tokens' = [tokens EXCEPT ![b] = Burst[i]]
  /\ since' = [since EXCEPT ![b] = lag[r]]
  /\ UNCHANGED <<budget, displaced>>

\* lastSeen is the time at which the entry was made.
NeverSeenAgain(r, i, c) ==
  LET b == CHOOSE x \in Buckets : \A q \in Requests : held[q] # x /\ \A j \in IPs \ {i} :
             c[j] # NoClient => c[j].bucket # x IN
  \/ /\ c[i] # NoClient
     /\ clients' = c
     /\ held' = [held EXCEPT ![r] = c[i].bucket]
     /\ UNCHANGED <<tokens, since, budget, displaced>>
  \/ /\ c[i] = NoClient
     /\ clients' = [c EXCEPT ![i] = [bucket |-> b, idle |-> lag[r]]]
     /\ held' = [held EXCEPT ![r] = b]
     /\ tokens' = [tokens EXCEPT ![b] = Burst[i]]
     /\ since' = [since EXCEPT ![b] = lag[r]]
     /\ UNCHANGED <<budget, displaced>>
-----------------------------------------------------------------------------

AtMost(m, n) == IF n > m THEN m ELSE n

Known(c) == {i \in IPs : c[i] # NoClient}

-----------------------------------------------------------------------------
(* The map of clients.                                                     *)

\* now.Sub(lastSeen) >= IdleTTL, for a now that was read l ago.
Idle(c, i, l) == c[i].idle >= IdleTTL + l

RemoveIdle(c, l) ==
  [i \in IPs |-> IF c[i] # NoClient /\ Idle(c, i, l) THEN NoClient ELSE c[i]]

\* removeOldest, as often as it takes to get below MaxIPs.  Which of several
\* equally old entries goes depends on the order of a map iteration.
Oldest(c) ==
  {V \in SUBSET Known(c) :
     /\ Cardinality(V) = IF Cardinality(Known(c)) >= MaxIPs
                         THEN Cardinality(Known(c)) - MaxIPs + 1 ELSE 0
     /\ \A i \in V, j \in Known(c) \ V : c[i].idle >= c[j].idle}

Drop(c, V) == [i \in IPs |-> IF i \in V THEN NoClient ELSE c[i]]

\* Buckets that the map or a request still points to.
Referenced(c) ==
  {c[i].bucket : i \in Known(c)} \cup {held[r] : r \in {q \in Requests : pc[q] = "charge"}}

\* NewLimiter gives a full bucket.
NewTokens(i) == Burst[i]

\* The entry for i of the map c, made with a full bucket if there is none.
FindOrMake(r, i, c) ==
  \/ /\ c[i] # NoClient
     /\ clients' = [c EXCEPT ![i].idle = lag[r]]
     /\ held' = [held EXCEPT ![r] = c[i].bucket]
     /\ UNCHANGED <<tokens, since, budget, displaced>>
  \/ /\ c[i] = NoClient
     /\ LET room == IF Cardinality(Known(c)) >= MaxIPs THEN RemoveIdle(c, lag[r]) ELSE c IN
        \E V \in Oldest(room) :
          LET b == CHOOSE x \in Buckets : x \notin Referenced(Drop(room, V)) IN
          /\ clients' = [Drop(room, V) EXCEPT ![i] = [bucket |-> b, idle |-> lag[r]]]
          /\ held' = [held EXCEPT ![r] = b]
          /\ tokens' = [tokens EXCEPT ![b] = NewTokens(i)]
          /\ since' = [since EXCEPT ![b] = lag[r]]
          /\ budget' = [j \in IPs |-> IF j \in V THEN Burst[j] ELSE budget[j]]
          /\ displaced' = displaced \cup {q \in Requests : pc[q] = "charge" /\ ip[q] \in V}

-----------------------------------------------------------------------------
\* allow: the clock is read.
Read(r, i) ==
  /\ pc[r] = "idle"
  /\ pc' = [pc EXCEPT ![r] = "client"]
  /\ ip' = [ip EXCEPT ![r] = i]
  /\ UNCHANGED <<clients, tokens, since, sinceTrim, lag, held, budget, displaced>>

\* client: mu is held throughout.
GetClient(r) ==
  /\ pc[r] = "client"
  /\ pc' = [pc EXCEPT ![r] = "charge"]
  /\ \/ /\ sinceTrim >= TrimEvery + lag[r]
        /\ sinceTrim' = lag[r]
        /\ FindOrMake(r, ip[r], RemoveIdle(clients, lag[r]))
     \/ /\ sinceTrim < TrimEvery + lag[r]
        /\ UNCHANGED sinceTrim
        /\ FindOrMake(r, ip[r], clients)
  /\ UNCHANGED <<ip, lag>>

\* What bucket b of IP i holds at a time l ago; no time passes backwards.
Available(b, i, l) ==
  AtMost(Burst[i], tokens[b] + IF since[b] > l THEN Rate[i] * (since[b] - l) ELSE 0)

\* AllowN(now, 1), which dates the bucket at now even if that is earlier than
\* its last charge.  The request is done; a refused one is recorded by the
\* tracker of rate-limited IPs, which has a module of its own.
Charge(r) ==
  LET b == held[r]
      i == ip[r]
      n == Available(b, i, lag[r]) IN
  /\ pc[r] = "charge"
  /\ pc' = [pc EXCEPT ![r] = "idle"]
  /\ \/ /\ n >= 1
        /\ tokens' = [tokens EXCEPT ![b] = n - 1]
        /\ since' = [since EXCEPT ![b] = lag[r]]
        /\ budget' = IF clients[i] # NoClient /\ clients[i].bucket = b
                     THEN [budget EXCEPT ![i] = AtMost(Burst[i], @ - 1 + Rate[i] * lag[r])]
                     ELSE budget
     \/ /\ n = 0
        /\ UNCHANGED <<tokens, since, budget>>
  /\ displaced' = displaced \ {r}
  /\ lag' = [lag EXCEPT ![r] = 0]
  /\ held' = [held EXCEPT ![r] = 0]
  /\ UNCHANGED <<clients, sinceTrim, ip>>

Older(t) == AtMost(LongAgo, t + 1)

\* The clock moves; no request is older than MaxLag.
Tick ==
  /\ \A r \in Requests : pc[r] # "idle" => lag[r] < MaxLag
  /\ clients' = [i \in IPs |->
       IF clients[i] = NoClient THEN NoClient ELSE [clients[i] EXCEPT !.idle = Older(@)]]
  /\ since' = [b \in Buckets |-> Older(since[b])]
  /\ sinceTrim' = Older(sinceTrim)
  /\ lag' = [r \in Requests |-> IF pc[r] = "idle" THEN lag[r] ELSE lag[r] + 1]
  /\ budget' = [i \in IPs |-> AtMost(Burst[i], budget[i] + Rate[i])]
  /\ UNCHANGED <<tokens, pc, ip, held, displaced>>

Next ==
  \/ \E r \in Requests : GetClient(r) \/ Charge(r) \/ \E i \in IPs : Read(r, i)
  \/ Tick

Spec == Init /\ [][Next]_vars
-----------------------------------------------------------------------------
(* Properties.                                                             *)

\* The map never outgrows MaxIPs.
MaxIPsBound == Cardinality(Known(clients)) <= MaxIPs

\* No client is let through more often than its burst and its rate allow.
\* Each admission takes a token from a budget that grows at the IP's rate up
\* to its burst and forgets nothing, except what flowed in between the reading
\* of the clock and the charge; only the bound on the number of IPs restores a
\* budget early, and a charge to a bucket that bound dropped is not counted.
WithinBudget == \A i \in IPs : budget[i] >= 0

\* Dropping an idle client takes nothing back from the limiter: by the time its
\* entry is old enough its bucket is full and no request holds it, although the
\* entry may have been dated by a request older than the last charge.
IdleIsFull ==
  \A i \in Known(clients) : clients[i].idle >= IdleTTL =>
    /\ Available(clients[i].bucket, i, 0) = Burst[i]
    /\ \A r \in Requests : held[r] # clients[i].bucket

\* The requests of an IP all charge the bucket in the map, also those that
\* race to make it, except where the bound on IPs pushed theirs out: no trim
\* and no other request ever takes a bucket away from one about to charge it.
OneBucket ==
  \A r \in Requests : pc[r] = "charge" /\ r \notin displaced =>
    clients[ip[r]] # NoClient /\ clients[ip[r]].bucket = held[r]
=============================================================================
