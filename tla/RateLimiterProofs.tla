-------------------------- MODULE RateLimiterProofs --------------------------
(***************************************************************************)
(* Theorems about RateLimiter, for any IPs, rates, bursts and limits.      *)
(*                                                                         *)
(* The map passes through intermediate values within a step, as client()   *)
(* trims it, makes room and adds an entry, so the parts of the inductive   *)
(* invariant about the map take it as a parameter.                         *)
(***************************************************************************)
EXTENDS RateLimiter, FiniteSetTheorems, TLAPS

\* A request holds a bucket from client() to its charge.
Holding ==
  \A r \in Requests : IF pc[r] = "charge" THEN held[r] \in Buckets ELSE held[r] = 0

Budgets == \A i \in IPs : budget[i] \in 0..Burst[i]

MapType(c) ==
  /\ c \in [IPs -> Client \cup {NoClient}]
  /\ \A i \in Known(c) : tokens[c[i].bucket] <= Burst[i]

Counted(c) == IsFiniteSet(Known(c)) /\ Cardinality(Known(c)) <= MaxIPs

\* No two IPs share a bucket, be it in the map or held by a request.
Apart(c) ==
  \A i \in Known(c) :
    /\ \A j \in Known(c) : c[i].bucket = c[j].bucket => i = j
    /\ \A r \in Requests : held[r] = c[i].bucket => ip[r] = i

\* Whoever is about to charge a bucket keeps its entry from going idle.
Dated(c) ==
  \A r \in Requests :
    pc[r] = "charge" /\ ip[r] \in Known(c) /\ c[ip[r]].bucket = held[r] =>
      c[ip[r]].idle <= MaxLag + lag[r]

NotTaken(c) ==
  \A r \in Requests : pc[r] = "charge" /\ r \notin displaced =>
    ip[r] \in Known(c) /\ c[ip[r]].bucket = held[r]

\* A bucket was last charged at most MaxLag after its entry was last dated.
Refilled(c) == \A i \in Known(c) : c[i].idle <= MaxLag + since[c[i].bucket]

\* The limiter never holds more for an IP than one that forgets nothing.
Solvent(c) ==
  \A i \in IPs :
    IF i \in Known(c) THEN Available(c[i].bucket, i, 0) <= budget[i]
    ELSE budget[i] = Burst[i]

MapInv(c) ==
  MapType(c) /\ Counted(c) /\ Apart(c) /\ Dated(c) /\ NotTaken(c) /\ Refilled(c) /\ Solvent(c)

IInv == TypeOK /\ Holding /\ Budgets /\ MapInv(clients)

-----------------------------------------------------------------------------
(* Arithmetic.                                                             *)

LEMMA Monotone ==
  ASSUME NEW n \in Nat, NEW a \in Nat, NEW b \in Nat, a <= b
  PROVE  n * a <= n * b
<1>1. PICK d \in Nat : b = a + d
  <2>1. b - a \in Nat
    OBVIOUS
  <2> QED
    BY <2>1
<1>2. n * b = n * a + n * d
  BY <1>1
<1>3. n * a \in Nat /\ n * d \in Nat
  BY <1>1
<1> QED
  BY <1>2, <1>3

\* The constants, as far as the proofs need them.
LEMMA Constants ==
  /\ MaxLag \in Nat /\ IdleTTL \in Nat /\ TrimEvery \in Nat /\ MaxIPs \in Nat \ {0}
  /\ LongAgo \in Nat /\ LongAgo >= MaxLag + IdleTTL
  /\ IdleTTL > 2 * MaxLag
  /\ \A i \in IPs : Rate[i] \in Nat /\ Burst[i] \in Nat \ {0}
  /\ IsFiniteSet(Requests) /\ Cardinality(Requests) \in Nat
  /\ Buckets \subseteq Nat \ {0}
<1>1. Cardinality(Requests) \in Nat
  BY LimiterAssumption, FS_CardinalityType
<1> QED
  BY <1>1, LimiterAssumption DEF LongAgo, Buckets

LEMMA NoEntryApart == NoClient \notin Client
<1>1. Buckets \subseteq Nat /\ 0..LongAgo \subseteq Nat
  BY Constants
<1>2. Client \subseteq [bucket : Nat, idle : Nat]
  BY <1>1 DEF Client
<1> QED
  BY <1>2, LimiterAssumption

\* What a bucket holds is within its burst, and less in the past.
LEMMA Levels ==
  ASSUME NEW i \in IPs, NEW b \in Buckets, NEW l \in Nat,
         tokens[b] \in Nat, since[b] \in Nat
  PROVE  /\ Available(b, i, l) \in 0..Burst[i]
         /\ Available(b, i, l) <= Available(b, i, 0)
         /\ Available(b, i, 0) = AtMost(Burst[i], tokens[b] + Rate[i] * since[b])
<1> DEFINE flow(t) == IF since[b] > t THEN Rate[i] * (since[b] - t) ELSE 0
<1>1. Rate[i] \in Nat /\ Burst[i] \in Nat
  BY Constants
<1>2. flow(0) = Rate[i] * since[b] /\ flow(0) \in Nat
  <2>1. CASE since[b] = 0
    BY <2>1, <1>1
  <2>2. CASE since[b] # 0
    BY <2>2, <1>1
  <2> QED
    BY <2>1, <2>2
<1>3. flow(l) \in Nat /\ flow(l) <= flow(0)
  <2>1. CASE since[b] > l
    <3>1. since[b] - l \in Nat /\ since[b] - l <= since[b]
      BY <2>1
    <3>2. Rate[i] * (since[b] - l) <= Rate[i] * since[b]
      BY <3>1, <1>1, Monotone
    <3>3. Rate[i] * (since[b] - l) \in Nat
      BY <3>1, <1>1
    <3> QED
      BY <3>2, <3>3, <2>1, <1>2
  <2>2. CASE ~(since[b] > l)
    BY <2>2, <1>2
  <2> QED
    BY <2>1, <2>2
<1>4. \A t : Available(b, i, t) = AtMost(Burst[i], tokens[b] + flow(t))
  BY DEF Available
<1> HIDE DEF flow
<1> QED
  BY <1>1, <1>2, <1>3, <1>4 DEF AtMost

\* An entry that has been idle for IdleTTL has a full bucket nobody holds.
LEMMA IdleFull ==
  ASSUME TypeOK, Holding, NEW c, MapInv(c), NEW i \in Known(c), c[i].idle >= IdleTTL
  PROVE  /\ Available(c[i].bucket, i, 0) = Burst[i]
         /\ \A r \in Requests : held[r] # c[i].bucket
<1> DEFINE b == c[i].bucket
<1>1. i \in IPs /\ b \in Buckets /\ c[i].idle \in Nat
  BY Constants DEF MapInv, MapType, Known, Client
<1>2. tokens[b] \in Nat /\ since[b] \in Nat
  <2>1. tokens \in [Buckets -> Nat] /\ since \in [Buckets -> 0..LongAgo]
    BY DEF TypeOK
  <2>2. LongAgo \in Nat
    BY Constants
  <2>3. \A x \in Buckets : tokens[x] \in Nat /\ since[x] \in Nat
    BY <2>1, <2>2
  <2> QED
    BY <2>3, <1>1
<1>3. Available(b, i, 0) = Burst[i]
  <2>1. IdleTTL - MaxLag \in Nat /\ IdleTTL - MaxLag <= since[b]
    BY <1>1, <1>2, Constants DEF MapInv, Refilled
  <2>2. Rate[i] * (IdleTTL - MaxLag) <= Rate[i] * since[b]
    BY <2>1, <1>1, <1>2, Constants, Monotone
  <2>3. Rate[i] * (IdleTTL - MaxLag) >= Burst[i]
    BY <1>1, LimiterAssumption
  <2>4. Rate[i] * (IdleTTL - MaxLag) \in Nat /\ Rate[i] * since[b] \in Nat
    BY <2>1, <1>1, <1>2, Constants
  <2>5. Available(b, i, 0) = AtMost(Burst[i], tokens[b] + Rate[i] * since[b])
    BY <1>1, <1>2, Levels
  <2>6. Burst[i] \in Nat
    BY <1>1, Constants
  <2> QED
    BY <2>2, <2>3, <2>4, <2>5, <2>6, <1>2 DEF AtMost
<1>4. ASSUME NEW r \in Requests, held[r] = b PROVE FALSE
  <2>1. pc[r] = "charge" /\ ip[r] = i
    BY <1>1, <1>4, Constants DEF Holding, MapInv, Apart
  <2>2. c[i].idle <= MaxLag + lag[r]
    BY <2>1, <1>4 DEF MapInv, Dated
  <2>3. lag[r] \in 0..MaxLag
    BY DEF TypeOK
  <2> QED
    BY <2>2, <2>3, <1>1, Constants
<1> QED
  BY <1>3, <1>4

\* removeIdle keeps what holds of the map.
LEMMA RemoveIdleKeeps ==
  ASSUME TypeOK, Holding, Budgets, NEW c, MapInv(c), NEW l \in 0..MaxLag
  PROVE  MapInv(RemoveIdle(c, l))
<1> DEFINE d == RemoveIdle(c, l)
<1>1. \A i \in IPs : d[i] = IF c[i] # NoClient /\ Idle(c, i, l) THEN NoClient ELSE c[i]
  BY DEF RemoveIdle
<1>2. d \in [IPs -> Client \cup {NoClient}]
  BY <1>1 DEF RemoveIdle, MapInv, MapType
<1>3. Known(d) \subseteq Known(c) /\ \A i \in Known(d) : i \in IPs /\ d[i] = c[i]
  BY <1>1 DEF Known
<1>4. ASSUME NEW i \in IPs, i \in Known(c) \ Known(d)
      PROVE  budget[i] = Burst[i] /\ \A r \in Requests : held[r] # c[i].bucket
  <2>1. Idle(c, i, l) /\ i \in Known(c)
    BY <1>1, <1>4 DEF Known
  <2>2. c[i].idle \in Nat
    BY <1>4, Constants DEF MapInv, MapType, Known, Client
  <2>3. c[i].idle >= IdleTTL
    BY <2>1, <2>2, Constants DEF Idle
  <2>4. Available(c[i].bucket, i, 0) = Burst[i] /\ \A r \in Requests : held[r] # c[i].bucket
    BY <2>1, <2>3, IdleFull
  <2>5. Burst[i] <= budget[i]
    BY <2>1, <2>4 DEF MapInv, Solvent
  <2>6. budget[i] \in 0..Burst[i] /\ Burst[i] \in Nat
    BY Constants DEF Budgets
  <2> QED
    BY <2>4, <2>5, <2>6
<1> HIDE DEF d
<1>5. MapType(d)
  BY <1>2, <1>3 DEF MapInv, MapType
<1>6. Counted(d)
  <2>1. IsFiniteSet(Known(c)) /\ Cardinality(Known(c)) <= MaxIPs
    BY DEF MapInv, Counted
  <2>2. IsFiniteSet(Known(d)) /\ Cardinality(Known(d)) <= Cardinality(Known(c))
    BY <2>1, <1>3, FS_Subset
  <2>3. Cardinality(Known(d)) \in Nat /\ Cardinality(Known(c)) \in Nat
    BY <2>1, <2>2, FS_CardinalityType
  <2> QED
    BY <2>1, <2>2, <2>3, Constants DEF Counted
<1>7. Apart(d) /\ Dated(d) /\ Refilled(d)
  BY <1>3 DEF MapInv, Apart, Dated, Refilled
<1>8. NotTaken(d)
  <2> SUFFICES ASSUME NEW r \in Requests, pc[r] = "charge", r \notin displaced
               PROVE  ip[r] \in Known(d) /\ d[ip[r]].bucket = held[r]
    BY DEF NotTaken
  <2>1. ip[r] \in Known(c) /\ c[ip[r]].bucket = held[r] /\ ip[r] \in IPs
    BY DEF MapInv, NotTaken, Known
  <2> QED
    BY <2>1, <1>3, <1>4
<1>9. Solvent(d)
  <2> SUFFICES ASSUME NEW i \in IPs
               PROVE  IF i \in Known(d) THEN Available(d[i].bucket, i, 0) <= budget[i]
                      ELSE budget[i] = Burst[i]
    BY DEF Solvent
  <2> QED
    BY <1>3, <1>4 DEF MapInv, Solvent
<1> QED
  BY <1>5, <1>6, <1>7, <1>8, <1>9 DEF MapInv, d

-----------------------------------------------------------------------------
(* A new entry.                                                            *)

\* There are enough buckets for the map, short of one entry, and for all
\* requests but the one that needs a bucket.
LEMMA FreeBucket ==
  ASSUME NEW c, Known(c) \subseteq IPs, IsFiniteSet(Known(c)), Cardinality(Known(c)) < MaxIPs,
         NEW r \in Requests, pc[r] # "charge"
  PROVE  \E x \in Buckets : x \notin Referenced(c)
<1> DEFINE charging == {q \in Requests : pc[q] = "charge"}
           mapped == {c[i].bucket : i \in Known(c)}
           taken == {held[q] : q \in charging}
<1>1. IsFiniteSet(mapped) /\ Cardinality(mapped) <= Cardinality(Known(c))
  <2> DEFINE f == [i \in Known(c) |-> c[i].bucket]
  <2>1. f \in Surjection(Known(c), mapped)
    BY DEF Surjection
  <2> QED
    BY <2>1, FS_Surjection
<1>2. IsFiniteSet(charging) /\ Cardinality(charging) <= Cardinality(Requests) - 1
  <2>1. charging \subseteq Requests \ {r}
    OBVIOUS
  <2>2. IsFiniteSet(Requests \ {r}) /\ Cardinality(Requests \ {r}) = Cardinality(Requests) - 1
    BY Constants, FS_RemoveElement
  <2> QED
    BY <2>1, <2>2, FS_Subset
<1>3. IsFiniteSet(taken) /\ Cardinality(taken) <= Cardinality(charging)
  <2> DEFINE f == [q \in charging |-> held[q]]
  <2>1. f \in Surjection(charging, taken)
    BY DEF Surjection
  <2> QED
    BY <2>1, <1>2, FS_Surjection
<1> DEFINE all == mapped \cup taken
<1>4. Referenced(c) = all
  BY DEF Referenced
<1>5. IsFiniteSet(all)
      /\ Cardinality(all) = Cardinality(mapped) + Cardinality(taken) - Cardinality(mapped \cap taken)
  BY <1>1, <1>3, FS_Union
<1>6. Cardinality(mapped \cap taken) \in Nat
  BY <1>1, FS_Intersection, FS_CardinalityType
<1>7. Cardinality(mapped) \in Nat /\ Cardinality(taken) \in Nat /\ Cardinality(charging) \in Nat
      /\ Cardinality(Known(c)) \in Nat
  BY <1>1, <1>2, <1>3, FS_CardinalityType
<1>8. Cardinality(all) < MaxIPs + Cardinality(Requests)
  BY <1>1, <1>2, <1>3, <1>5, <1>6, <1>7, Constants
<1>9. IsFiniteSet(Buckets) /\ Cardinality(Buckets) = MaxIPs + Cardinality(Requests)
  <2>1. MaxIPs + Cardinality(Requests) \in Nat /\ MaxIPs + Cardinality(Requests) >= 1
    BY Constants
  <2> DEFINE n == MaxIPs + Cardinality(Requests)
  <2>2. IsFiniteSet(1..n) /\ Cardinality(1..n) = IF 1 > n THEN 0 ELSE n - 1 + 1
    BY <2>1, FS_Interval
  <2> QED
    BY <2>1, <2>2 DEF Buckets
<1>10. SUFFICES ASSUME Buckets \subseteq all PROVE FALSE
  BY <1>4
<1>11. Cardinality(Buckets) <= Cardinality(all)
  BY <1>5, <1>10, FS_Subset
<1>12. Cardinality(all) \in Nat
  BY <1>5, FS_CardinalityType
<1> QED
  BY <1>8, <1>9, <1>11, <1>12, Constants

\* removeOldest leaves room for one entry.
LEMMA RoomForOne ==
  ASSUME NEW c, Counted(c), NEW V \in Oldest(c)
  PROVE  /\ V \subseteq Known(c)
         /\ Known(Drop(c, V)) = Known(c) \ V
         /\ IsFiniteSet(Known(c) \ V)
         /\ Cardinality(Known(c) \ V) < MaxIPs
<1>1. V \subseteq Known(c)
      /\ Cardinality(V) = IF Cardinality(Known(c)) >= MaxIPs
                          THEN Cardinality(Known(c)) - MaxIPs + 1 ELSE 0
  BY DEF Oldest
<1>2. Known(Drop(c, V)) = Known(c) \ V
  <2>1. \A i \in IPs : Drop(c, V)[i] = IF i \in V THEN NoClient ELSE c[i]
    BY DEF Drop
  <2> QED
    BY <2>1 DEF Known
<1>3. IsFiniteSet(Known(c)) /\ Cardinality(Known(c)) \in Nat /\ Cardinality(Known(c)) <= MaxIPs
  BY FS_CardinalityType DEF Counted
<1>4. IsFiniteSet(Known(c) \ V)
      /\ Cardinality(Known(c) \ V) = Cardinality(Known(c)) - Cardinality(Known(c) \cap V)
  BY <1>3, FS_Difference
<1>5. Known(c) \cap V = V
  BY <1>1
<1>6. Cardinality(Known(c) \ V) < MaxIPs
  <2>1. MaxIPs \in Nat \ {0}
    BY Constants
  <2> QED
    BY <2>1, <1>1, <1>3, <1>4, <1>5
<1> QED
  BY <1>1, <1>2, <1>4, <1>6

-----------------------------------------------------------------------------
(* client() and its caller.                                                *)

\* An entry that is there is dated anew.
LEMMA FoundKeeps ==
  ASSUME TypeOK, Holding, Budgets, NEW c, MapInv(c), NEW r \in Requests,
         pc[r] = "client", c[ip[r]] # NoClient,
         clients' = [c EXCEPT ![ip[r]].idle = lag[r]],
         held' = [held EXCEPT ![r] = c[ip[r]].bucket],
         pc' = [pc EXCEPT ![r] = "charge"],
         UNCHANGED <<tokens, since, budget, displaced, ip, lag>>
  PROVE  MapInv(clients)' /\ Holding' /\ Budgets'
<1> DEFINE i == ip[r]
<1>1. i \in IPs /\ i \in Known(c) /\ lag[r] \in 0..MaxLag
  BY DEF TypeOK, Known
<1>2. MaxLag \in Nat /\ LongAgo \in Nat /\ MaxLag <= LongAgo /\ 0 \notin Buckets
  BY Constants
<1>3. c \in [IPs -> Client \cup {NoClient}] /\ \A j \in Known(c) : c[j] \in Client
  BY DEF MapInv, MapType, Known
<1>4. \A j \in IPs : j # i => clients'[j] = c[j]
  BY <1>3
<1>5. clients'[i] = [bucket |-> c[i].bucket, idle |-> lag[r]] /\ clients'[i] \in Client
  <2>1. clients'[i] = [c[i] EXCEPT !.idle = lag[r]]
    BY <1>1, <1>3
  <2>2. c[i] \in Client
    BY <1>1, <1>3
  <2> QED
    BY <2>1, <2>2, <1>1, <1>2 DEF Client
<1>6. Known(clients)' = Known(c)
  <2>1. NoClient \notin Client
    BY NoEntryApart
  <2> QED
    BY <2>1, <1>1, <1>4, <1>5 DEF Known
<1>7. \A j \in Known(c) : /\ clients'[j].bucket = c[j].bucket
                          /\ clients'[j].idle = IF j = i THEN lag[r] ELSE c[j].idle
  BY <1>4, <1>5 DEF Known
<1>8. MapType(clients)'
  <2>1. clients' \in [IPs -> Client \cup {NoClient}]
    BY <1>1, <1>3, <1>4, <1>5
  <2>2. \A j \in Known(c) : tokens[c[j].bucket] <= Burst[j]
    BY DEF MapInv, MapType
  <2> QED
    BY <2>1, <2>2, <1>6, <1>7 DEF MapType
<1>9. \A q \in Requests : /\ held'[q] = IF q = r THEN c[i].bucket ELSE held[q]
                          /\ pc'[q] = IF q = r THEN "charge" ELSE pc[q]
  BY DEF TypeOK
<1> HIDE DEF i
<1>10. Counted(clients)'
  BY <1>6 DEF MapInv, Counted
<1>11. Apart(clients)'
  <2> SUFFICES ASSUME NEW j \in Known(c)
               PROVE  /\ \A k \in Known(c) : c[j].bucket = c[k].bucket => j = k
                      /\ \A q \in Requests : held'[q] = c[j].bucket => ip[q] = j
    BY <1>6, <1>7 DEF Apart
  <2>1. /\ \A k \in Known(c) : c[j].bucket = c[k].bucket => j = k
        /\ \A q \in Requests : held[q] = c[j].bucket => ip[q] = j
    BY DEF MapInv, Apart
  <2> QED
    BY <2>1, <1>1, <1>9 DEF i
<1>12. Dated(clients)'
  <2> SUFFICES ASSUME NEW q \in Requests, pc'[q] = "charge",
                      ip[q] \in Known(c), c[ip[q]].bucket = held'[q]
               PROVE  clients'[ip[q]].idle <= MaxLag + lag[q]
    BY <1>6, <1>7 DEF Dated
  <2>1. lag[q] \in 0..MaxLag
    BY DEF TypeOK
  <2>2. CASE ip[q] = i
    BY <2>1, <2>2, <1>1, <1>2, <1>7
  <2>3. CASE ip[q] # i
    BY <2>3, <1>7, <1>9 DEF MapInv, Dated, i
  <2> QED
    BY <2>2, <2>3
<1>13. NotTaken(clients)'
  BY <1>1, <1>6, <1>7, <1>9 DEF MapInv, NotTaken, i
<1>14. Refilled(clients)'
  <2> SUFFICES ASSUME NEW j \in Known(c)
               PROVE  clients'[j].idle <= MaxLag + since[c[j].bucket]
    BY <1>6, <1>7 DEF Refilled
  <2>1. c[j].bucket \in Buckets
    BY <1>3 DEF Client
  <2>2. since[c[j].bucket] \in Nat
    BY <2>1, Constants DEF TypeOK
  <2>3. c[j].idle <= MaxLag + since[c[j].bucket]
    BY DEF MapInv, Refilled
  <2> QED
    BY <2>2, <2>3, <1>1, <1>2, <1>7
<1>15. Solvent(clients)'
  BY <1>6, <1>7 DEF MapInv, Solvent, Available
<1>16. Holding'
  <2>1. c[i].bucket \in Buckets
    BY <1>1, <1>3 DEF Client
  <2> QED
    BY <2>1, <1>9 DEF Holding
<1>17. Budgets'
  BY DEF Budgets
<1> QED
  BY <1>8, <1>10, <1>11, <1>12, <1>13, <1>14, <1>15, <1>16, <1>17 DEF MapInv

\* An entry that is not there is made, with a bucket nobody uses.
LEMMA MadeKeeps ==
  ASSUME TypeOK, Holding, Budgets, NEW c, MapInv(c), NEW r \in Requests,
         pc[r] = "client", c[ip[r]] = NoClient,
         NEW V \in Oldest(c), NEW b \in Buckets, b \notin Referenced(Drop(c, V)),
         clients' = [Drop(c, V) EXCEPT ![ip[r]] = [bucket |-> b, idle |-> lag[r]]],
         held' = [held EXCEPT ![r] = b],
         tokens' = [tokens EXCEPT ![b] = NewTokens(ip[r])],
         since' = [since EXCEPT ![b] = lag[r]],
         budget' = [j \in IPs |-> IF j \in V THEN Burst[j] ELSE budget[j]],
         displaced' = displaced \cup {q \in Requests : pc[q] = "charge" /\ ip[q] \in V},
         pc' = [pc EXCEPT ![r] = "charge"],
         UNCHANGED <<ip, lag>>
  PROVE  MapInv(clients)' /\ Holding' /\ Budgets'
<1> DEFINE i == ip[r]
           K == Known(c) \ V
<1>1. i \in IPs /\ i \notin Known(c) /\ lag[r] \in 0..MaxLag
  BY DEF TypeOK, Known
<1>2. MaxLag \in Nat /\ LongAgo \in Nat /\ MaxLag <= LongAgo /\ 0 \notin Buckets
  BY Constants
<1>3. c \in [IPs -> Client \cup {NoClient}] /\ \A j \in Known(c) : c[j] \in Client
  BY DEF MapInv, MapType, Known
<1>4. /\ V \subseteq Known(c) /\ Known(Drop(c, V)) = K
      /\ IsFiniteSet(K) /\ Cardinality(K) < MaxIPs
  BY RoomForOne DEF MapInv
<1>5. /\ \A j \in IPs : Drop(c, V)[j] = IF j \in V THEN NoClient ELSE c[j]
      /\ Drop(c, V) \in [IPs -> Client \cup {NoClient}]
  BY <1>3 DEF Drop
<1>6. \A j \in K : j \in IPs /\ j # i /\ j \in Known(c)
                 /\ Drop(c, V)[j] = c[j] /\ clients'[j] = c[j]
  BY <1>1, <1>5 DEF Known
<1>7. clients'[i] = [bucket |-> b, idle |-> lag[r]] /\ clients'[i] \in Client
  <2>1. clients'[i] = [bucket |-> b, idle |-> lag[r]]
    BY <1>1, <1>5
  <2>2. lag[r] \in 0..LongAgo
    BY <1>1, <1>2
  <2> QED
    BY <2>1, <2>2 DEF Client
<1>8. Known(clients)' = K \cup {i}
  <2>1. NoClient \notin Client
    BY NoEntryApart
  <2>2. \A j \in IPs \ {i} : clients'[j] = IF j \in V THEN NoClient ELSE c[j]
    BY <1>5
  <2> QED
    BY <2>1, <2>2, <1>1, <1>7 DEF Known
<1>9. \A j \in K : c[j].bucket # b
  BY <1>4, <1>6 DEF Referenced
<1>10. \A q \in Requests : pc[q] = "charge" => held[q] # b
  BY DEF Referenced
<1>11. \A q \in Requests : /\ held'[q] = IF q = r THEN b ELSE held[q]
                           /\ pc'[q] = IF q = r THEN "charge" ELSE pc[q]
  BY DEF TypeOK
<1>12. \A j \in K : /\ c[j].bucket \in Buckets
                    /\ tokens'[c[j].bucket] = tokens[c[j].bucket]
                    /\ since'[c[j].bucket] = since[c[j].bucket]
  BY <1>3, <1>6, <1>9 DEF TypeOK, Client
<1>13. tokens'[b] = Burst[i] /\ since'[b] = lag[r]
  BY DEF TypeOK, NewTokens
<1>14. \A j \in IPs : budget'[j] = IF j \in V THEN Burst[j] ELSE budget[j]
  OBVIOUS
<1>15. clients' \in [IPs -> Client \cup {NoClient}]
  BY <1>1, <1>5, <1>7
<1>16. Burst[i] \in Nat
  BY <1>1, Constants
<1> HIDE DEF i, K
<1>17. MapType(clients)'
  <2>1. \A j \in K : tokens[c[j].bucket] <= Burst[j]
    BY <1>6 DEF MapInv, MapType
  <2>2. \A j \in K \cup {i} : tokens'[clients'[j].bucket] <= Burst[j]
    BY <2>1, <1>6, <1>7, <1>12, <1>13, <1>16
  <2> QED
    BY <2>2, <1>8, <1>15 DEF MapType
<1>18. Counted(clients)'
  <2>1. IsFiniteSet(K \cup {i})
        /\ Cardinality(K \cup {i}) = IF i \in K THEN Cardinality(K) ELSE Cardinality(K) + 1
    BY <1>4, FS_AddElement
  <2>2. Cardinality(K) \in Nat
    BY <1>4, FS_CardinalityType
  <2>3. MaxIPs \in Nat
    BY Constants
  <2>4. Cardinality(K \cup {i}) <= MaxIPs
    BY <2>1, <2>2, <2>3, <1>4
  <2> QED
    BY <2>1, <2>4, <1>8 DEF Counted
<1>19. Apart(clients)'
  <2> SUFFICES ASSUME NEW j \in K \cup {i}
               PROVE  /\ \A k \in K \cup {i} : clients'[j].bucket = clients'[k].bucket => j = k
                      /\ \A q \in Requests : held'[q] = clients'[j].bucket => ip[q] = j
    BY <1>8 DEF Apart
  <2>1. CASE j = i
    <3>1. clients'[j].bucket = b
      BY <2>1, <1>7
    <3>2. \A k \in K : clients'[k].bucket # b
      BY <1>6, <1>9
    <3>3. \A q \in Requests : held'[q] = b => q = r
      BY <1>2, <1>10, <1>11 DEF Holding
    <3> QED
      BY <2>1, <3>1, <3>2, <3>3 DEF i
  <2>2. CASE j \in K
    <3>1. clients'[j].bucket = c[j].bucket /\ c[j].bucket # b
      BY <2>2, <1>6, <1>9
    <3>2. \A k \in K : clients'[k].bucket = c[j].bucket => k = j
      BY <2>2, <1>6 DEF MapInv, Apart
    <3>3. clients'[i].bucket # c[j].bucket
      BY <3>1, <1>7
    <3>4. \A q \in Requests : held'[q] = c[j].bucket => ip[q] = j
      BY <2>2, <3>1, <1>6, <1>11 DEF MapInv, Apart
    <3> QED
      BY <3>1, <3>2, <3>3, <3>4
  <2> QED
    BY <2>1, <2>2
<1>20. Dated(clients)'
  <2> SUFFICES ASSUME NEW q \in Requests, pc'[q] = "charge",
                      ip[q] \in K \cup {i}, clients'[ip[q]].bucket = held'[q]
               PROVE  clients'[ip[q]].idle <= MaxLag + lag[q]
    BY <1>8 DEF Dated
  <2>1. lag[q] \in 0..MaxLag
    BY DEF TypeOK
  <2>2. CASE ip[q] = i
    BY <2>1, <2>2, <1>1, <1>2, <1>7
  <2>3. CASE ip[q] \in K
    <3>1. q # r
      BY <2>3, <1>6 DEF i
    <3> QED
      BY <2>3, <3>1, <1>6, <1>11 DEF MapInv, Dated
  <2> QED
    BY <2>2, <2>3
<1>21. NotTaken(clients)'
  <2> SUFFICES ASSUME NEW q \in Requests, pc'[q] = "charge", q \notin displaced'
               PROVE  ip[q] \in K \cup {i} /\ clients'[ip[q]].bucket = held'[q]
    BY <1>8 DEF NotTaken
  <2>1. CASE q = r
    BY <2>1, <1>7, <1>11 DEF i
  <2>2. CASE q # r
    <3>1. pc[q] = "charge" /\ q \notin displaced /\ ip[q] \notin V
      BY <2>2, <1>11
    <3>2. ip[q] \in Known(c) /\ c[ip[q]].bucket = held[q]
      BY <3>1 DEF MapInv, NotTaken
    <3>3. ip[q] \in K
      BY <3>1, <3>2 DEF K
    <3> QED
      BY <2>2, <3>2, <3>3, <1>6, <1>11
  <2> QED
    BY <2>1, <2>2
<1>22. Refilled(clients)'
  <2> SUFFICES ASSUME NEW j \in K \cup {i}
               PROVE  clients'[j].idle <= MaxLag + since'[clients'[j].bucket]
    BY <1>8 DEF Refilled
  <2>1. CASE j = i
    BY <2>1, <1>1, <1>2, <1>7, <1>13
  <2>2. CASE j \in K
    BY <2>2, <1>6, <1>12 DEF MapInv, Refilled
  <2> QED
    BY <2>1, <2>2
<1>23. Solvent(clients)'
  <2> SUFFICES ASSUME NEW j \in IPs
               PROVE  IF j \in K \cup {i} THEN Available(clients[j].bucket, j, 0)' <= budget'[j]
                      ELSE budget'[j] = Burst[j]
    BY <1>8 DEF Solvent
  <2>1. CASE j = i
    <3>1. budget'[j] = Burst[j]
      BY <2>1, <1>1, <1>4, <1>14 DEF MapInv, Solvent
    <3>2. Available(clients[j].bucket, j, 0)' = AtMost(Burst[j], Burst[j] + IF lag[r] > 0 THEN Rate[j] * (lag[r] - 0) ELSE 0)
      BY <2>1, <1>7, <1>13 DEF Available
    <3>3. (IF lag[r] > 0 THEN Rate[j] * (lag[r] - 0) ELSE 0) \in Nat
      BY <1>1, Constants
    <3> QED
      BY <2>1, <3>1, <3>2, <3>3, <1>16 DEF AtMost
  <2>2. CASE j \in K
    <3>1. Available(clients[j].bucket, j, 0)' = Available(c[j].bucket, j, 0)
      BY <2>2, <1>6, <1>12 DEF Available
    <3> QED
      BY <2>2, <3>1, <1>6, <1>14 DEF MapInv, Solvent, K
  <2>3. CASE j \notin K \cup {i}
    BY <2>3, <1>14 DEF MapInv, Solvent, K
  <2> QED
    BY <2>1, <2>2, <2>3
<1>24. Holding'
  BY <1>11 DEF Holding
<1>25. Budgets'
  <2>1. \A j \in IPs : Burst[j] \in Nat
    BY Constants
  <2> QED
    BY <2>1, <1>14 DEF Budgets
<1> QED
  BY <1>17, <1>18, <1>19, <1>20, <1>21, <1>22, <1>23, <1>24, <1>25 DEF MapInv

LEMMA FindOrMakeKeeps ==
  ASSUME TypeOK, Holding, Budgets, NEW c, MapInv(c), NEW r \in Requests,
         pc[r] = "client", FindOrMake(r, ip[r], c),
         pc' = [pc EXCEPT ![r] = "charge"], UNCHANGED <<ip, lag>>
  PROVE  /\ MapInv(clients)' /\ Holding' /\ Budgets'
         /\ tokens' \in [Buckets -> Nat]
         /\ since' \in [Buckets -> 0..LongAgo]
         /\ held' \in [Requests -> Buckets \cup {0}]
         /\ budget' \in [IPs -> Int]
         /\ displaced' \subseteq {q \in Requests : pc'[q] = "charge"}
<1> DEFINE i == ip[r]
<1>1. i \in IPs /\ lag[r] \in 0..LongAgo /\ \A j \in IPs : Burst[j] \in Nat
  <2>1. i \in IPs /\ lag[r] \in 0..MaxLag
    BY DEF TypeOK
  <2> QED
    BY <2>1, Constants
<1>2. CASE c[i] # NoClient /\ clients' = [c EXCEPT ![i].idle = lag[r]]
           /\ held' = [held EXCEPT ![r] = c[i].bucket]
           /\ UNCHANGED <<tokens, since, budget, displaced>>
  <2>1. MapInv(clients)' /\ Holding' /\ Budgets'
    BY <1>2, FoundKeeps
  <2>2. c[i].bucket \in Buckets
    BY <1>1, <1>2 DEF MapInv, MapType, Client
  <2> QED
    BY <2>1, <2>2, <1>2 DEF TypeOK
<1>3. CASE /\ c[i] = NoClient
           /\ LET room == IF Cardinality(Known(c)) >= MaxIPs THEN RemoveIdle(c, lag[r]) ELSE c IN
              \E V \in Oldest(room) :
                LET b == CHOOSE x \in Buckets : x \notin Referenced(Drop(room, V)) IN
                /\ clients' = [Drop(room, V) EXCEPT ![i] = [bucket |-> b, idle |-> lag[r]]]
                /\ held' = [held EXCEPT ![r] = b]
                /\ tokens' = [tokens EXCEPT ![b] = NewTokens(i)]
                /\ since' = [since EXCEPT ![b] = lag[r]]
                /\ budget' = [j \in IPs |-> IF j \in V THEN Burst[j] ELSE budget[j]]
                /\ displaced' = displaced \cup {q \in Requests : pc[q] = "charge" /\ ip[q] \in V}
  <2> DEFINE room == IF Cardinality(Known(c)) >= MaxIPs THEN RemoveIdle(c, lag[r]) ELSE c
  <2>1. PICK V \in Oldest(room) :
          LET b == CHOOSE x \in Buckets : x \notin Referenced(Drop(room, V)) IN
          /\ clients' = [Drop(room, V) EXCEPT ![i] = [bucket |-> b, idle |-> lag[r]]]
          /\ held' = [held EXCEPT ![r] = b]
          /\ tokens' = [tokens EXCEPT ![b] = NewTokens(i)]
          /\ since' = [since EXCEPT ![b] = lag[r]]
          /\ budget' = [j \in IPs |-> IF j \in V THEN Burst[j] ELSE budget[j]]
          /\ displaced' = displaced \cup {q \in Requests : pc[q] = "charge" /\ ip[q] \in V}
    BY <1>3
  <2>2. MapInv(RemoveIdle(c, lag[r]))
    <3>1. lag[r] \in 0..MaxLag
      BY DEF TypeOK
    <3> QED
      BY <3>1, RemoveIdleKeeps
  <2>3. RemoveIdle(c, lag[r])[i] = NoClient
    BY <1>1, <1>3 DEF RemoveIdle
  <2>4. MapInv(room) /\ room[i] = NoClient
    BY <2>2, <2>3, <1>3
  <2> HIDE DEF room
  <2> DEFINE b == CHOOSE x \in Buckets : x \notin Referenced(Drop(room, V))
  <2>5. b \in Buckets /\ b \notin Referenced(Drop(room, V))
    <3>1. /\ Known(Drop(room, V)) = Known(room) \ V
          /\ IsFiniteSet(Known(room) \ V) /\ Cardinality(Known(room) \ V) < MaxIPs
      BY <2>4, RoomForOne DEF MapInv
    <3>2. Known(Drop(room, V)) \subseteq IPs
      BY DEF Known
    <3>3. \E x \in Buckets : x \notin Referenced(Drop(room, V))
      BY <3>1, <3>2, FreeBucket
    <3> QED
      BY <3>3
  <2> HIDE DEF b
  <2>6. /\ clients' = [Drop(room, V) EXCEPT ![i] = [bucket |-> b, idle |-> lag[r]]]
        /\ held' = [held EXCEPT ![r] = b]
        /\ tokens' = [tokens EXCEPT ![b] = NewTokens(i)]
        /\ since' = [since EXCEPT ![b] = lag[r]]
        /\ budget' = [j \in IPs |-> IF j \in V THEN Burst[j] ELSE budget[j]]
        /\ displaced' = displaced \cup {q \in Requests : pc[q] = "charge" /\ ip[q] \in V}
    BY <2>1 DEF b
  <2>7. MapInv(clients)' /\ Holding' /\ Budgets'
    BY <2>4, <2>5, <2>6, MadeKeeps
  <2>8. /\ tokens' \in [Buckets -> Nat] /\ since' \in [Buckets -> 0..LongAgo]
        /\ held' \in [Requests -> Buckets \cup {0}]
    BY <2>5, <2>6, <1>1 DEF TypeOK, NewTokens
  <2>9. budget' \in [IPs -> Int]
    BY <2>6, <1>1 DEF TypeOK
  <2>10. displaced' \subseteq {q \in Requests : pc'[q] = "charge"}
    BY <2>6 DEF TypeOK
  <2> QED
    BY <2>7, <2>8, <2>9, <2>10
<1> QED
  BY <1>2, <1>3 DEF FindOrMake

LEMMA GetClientKeeps ==
  ASSUME IInv, NEW r \in Requests, GetClient(r)
  PROVE  IInv'
<1>1. lag[r] \in 0..MaxLag /\ pc[r] = "client" /\ pc' = [pc EXCEPT ![r] = "charge"]
      /\ UNCHANGED <<ip, lag>>
  BY DEF IInv, TypeOK, GetClient
<1>2. MapInv(RemoveIdle(clients, lag[r]))
  BY <1>1, RemoveIdleKeeps DEF IInv
<1>3. \E c : MapInv(c) /\ FindOrMake(r, ip[r], c)
  BY <1>2 DEF IInv, GetClient
<1>4. /\ MapInv(clients)' /\ Holding' /\ Budgets'
      /\ tokens' \in [Buckets -> Nat]
      /\ since' \in [Buckets -> 0..LongAgo]
      /\ held' \in [Requests -> Buckets \cup {0}]
      /\ budget' \in [IPs -> Int]
      /\ displaced' \subseteq {q \in Requests : pc'[q] = "charge"}
  <2>1. PICK c : MapInv(c) /\ FindOrMake(r, ip[r], c)
    BY <1>3
  <2> QED
    BY <2>1, <1>1, FindOrMakeKeeps DEF IInv
<1>5. sinceTrim' \in 0..LongAgo
  <2>1. lag[r] \in 0..LongAgo
    BY <1>1, Constants
  <2> QED
    BY <2>1 DEF IInv, TypeOK, GetClient
<1>6. pc' \in [Requests -> {"idle", "client", "charge"}] /\ ip' \in [Requests -> IPs]
      /\ lag' \in [Requests -> 0..MaxLag]
  BY <1>1 DEF IInv, TypeOK
<1>7. /\ clients' \in [IPs -> Client \cup {NoClient}]
      /\ \A i \in IPs : clients'[i] # NoClient => tokens'[clients'[i].bucket] <= Burst[i]
  BY <1>4 DEF MapInv, MapType, Known
<1>8. TypeOK'
  BY <1>4, <1>5, <1>6, <1>7 DEF TypeOK
<1> QED
  BY <1>4, <1>8 DEF IInv

-----------------------------------------------------------------------------
(* The other steps.                                                        *)

LEMMA InitKeeps == Init => IInv
<1> SUFFICES ASSUME Init PROVE IInv
  OBVIOUS
<1>1. Known(clients) = {}
  BY DEF Init, Known
<1>2. TypeOK
  <2>1. LongAgo \in Nat /\ MaxLag \in Nat /\ \A i \in IPs : Burst[i] \in Nat
    BY Constants
  <2>2. budget \in [IPs -> Int]
    BY LimiterAssumption DEF Init
  <2> QED
    BY <2>1, <2>2 DEF Init, TypeOK
<1>3. Holding /\ Budgets
  BY Constants DEF Init, Holding, Budgets
<1>4. Counted(clients)
  BY <1>1, FS_EmptySet, Constants DEF Counted
<1>5. MapType(clients) /\ Apart(clients) /\ Refilled(clients) /\ Solvent(clients)
  BY <1>1 DEF Init, MapType, Apart, Refilled, Solvent
<1>6. Dated(clients) /\ NotTaken(clients)
  BY DEF Init, Dated, NotTaken
<1> QED
  BY <1>2, <1>3, <1>4, <1>5, <1>6 DEF IInv, MapInv

LEMMA ReadKeeps ==
  ASSUME IInv, NEW r \in Requests, NEW i \in IPs, Read(r, i)
  PROVE  IInv'
<1>1. TypeOK'
  BY DEF IInv, TypeOK, Read
<1>2. \A q \in Requests : /\ pc'[q] = "charge" <=> pc[q] = "charge"
                          /\ pc[q] = "charge" => ip'[q] = ip[q]
                          /\ held[q] # 0 => ip'[q] = ip[q]
  BY DEF IInv, TypeOK, Read, Holding
<1>3. Holding' /\ Budgets'
  BY <1>2 DEF IInv, Read, Holding, Budgets
<1>4. Apart(clients)'
  <2>1. \A j \in Known(clients) : clients[j].bucket # 0
    BY Constants DEF IInv, MapInv, MapType, Known, Client
  <2>2. Apart(clients)
    BY DEF IInv, MapInv
  <2>3. clients' = clients /\ held' = held
    BY DEF Read
  <2> QED
    <3> SUFFICES ASSUME NEW j \in Known(clients)
                 PROVE  /\ \A k \in Known(clients) : clients[j].bucket = clients[k].bucket => j = k
                        /\ \A q \in Requests : held[q] = clients[j].bucket => ip'[q] = j
      BY <2>3 DEF Apart, Known
    <3>1. \A q \in Requests : held[q] = clients[j].bucket => ip[q] = j /\ held[q] # 0
      BY <2>1, <2>2 DEF Apart
    <3>2. \A k \in Known(clients) : clients[j].bucket = clients[k].bucket => j = k
      BY <2>2 DEF Apart
    <3>3. \A q \in Requests : held[q] = clients[j].bucket => ip'[q] = j
      BY <3>1, <1>2
    <3> QED
      BY <3>2, <3>3
<1>5. Dated(clients)' /\ NotTaken(clients)'
  BY <1>2 DEF IInv, MapInv, Read, Dated, NotTaken, Known
<1>6. MapType(clients)' /\ Counted(clients)' /\ Refilled(clients)' /\ Solvent(clients)'
  BY DEF IInv, MapInv, Read, MapType, Counted, Refilled, Solvent, Known, Available
<1> QED
  BY <1>1, <1>3, <1>4, <1>5, <1>6 DEF IInv, MapInv

\* A token that is taken from a bucket of the map is taken from the budget.
LEMMA ChargeKeeps ==
  ASSUME IInv, NEW r \in Requests, Charge(r)
  PROVE  IInv'
<1> DEFINE b == held[r]
           i == ip[r]
           n == Available(b, i, lag[r])
<1>1. i \in IPs /\ b \in Buckets /\ lag[r] \in 0..MaxLag /\ pc[r] = "charge"
  BY DEF IInv, TypeOK, Holding, Charge
<1>2. MaxLag \in Nat /\ LongAgo \in Nat /\ MaxLag <= LongAgo /\ 0 \notin Buckets
      /\ Rate[i] \in Nat /\ Burst[i] \in Nat
  BY <1>1, Constants
<1>3. tokens \in [Buckets -> Nat] /\ since \in [Buckets -> Nat]
  <2>1. tokens \in [Buckets -> Nat] /\ since \in [Buckets -> 0..LongAgo]
    BY DEF IInv, TypeOK
  <2> QED
    BY <2>1, <1>2
<1>4. n \in 0..Burst[i] /\ n <= Available(b, i, 0)
  <2>1. tokens[b] \in Nat /\ since[b] \in Nat
    BY <1>1, <1>3
  <2> QED
    BY <2>1, <1>1, Levels
<1>5. /\ clients' = clients /\ ip' = ip /\ sinceTrim' = sinceTrim
      /\ pc' = [pc EXCEPT ![r] = "idle"] /\ displaced' = displaced \ {r}
      /\ lag' = [lag EXCEPT ![r] = 0] /\ held' = [held EXCEPT ![r] = 0]
  BY DEF Charge
<1>6. \A q \in Requests : /\ pc'[q] = IF q = r THEN "idle" ELSE pc[q]
                          /\ held'[q] = IF q = r THEN 0 ELSE held[q]
                          /\ lag'[q] = IF q = r THEN 0 ELSE lag[q]
  <2>1. /\ pc \in [Requests -> {"idle", "client", "charge"}]
        /\ held \in [Requests -> Buckets \cup {0}]
        /\ lag \in [Requests -> 0..MaxLag]
    BY DEF IInv, TypeOK
  <2>2. \A q \in Requests : pc'[q] = IF q = r THEN "idle" ELSE pc[q]
    BY <2>1, <1>5
  <2>3. \A q \in Requests : held'[q] = IF q = r THEN 0 ELSE held[q]
    BY <2>1, <1>5
  <2>4. \A q \in Requests : lag'[q] = IF q = r THEN 0 ELSE lag[q]
    BY <2>1, <1>5
  <2> QED
    BY <2>2, <2>3, <2>4
<1>7. \/ /\ n >= 1
         /\ tokens' = [tokens EXCEPT ![b] = n - 1]
         /\ since' = [since EXCEPT ![b] = lag[r]]
         /\ budget' = IF clients[i] # NoClient /\ clients[i].bucket = b
                      THEN [budget EXCEPT ![i] = AtMost(Burst[i], @ - 1 + Rate[i] * lag[r])]
                      ELSE budget
      \/ UNCHANGED <<tokens, since, budget>>
  BY DEF Charge
<1> HIDE DEF n
<1>8. clients \in [IPs -> Client \cup {NoClient}] /\ \A j \in Known(clients) : clients[j].bucket \in Buckets
  BY DEF IInv, MapInv, MapType, Known, Client
<1>9. \A j \in Known(clients) : clients[j].bucket = b => j = i
  BY DEF IInv, MapInv, Apart
<1>10. Rate[i] * lag[r] \in Nat
  BY <1>1, <1>2
<1>11. MapType(clients) /\ Apart(clients) /\ Dated(clients) /\ NotTaken(clients)
       /\ Refilled(clients) /\ Solvent(clients) /\ Counted(clients) /\ Holding /\ Budgets
  BY DEF IInv, MapInv
<1>12. Holding'
  BY <1>5, <1>6, <1>11 DEF Holding
<1>13. Counted(clients)'
  BY <1>5, <1>11 DEF Counted, Known
<1>14. Apart(clients)'
  <2>1. \A j \in Known(clients), q \in Requests : held'[q] = clients[j].bucket => q # r
    BY <1>2, <1>6, <1>8
  <2> QED
    BY <2>1, <1>5, <1>6, <1>11 DEF Apart, Known
<1>15. Dated(clients)'
  BY <1>5, <1>6, <1>11 DEF Dated, Known
<1>16. NotTaken(clients)'
  BY <1>5, <1>6, <1>11 DEF NotTaken, Known
<1>17. /\ tokens' \in [Buckets -> Nat] /\ since' \in [Buckets -> 0..LongAgo]
       /\ \A x \in Buckets : tokens'[x] = tokens[x] \/ (x = b /\ tokens'[x] <= Burst[i])
  <2>1. since \in [Buckets -> 0..LongAgo] /\ lag[r] \in 0..LongAgo
    BY <1>1, <1>2 DEF IInv, TypeOK
  <2>2. n >= 1 => n - 1 \in 0..Burst[i]
    BY <1>2, <1>4
  <2> QED
    BY <2>1, <2>2, <1>1, <1>2, <1>3, <1>7
<1>18. MapType(clients)'
  BY <1>5, <1>8, <1>9, <1>11, <1>17 DEF MapType, Known
<1>19. Refilled(clients)'
  <2> SUFFICES ASSUME NEW j \in Known(clients)
               PROVE  clients[j].idle <= MaxLag + since'[clients[j].bucket]
    BY <1>5 DEF Refilled, Known
  <2>1. CASE since'[clients[j].bucket] = since[clients[j].bucket]
    BY <2>1, <1>11 DEF Refilled
  <2>2. CASE since'[clients[j].bucket] # since[clients[j].bucket]
    <3>1. clients[j].bucket = b /\ since'[b] = lag[r]
      BY <2>2, <1>1, <1>3, <1>7, <1>8
    <3>2. j = i
      BY <3>1, <1>9
    <3> QED
      BY <3>1, <3>2, <1>1, <1>11 DEF Dated
  <2> QED
    BY <2>1, <2>2
<1>20. Solvent(clients)' /\ Budgets' /\ budget' \in [IPs -> Int]
  <2>1. budget \in [IPs -> Int] /\ \A j \in IPs : budget[j] \in 0..Burst[j]
    BY <1>11 DEF Budgets, IInv, TypeOK
  <2>2. CASE n >= 1 /\ i \in Known(clients) /\ clients[i].bucket = b
             /\ tokens' = [tokens EXCEPT ![b] = n - 1]
             /\ since' = [since EXCEPT ![b] = lag[r]]
             /\ budget' = [budget EXCEPT ![i] = AtMost(Burst[i], @ - 1 + Rate[i] * lag[r])]
    <3>1. Available(b, i, 0) <= budget[i] /\ budget[i] \in 0..Burst[i]
      BY <2>1, <2>2, <1>1, <1>11 DEF Solvent
    <3>2. Available(b, i, 0) \in Nat
      <4>1. tokens[b] \in Nat /\ since[b] \in Nat
        BY <1>1, <1>3
      <4> QED
        BY <4>1, <1>1, <1>2, Levels
    <3>3. n <= budget[i]
      BY <3>1, <3>2, <1>2, <1>4
    <3>4. tokens'[b] = n - 1 /\ since'[b] = lag[r]
      BY <2>2, <1>1, <1>3
    <3>5. Available(clients[i].bucket, i, 0)' = AtMost(Burst[i], n - 1 + Rate[i] * lag[r])
      <4>1. (IF lag[r] > 0 THEN Rate[i] * (lag[r] - 0) ELSE 0) = Rate[i] * lag[r]
        BY <1>1, <1>2
      <4> QED
        BY <2>2, <3>4, <4>1, <1>5 DEF Available
    <3>6. budget'[i] = AtMost(Burst[i], budget[i] - 1 + Rate[i] * lag[r])
      BY <2>1, <2>2, <1>1
    <3>7. Available(clients[i].bucket, i, 0)' <= budget'[i] /\ budget'[i] \in 0..Burst[i]
      BY <3>1, <3>3, <3>5, <3>6, <1>2, <1>4, <1>10, <2>2 DEF AtMost
    <3>8. \A j \in IPs \ {i} : budget'[j] = budget[j]
      BY <2>1, <2>2
    <3>9. \A j \in Known(clients) \ {i} :
            Available(clients[j].bucket, j, 0)' = Available(clients[j].bucket, j, 0)
      BY <2>2, <1>3, <1>5, <1>8, <1>9 DEF Available
    <3>10. Solvent(clients)'
      <4>1. \A j \in Known(clients) : Available(clients[j].bucket, j, 0)' <= budget'[j]
        BY <3>7, <3>8, <3>9, <1>5, <1>11 DEF Solvent, Known
      <4>2. \A j \in IPs \ Known(clients) : budget'[j] = Burst[j]
        BY <3>8, <2>2, <1>11 DEF Solvent
      <4> QED
        BY <4>1, <4>2, <1>5 DEF Solvent, Known
    <3>11. Budgets' /\ budget' \in [IPs -> Int]
      BY <3>7, <3>8, <2>1, <2>2, <1>1, <1>2 DEF Budgets
    <3> QED
      BY <3>10, <3>11
  <2>3. CASE n >= 1 /\ ~(i \in Known(clients) /\ clients[i].bucket = b)
             /\ tokens' = [tokens EXCEPT ![b] = n - 1]
             /\ since' = [since EXCEPT ![b] = lag[r]]
             /\ budget' = budget
    <3>1. \A j \in Known(clients) : clients[j].bucket # b
      BY <2>3, <1>9
    <3>2. \A j \in Known(clients) :
            Available(clients[j].bucket, j, 0)' = Available(clients[j].bucket, j, 0)
      BY <3>1, <2>3, <1>3, <1>5, <1>8 DEF Available
    <3> QED
      BY <3>2, <2>1, <2>3, <1>5, <1>11 DEF Solvent, Budgets, Known
  <2>4. CASE UNCHANGED <<tokens, since, budget>>
    BY <2>1, <2>4, <1>5, <1>11 DEF Solvent, Budgets, Known, Available
  <2> QED
    BY <2>2, <2>3, <2>4, <1>1, <1>7 DEF Known
<1>21. TypeOK'
  <2>1. /\ sinceTrim' \in 0..LongAgo /\ ip' \in [Requests -> IPs]
        /\ pc' \in [Requests -> {"idle", "client", "charge"}]
        /\ lag' \in [Requests -> 0..MaxLag]
        /\ held' \in [Requests -> Buckets \cup {0}]
        /\ displaced' \subseteq {q \in Requests : pc'[q] = "charge"}
    BY <1>2, <1>5 DEF IInv, TypeOK
  <2>2. /\ clients' \in [IPs -> Client \cup {NoClient}]
        /\ \A j \in IPs : clients'[j] # NoClient => tokens'[clients'[j].bucket] <= Burst[j]
    BY <1>18 DEF MapType, Known
  <2> QED
    BY <2>1, <2>2, <1>17, <1>20 DEF TypeOK
<1> QED
  BY <1>12, <1>13, <1>14, <1>15, <1>16, <1>18, <1>19, <1>20, <1>21 DEF IInv, MapInv

\* Buckets and budgets grow alike, and entries age with the requests that hold
\* their buckets.
LEMMA TickKeeps ==
  ASSUME IInv, Tick
  PROVE  IInv'
<1>1. MaxLag \in Nat /\ LongAgo \in Nat /\ MaxLag <= LongAgo
      /\ \A i \in IPs : Rate[i] \in Nat /\ Burst[i] \in Nat
  BY Constants
<1>2. \A t \in 0..LongAgo : Older(t) \in 0..LongAgo /\ Older(t) <= t + 1 /\ t <= Older(t)
                           /\ (Older(t) = t + 1 \/ Older(t) = LongAgo)
  BY <1>1 DEF Older, AtMost
<1>3. MapType(clients) /\ Apart(clients) /\ Dated(clients) /\ NotTaken(clients)
      /\ Refilled(clients) /\ Solvent(clients) /\ Counted(clients) /\ Holding /\ Budgets
  BY DEF IInv, MapInv
<1>4. clients \in [IPs -> Client \cup {NoClient}] /\ \A i \in Known(clients) : i \in IPs /\ clients[i] \in Client
  BY <1>3 DEF MapType, Known
<1>5. \A i \in Known(clients) :
        /\ clients'[i] \in Client
        /\ clients'[i].bucket = clients[i].bucket
        /\ clients'[i].idle = Older(clients[i].idle)
  <2> TAKE i \in Known(clients)
  <2>1. clients'[i] = [clients[i] EXCEPT !.idle = Older(@)]
    BY DEF Tick, Known
  <2>2. clients[i] \in [bucket : Buckets, idle : 0..LongAgo]
    BY <1>4 DEF Client
  <2>3. Older(clients[i].idle) \in 0..LongAgo
    BY <2>2, <1>2
  <2> HIDE DEF Older
  <2>4. clients'[i] = [bucket |-> clients[i].bucket, idle |-> Older(clients[i].idle)]
    BY <2>1, <2>2
  <2> QED
    BY <2>2, <2>3, <2>4 DEF Client
<1>6. clients' \in [IPs -> Client \cup {NoClient}]
  <2>1. \A i \in IPs : clients'[i] \in Client \cup {NoClient}
    <3> TAKE i \in IPs
    <3>1. CASE clients[i] = NoClient
      BY <3>1 DEF Tick
    <3>2. CASE clients[i] # NoClient
      BY <3>2, <1>5 DEF Known
    <3> QED
      BY <3>1, <3>2
  <2> QED
    BY <2>1 DEF Tick
<1>7. Known(clients)' = Known(clients)
  <2>1. \A i \in IPs \ Known(clients) : clients'[i] = NoClient
    BY DEF Tick, Known
  <2>2. \A i \in Known(clients) : clients'[i] \in Client
    BY <1>5
  <2>3. Known(clients) \subseteq IPs /\ Known(clients)' = {i \in IPs : clients'[i] # NoClient}
    BY DEF Known
  <2> QED
    BY <2>1, <2>2, <2>3, NoEntryApart
<1>8. /\ tokens' = tokens /\ pc' = pc /\ ip' = ip /\ held' = held /\ displaced' = displaced
      /\ tokens \in [Buckets -> Nat] /\ since \in [Buckets -> 0..LongAgo]
      /\ \A b \in Buckets : since'[b] = Older(since[b])
  BY DEF IInv, TypeOK, Tick
<1>9. \A r \in Requests : /\ lag[r] \in 0..MaxLag /\ lag'[r] \in 0..MaxLag
                          /\ pc[r] = "charge" => lag'[r] = lag[r] + 1
  BY <1>1 DEF IInv, TypeOK, Tick
<1>10. \A i \in IPs : budget'[i] = AtMost(Burst[i], budget[i] + Rate[i])
  BY DEF Tick
<1>11. Budgets' /\ budget' \in [IPs -> Int]
  <2>1. \A i \in IPs : budget'[i] \in 0..Burst[i]
    BY <1>1, <1>3, <1>10 DEF Budgets, AtMost
  <2> QED
    BY <2>1, <1>1 DEF Budgets, Tick
<1>12. Holding' /\ Counted(clients)'
  BY <1>3, <1>7, <1>8 DEF Holding, Counted
<1>13. MapType(clients)' /\ Apart(clients)' /\ NotTaken(clients)'
  BY <1>3, <1>5, <1>6, <1>7, <1>8 DEF MapType, Apart, NotTaken
<1>14. Dated(clients)'
  <2> SUFFICES ASSUME NEW r \in Requests, pc[r] = "charge", ip[r] \in Known(clients),
                      clients[ip[r]].bucket = held[r]
               PROVE  clients'[ip[r]].idle <= MaxLag + lag'[r]
    BY <1>5, <1>7, <1>8 DEF Dated
  <2>1. clients[ip[r]].idle \in 0..LongAgo /\ clients[ip[r]].idle <= MaxLag + lag[r]
    BY <1>3, <1>4 DEF Dated, Client
  <2>2. clients'[ip[r]].idle = Older(clients[ip[r]].idle)
    BY <1>5
  <2> QED
    BY <2>1, <2>2, <1>1, <1>2, <1>9
<1>15. Refilled(clients)'
  <2> SUFFICES ASSUME NEW i \in Known(clients)
               PROVE  Older(clients[i].idle) <= MaxLag + Older(since[clients[i].bucket])
    <3>1. \A j \in Known(clients) : clients[j].bucket \in Buckets
      BY <1>4 DEF Client
    <3> QED
      BY <3>1, <1>5, <1>7, <1>8 DEF Refilled
  <2>1. clients[i].idle \in 0..LongAgo /\ since[clients[i].bucket] \in 0..LongAgo
        /\ clients[i].idle <= MaxLag + since[clients[i].bucket]
    BY <1>3, <1>4, <1>8 DEF Refilled, Client
  <2> QED
    BY <2>1, <1>1 DEF Older, AtMost
<1>16. Solvent(clients)'
  <2>1. ASSUME NEW i \in Known(clients)
        PROVE  Available(clients[i].bucket, i, 0)' <= budget'[i]
    <3>1. /\ i \in IPs /\ clients[i].bucket \in Buckets /\ clients'[i].bucket = clients[i].bucket
          /\ Rate[i] \in Nat /\ Burst[i] \in Nat
      BY <1>1, <1>4, <1>5 DEF Client
    <3> DEFINE s == since[clients[i].bucket]
               t == tokens[clients[i].bucket]
    <3>2. s \in 0..LongAgo /\ t \in Nat /\ s \in Nat
      BY <3>1, <1>1, <1>8
    <3>3. AtMost(Burst[i], t + Rate[i] * s) <= budget[i] /\ budget[i] \in 0..Burst[i]
      <4>1. Available(clients[i].bucket, i, 0) = AtMost(Burst[i], t + Rate[i] * s)
        BY <3>1, <3>2, Levels
      <4> QED
        BY <4>1, <3>1, <1>3 DEF Solvent, Budgets
    <3>4. Available(clients[i].bucket, i, 0)' = AtMost(Burst[i], t + Rate[i] * Older(s))
      <4>1. since'[clients[i].bucket] = Older(s) /\ tokens'[clients[i].bucket] = t /\ Older(s) \in Nat
        BY <3>1, <3>2, <1>2, <1>8
      <4>2. (IF Older(s) > 0 THEN Rate[i] * (Older(s) - 0) ELSE 0) = Rate[i] * Older(s)
        BY <4>1, <3>1
      <4> QED
        BY <4>1, <4>2, <3>1 DEF Available
    <3>5. Rate[i] * Older(s) <= Rate[i] * s + Rate[i]
      <4>1. Older(s) \in Nat /\ Older(s) <= s + 1 /\ s + 1 \in Nat
        BY <3>2, <1>2
      <4>2. Rate[i] * Older(s) <= Rate[i] * (s + 1)
        BY <4>1, <3>1, Monotone
      <4> QED
        BY <4>2, <3>1, <3>2
    <3>6. Rate[i] * Older(s) \in Nat /\ Rate[i] * s \in Nat
      BY <3>1, <3>2, <1>2
    <3> HIDE DEF s, t
    <3> QED
      BY <3>1, <3>2, <3>3, <3>4, <3>5, <3>6, <1>10 DEF AtMost
  <2>2. \A i \in IPs \ Known(clients) : budget'[i] = Burst[i]
    BY <1>1, <1>3, <1>10 DEF Solvent, AtMost
  <2> QED
    BY <2>1, <2>2, <1>7 DEF Solvent
<1>17. TypeOK'
  <2>1. /\ since' \in [Buckets -> 0..LongAgo] /\ sinceTrim' \in 0..LongAgo
        /\ lag' \in [Requests -> 0..MaxLag]
    BY <1>2, <1>8, <1>9 DEF IInv, TypeOK, Tick
  <2>2. \A i \in IPs : clients'[i] # NoClient => tokens'[clients'[i].bucket] <= Burst[i]
    BY <1>13 DEF MapType, Known
  <2> QED
    BY <2>1, <2>2, <1>6, <1>8, <1>11 DEF IInv, TypeOK
<1> QED
  BY <1>11, <1>12, <1>13, <1>14, <1>15, <1>16, <1>17 DEF IInv, MapInv

-----------------------------------------------------------------------------
(* Theorems.                                                               *)

\* Every step of the limiter keeps the invariant.
THEOREM Invariance == Spec => []IInv
<1>1. Init => IInv
  BY InitKeeps
<1>2. IInv /\ [Next]_vars => IInv'
  <2> SUFFICES ASSUME IInv, [Next]_vars PROVE IInv'
    OBVIOUS
  <2>1. ASSUME NEW r \in Requests, GetClient(r) PROVE IInv'
    BY <2>1, GetClientKeeps
  <2>2. ASSUME NEW r \in Requests, Charge(r) PROVE IInv'
    BY <2>2, ChargeKeeps
  <2>3. ASSUME NEW r \in Requests, NEW i \in IPs, Read(r, i) PROVE IInv'
    BY <2>3, ReadKeeps
  <2>4. CASE Tick
    BY <2>4, TickKeeps
  <2>5. CASE UNCHANGED vars
    <3>1. TypeOK' /\ Holding' /\ Budgets'
      BY <2>5 DEF vars, IInv, TypeOK, Holding, Budgets
    <3>2. MapInv(clients)'
      BY <2>5 DEF vars, IInv, MapInv, MapType, Counted, Apart, Dated, NotTaken, Refilled,
                  Solvent, Known, Available
    <3> QED
      BY <3>1, <3>2 DEF IInv
  <2> QED
    BY <2>1, <2>2, <2>3, <2>4, <2>5 DEF Next
<1> QED
  BY <1>1, <1>2, PTL DEF Spec

\* The variables keep their types, and no bucket in the map holds more than its
\* IP's burst.
THEOREM TypeCorrect == Spec => []TypeOK
<1>1. IInv => TypeOK
  BY DEF IInv
<1> QED
  BY <1>1, Invariance, PTL

\* However many IPs there are, the map holds no more than MaxIPs of them.
THEOREM MaxIPsCorrect == Spec => []MaxIPsBound
<1>1. IInv => MaxIPsBound
  BY DEF IInv, MapInv, Counted, MaxIPsBound
<1> QED
  BY <1>1, Invariance, PTL

\* No client is let through more often than its burst and its rate allow,
\* however its requests, the clock and the trims interleave.
THEOREM WithinBudgetCorrect == Spec => []WithinBudget
<1>1. IInv => WithinBudget
  BY Constants DEF IInv, Budgets, WithinBudget
<1> QED
  BY <1>1, Invariance, PTL

\* removeIdle drops full buckets that nobody holds, and no others.
THEOREM IdleIsFullCorrect == Spec => []IdleIsFull
<1>1. IInv => IdleIsFull
  BY IdleFull DEF IInv, IdleIsFull
<1> QED
  BY <1>1, Invariance, PTL

\* All requests of an IP charge one bucket, but for those whose bucket the
\* bound on IPs pushed out.
THEOREM OneBucketCorrect == Spec => []OneBucket
<1>1. IInv => OneBucket
  BY DEF IInv, MapInv, NotTaken, OneBucket, Known
<1> QED
  BY <1>1, Invariance, PTL
=============================================================================
