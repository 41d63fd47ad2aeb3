------------------------------- MODULE Tracker -------------------------------
(***************************************************************************)
(* RateLimitedIPTracker (pkg/redirect/rate_limit_tracker.go): how often    *)
(* each client was refused by the rate limiter, for the Limit clients that *)
(* are worth showing.                                                      *)
(*                                                                         *)
(* A request that allow refused records its IP after the limiter's lock is *)
(* released, so refusals of several requests are recorded in any order.    *)
(* Record holds mu throughout; Top copies the entries under mu and sorts   *)
(* the copy, so the answer is decided when it is copied.                   *)
(*                                                                         *)
(* An entry of the map t.counts is spread over tracked (its keys), count   *)
(* and seen (its fields, 0 without an entry).                              *)
(***************************************************************************)
EXTENDS Naturals, Sequences, FiniteSets

CONSTANTS
  Requests,    \* concurrent requests
  IPs,         \* client addresses, numbered in the order of their strings
  Limit,       \* how many are tracked
  MaxRefusals  \* bound on the refusals of a behaviour

ASSUME TrackerAssumption ==
  /\ IsFiniteSet(Requests)
  /\ IPs \subseteq Nat \ {0} /\ IsFiniteSet(IPs)
  /\ Limit \in Nat \ {0}
  /\ MaxRefusals \in Nat

VARIABLES
  refused,   \* the IP each request is about to record, 0 if none
  tracked, count, seen,
  sequence,  \* records so far
  shown,     \* the last answer of /rate-limited-ips
  refusals   \* refusals of each IP so far, a history variable

vars == <<refused, tracked, count, seen, sequence, shown, refusals>>

Shown == [ip : IPs, count : Nat]

TypeOK ==
  /\ refused \in [Requests -> IPs \cup {0}]
  /\ tracked \subseteq IPs
  /\ IsFiniteSet(tracked)
  /\ count \in [IPs -> Nat]
  /\ seen \in [IPs -> Nat]
  /\ sequence \in Nat
  /\ shown \in Seq(Shown)
  /\ refusals \in [IPs -> 0..MaxRefusals]
  /\ \A i \in IPs : IF i \in tracked THEN count[i] > 0 ELSE count[i] = 0 /\ seen[i] = 0

Init ==
  /\ refused = [r \in Requests |-> 0]
  /\ tracked = {}
  /\ count = [i \in IPs |-> 0]
  /\ seen = [i \in IPs |-> 0]
  /\ sequence = 0
  /\ shown = <<>>
  /\ refusals = [i \in IPs |-> 0]

-----------------------------------------------------------------------------
(* Slips the code could have made, used to test the properties.            *)

\* > for >= in the test for room.
FullLate(i) == i \notin tracked /\ Cardinality(tracked) > Limit

\* Room is made before the entry is looked up.
FullFirst(i) == Cardinality(tracked) >= Limit

\* Only the time of an entry counts, as in a cache of recent clients.
LeastRecent(i, j) == seen[i] < seen[j]

\* The sequence moves for new entries only.
NextNewcomer(i) == IF i \in tracked THEN sequence ELSE sequence + 1

\* A displaced client's count is left for its next entry.
CarriedOver(d) == count
-----------------------------------------------------------------------------

\* lessNoisy
LessNoisy(i, j) == count[i] < count[j] \/ (count[i] = count[j] /\ seen[i] < seen[j])

\* removeLowestLocked keeps the first of equals that it meets in a map, whose
\* order is not defined.
Lowest == {i \in tracked : \A j \in tracked : ~LessNoisy(j, i)}

\* Record makes room for an IP that has no entry.
Full(i) == i \notin tracked /\ Cardinality(tracked) >= Limit

NextSequence(i) == sequence + 1

\* delete(t.counts, ip)
Without(d) == [j \in IPs |-> IF j \in d THEN 0 ELSE count[j]]

\* allow returns false.  The refusal is not recorded yet.
Refuse(r, i) ==
  /\ refused[r] = 0
  /\ refusals[i] < MaxRefusals
  /\ refused' = [refused EXCEPT ![r] = i]
  /\ refusals' = [refusals EXCEPT ![i] = @ + 1]
  /\ UNCHANGED <<tracked, count, seen, sequence, shown>>

\* Record(ip), which drops the entries dropped: one if there is no room.
RecordDropping(r, dropped) ==
  LET i == refused[r] IN
  /\ tracked' = (tracked \ dropped) \cup {i}
  /\ count' = [Without(dropped) EXCEPT ![i] = @ + 1]
  /\ seen' = [j \in IPs |->
       CASE j = i -> NextSequence(i) [] j \in dropped \ {i} -> 0 [] OTHER -> seen[j]]
  /\ sequence' = NextSequence(i)
  /\ refused' = [refused EXCEPT ![r] = 0]
  /\ UNCHANGED <<shown, refusals>>

Record(r) ==
  /\ refused[r] # 0
  /\ \/ ~Full(refused[r]) /\ RecordDropping(r, {})
     \/ Full(refused[r]) /\ \E lowest \in Lowest : RecordDropping(r, {lowest})

\* sortRateLimitedIPCounts
Above(i, j) == count[i] > count[j] \/ (count[i] = count[j] /\ i < j)

AtMost(m, n) == IF n > m THEN m ELSE n

\* Top: a copy of the entries, sorted, and no more of them than Limit.
Top ==
  \E order \in [1..Cardinality(tracked) -> tracked] :
    /\ \A m, n \in DOMAIN order : m < n => Above(order[m], order[n])
    /\ shown' = [n \in 1..AtMost(Limit, Cardinality(tracked)) |->
                   [ip |-> order[n], count |-> count[order[n]]]]
    /\ UNCHANGED <<refused, tracked, count, seen, sequence, refusals>>

Next ==
  \/ \E r \in Requests : Record(r) \/ \E i \in IPs : Refuse(r, i)
  \/ Top

Spec == Init /\ [][Next]_vars

-----------------------------------------------------------------------------
(* Properties.                                                             *)

\* However many clients are refused, Limit of them are kept.
Bounded == Cardinality(tracked) <= Limit

Pending(i) == {r \in Requests : refused[r] = i}

\* No client is shown with more refusals than it had, and as long as no more
\* than Limit clients were ever refused, none is lost: what is not counted yet
\* is about to be, whatever order the requests get to the tracker in.
NothingLost ==
  \A i \in IPs :
    /\ count[i] + Cardinality(Pending(i)) <= refusals[i]
    /\ Cardinality({j \in IPs : refusals[j] > 0}) <= Limit =>
         count[i] + Cardinality(Pending(i)) = refusals[i]
    /\ \A n \in DOMAIN shown : shown[n].ip = i => shown[n].count <= refusals[i]

\* Which entry gives way does not depend on the order in which the map is
\* walked: no two entries are equally noisy.
OneLowest == \A i, j \in Lowest : i = j

\* A client that was refused most of all those tracked is not displaced by
\* newcomers: the highest count there is stays, or grows, if there is room for
\* two.
LoudestStays ==
  [][Limit > 1 =>
       \A i \in tracked : (\A j \in tracked : count[i] >= count[j]) =>
         \E j \in tracked' : count'[j] >= count[i]]_vars
=============================================================================
