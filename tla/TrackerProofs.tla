---------------------------- MODULE TrackerProofs ----------------------------
(***************************************************************************)
(* The properties of Tracker for any number of requests and of addresses,  *)
(* and any limit.                                                          *)
(***************************************************************************)
EXTENDS Tracker, FiniteSetTheorems, TLAPS

\* No two entries were seen by the same record.
SeenApart ==
  \A i \in tracked :
    /\ seen[i] <= sequence
    /\ \A j \in tracked : seen[i] = seen[j] => i = j

IInv == TypeOK /\ Bounded /\ NothingLost /\ SeenApart

\* A client is counted only after it was refused.
LEMMA TrackedRefused ==
  ASSUME TypeOK, NothingLost
  PROVE  tracked \subseteq {j \in IPs : refusals[j] > 0}
  <1>1. SUFFICES ASSUME NEW i \in tracked
                 PROVE  i \in IPs /\ refusals[i] > 0
    OBVIOUS
  <1>2. i \in IPs /\ count[i] \in Nat /\ count[i] > 0 /\ refusals[i] \in Nat
    BY TrackerAssumption DEF TypeOK
  <1>3. Cardinality(Pending(i)) \in Nat
    BY FS_Subset, FS_CardinalityType, TrackerAssumption DEF Pending
  <1>4. count[i] + Cardinality(Pending(i)) <= refusals[i]
    BY <1>2 DEF NothingLost
  <1>5. QED
    BY <1>2, <1>3, <1>4

LEMMA PendingFinite ==
  \A i \in IPs : IsFiniteSet(Pending(i)) /\ Cardinality(Pending(i)) \in Nat
  BY FS_Subset, FS_CardinalityType, TrackerAssumption DEF Pending

LEMMA Numbers ==
  ASSUME TypeOK
  PROVE  \A i \in IPs : count[i] \in Nat /\ refusals[i] \in Nat
  BY TrackerAssumption DEF TypeOK

-----------------------------------------------------------------------------
(* What a record does.                                                     *)

Recorded(r, dropped) ==
  LET i == refused[r] IN
  /\ i \in IPs
  /\ dropped \subseteq tracked /\ i \notin dropped
  /\ tracked' = (tracked \ dropped) \cup {i}
  /\ count' = [j \in IPs |->
       IF j = i THEN count[i] + 1 ELSE IF j \in dropped THEN 0 ELSE count[j]]
  /\ seen' = [j \in IPs |->
       IF j = i THEN sequence + 1 ELSE IF j \in dropped THEN 0 ELSE seen[j]]
  /\ sequence' = sequence + 1
  /\ refused' = [refused EXCEPT ![r] = 0]
  /\ UNCHANGED <<shown, refusals>>

\* With no room one entry goes, and there was room for it before.
LEMMA RecordEffect ==
  ASSUME TypeOK, Bounded, NEW r \in Requests, Record(r)
  PROVE  \/ /\ Recorded(r, {})
            /\ refused[r] \notin tracked => Cardinality(tracked) < Limit
         \/ /\ Full(refused[r])
            /\ \E lowest \in Lowest : Recorded(r, {lowest})
  <1> DEFINE i == refused[r]
  <1>1. i \in IPs
    BY DEF Record, TypeOK
  <1>2. Cardinality(tracked) \in Nat
    BY FS_CardinalityType DEF TypeOK
  <1>3. CASE ~Full(i) /\ RecordDropping(r, {})
    <2>1. Without({}) = count
      BY DEF Without, TypeOK
    <2>2. count' = [j \in IPs |->
            IF j = i THEN count[i] + 1 ELSE IF j \in {} THEN 0 ELSE count[j]]
      BY <1>1, <1>3, <2>1 DEF RecordDropping, TypeOK
    <2>3. seen' = [j \in IPs |->
            IF j = i THEN sequence + 1 ELSE IF j \in {} THEN 0 ELSE seen[j]]
      BY <1>3 DEF RecordDropping, NextSequence
    <2>4. Recorded(r, {})
      BY <1>1, <1>3, <2>2, <2>3 DEF RecordDropping, Recorded, NextSequence
    <2>5. QED
      BY <1>2, <1>3, <2>4, TrackerAssumption DEF Full
  <1>4. CASE Full(i) /\ \E lowest \in Lowest : RecordDropping(r, {lowest})
    <2>1. PICK lowest \in Lowest : RecordDropping(r, {lowest})
      BY <1>4
    <2>2. lowest \in tracked /\ lowest # i
      BY <1>4 DEF Lowest, Full
    <2>3. count' = [j \in IPs |->
            IF j = i THEN count[i] + 1 ELSE IF j \in {lowest} THEN 0 ELSE count[j]]
      BY <1>1, <2>1, <2>2 DEF RecordDropping, Without
    <2>4. seen' = [j \in IPs |->
            IF j = i THEN sequence + 1 ELSE IF j \in {lowest} THEN 0 ELSE seen[j]]
      BY <2>1, <2>2 DEF RecordDropping, NextSequence
    <2>5. Recorded(r, {lowest})
      BY <1>1, <2>1, <2>2, <2>3, <2>4 DEF RecordDropping, Recorded, NextSequence
    <2>6. QED
      BY <1>4, <2>5
  <1>5. QED
    BY <1>3, <1>4 DEF Record

LEMMA RecordedType ==
  ASSUME TypeOK, NEW r \in Requests, NEW dropped, Recorded(r, dropped)
  PROVE  TypeOK'
  <1> DEFINE i == refused[r]
  <1>1. i \in IPs
    BY DEF Recorded
  <1>2. IsFiniteSet(tracked')
    BY FS_Subset, FS_AddElement DEF Recorded, TypeOK
  <1>3. refused' \in [Requests -> IPs \cup {0}] /\ tracked' \subseteq IPs
    BY <1>1 DEF Recorded, TypeOK
  <1>4. sequence' \in Nat /\ count' \in [IPs -> Nat] /\ seen' \in [IPs -> Nat]
    BY <1>1 DEF Recorded, TypeOK
  <1>5. \A j \in IPs :
          IF j \in tracked' THEN count'[j] > 0 ELSE count'[j] = 0 /\ seen'[j] = 0
    BY <1>1 DEF Recorded, TypeOK
  <1>6. shown' \in Seq(Shown) /\ refusals' \in [IPs -> 0..MaxRefusals]
    BY DEF Recorded, TypeOK
  <1>7. QED
    BY <1>2, <1>3, <1>4, <1>5, <1>6 DEF TypeOK

LEMMA RecordedSeen ==
  ASSUME TypeOK, SeenApart, NEW r \in Requests, NEW dropped, Recorded(r, dropped)
  PROVE  SeenApart'
  BY DEF Recorded, TypeOK, SeenApart

\* The recorded request is no longer pending.
LEMMA RecordedPending ==
  ASSUME TypeOK, NEW r \in Requests, NEW dropped, Recorded(r, dropped), NEW j \in IPs
  PROVE  Cardinality(Pending(j))' =
           IF j = refused[r] THEN Cardinality(Pending(j)) - 1 ELSE Cardinality(Pending(j))
  <1>1. Pending(j)' = Pending(j) \ {r}
    BY TrackerAssumption DEF Recorded, TypeOK, Pending
  <1>2. r \in Pending(j) <=> j = refused[r]
    BY DEF Pending
  <1>3. QED
    BY <1>1, <1>2, PendingFinite, FS_RemoveElement

LEMMA RecordNothingLost ==
  ASSUME IInv, NEW r \in Requests, Record(r)
  PROVE  NothingLost'
  <1> USE DEF IInv
  <1> DEFINE some == {j \in IPs : refusals[j] > 0}
  <1>1. IsFiniteSet(some)
    BY FS_Subset, TrackerAssumption
  <1>2. CASE Recorded(r, {})
    <2>1. \A j \in IPs : count'[j] + Cardinality(Pending(j))' = count[j] + Cardinality(Pending(j))
      <3> TAKE j \in IPs
      <3>1. Cardinality(Pending(j))' =
              IF j = refused[r] THEN Cardinality(Pending(j)) - 1 ELSE Cardinality(Pending(j))
        BY <1>2, RecordedPending
      <3>2. count'[j] = IF j = refused[r] THEN count[j] + 1 ELSE count[j]
        BY <1>2 DEF Recorded
      <3>3. QED
        BY <3>1, <3>2, PendingFinite, Numbers
    <2>2. QED
      BY <1>2, <2>1 DEF Recorded, NothingLost
  <1>3. ASSUME Full(refused[r]), NEW lowest \in Lowest, Recorded(r, {lowest})
        PROVE  NothingLost'
    <2> DEFINE i == refused[r]
    <2>1. i \in IPs /\ i \notin tracked /\ Cardinality(tracked) >= Limit
      BY <1>3 DEF Full, Recorded
    <2>2. refusals[i] > 0
      <3>1. r \in Pending(i)
        BY DEF Pending
      <3>2. Cardinality(Pending(i)) > 0
        BY <2>1, <3>1, PendingFinite, FS_EmptySet
      <3>3. count[i] + Cardinality(Pending(i)) <= refusals[i]
        BY <2>1 DEF NothingLost
      <3>4. QED
        BY <2>1, <3>2, <3>3, PendingFinite, Numbers
    <2>3. Cardinality(some) > Limit
      <3>1. tracked \cup {i} \in SUBSET some
        BY <2>1, <2>2, TrackedRefused
      <3>2. Cardinality(tracked \cup {i}) = Cardinality(tracked) + 1
        BY <2>1, FS_AddElement DEF TypeOK
      <3>3. QED
        BY <1>1, <2>1, <3>1, <3>2, FS_Subset, FS_CardinalityType, TrackerAssumption DEF TypeOK
    <2>4. ~(Cardinality(some) <= Limit)
      BY <2>3, <1>1, FS_CardinalityType, TrackerAssumption
    <2>5. \A j \in IPs : count'[j] + Cardinality(Pending(j))' <= refusals[j]
      <3> TAKE j \in IPs
      <3>1. Cardinality(Pending(j))' =
              IF j = i THEN Cardinality(Pending(j)) - 1 ELSE Cardinality(Pending(j))
        BY <1>3, RecordedPending
      <3>2. count'[j] = IF j = i THEN count[j] + 1
                        ELSE IF j = lowest THEN 0 ELSE count[j]
        BY <1>3 DEF Recorded
      <3>3. count[j] + Cardinality(Pending(j)) <= refusals[j]
        BY DEF NothingLost
      <3>4. QED
        BY <3>1, <3>2, <3>3, PendingFinite, Numbers
    <2>6. refusals' = refusals /\ shown' = shown
      BY <1>3 DEF Recorded
    <2>7. QED
      BY <2>4, <2>5, <2>6 DEF NothingLost
  <1>4. QED
    BY <1>2, <1>3, RecordEffect

LEMMA RecordBounded ==
  ASSUME IInv, NEW r \in Requests, Record(r)
  PROVE  Bounded'
  <1> USE DEF IInv
  <1> DEFINE i == refused[r]
  <1>1. IsFiniteSet(tracked) /\ Cardinality(tracked) \in Nat /\ Cardinality(tracked) <= Limit
    BY FS_CardinalityType DEF TypeOK, Bounded
  <1>2. CASE Recorded(r, {}) /\ (i \notin tracked => Cardinality(tracked) < Limit)
    <2>1. tracked' = tracked \cup {i}
      BY <1>2 DEF Recorded
    <2>2. Cardinality(tracked \cup {i}) =
            IF i \in tracked THEN Cardinality(tracked) ELSE Cardinality(tracked) + 1
      BY <1>1, FS_AddElement
    <2>3. QED
      BY <1>1, <1>2, <2>1, <2>2, TrackerAssumption DEF Bounded
  <1>3. ASSUME NEW lowest \in Lowest, Recorded(r, {lowest})
        PROVE  Bounded'
    <2>1. lowest \in tracked
      BY <1>3 DEF Lowest
    <2>2. /\ IsFiniteSet(tracked \ {lowest})
          /\ Cardinality(tracked \ {lowest}) = Cardinality(tracked) - 1
      BY <1>1, <2>1, FS_RemoveElement
    <2>3. tracked' = (tracked \ {lowest}) \cup {i}
      BY <1>3 DEF Recorded
    <2> DEFINE rest == tracked \ {lowest}
    <2>4. Cardinality(rest \cup {i}) =
            IF i \in rest THEN Cardinality(rest) ELSE Cardinality(rest) + 1
      BY <2>2, FS_AddElement
    <2>5. QED
      BY <1>1, <2>2, <2>3, <2>4, TrackerAssumption DEF Bounded
  <1>4. QED
    BY <1>2, <1>3, RecordEffect

-----------------------------------------------------------------------------
(* The invariant.                                                          *)

LEMMA InitIInv == Init => IInv
  <1> SUFFICES ASSUME Init PROVE IInv
    OBVIOUS
  <1>1. TypeOK
    BY FS_EmptySet, TrackerAssumption DEF Init, TypeOK
  <1>2. \A i \in IPs : Pending(i) = {}
    BY TrackerAssumption DEF Init, Pending
  <1>3. NothingLost
    <2>1. \A i \in IPs : count[i] = 0 /\ refusals[i] = 0 /\ Cardinality(Pending(i)) = 0
      BY <1>2, FS_EmptySet DEF Init
    <2>2. DOMAIN shown = {}
      BY DEF Init
    <2>3. QED
      BY <2>1, <2>2 DEF NothingLost
  <1>4. Bounded /\ SeenApart
    BY FS_EmptySet, TrackerAssumption DEF Init, Bounded, SeenApart
  <1>5. QED
    BY <1>1, <1>3, <1>4 DEF IInv

LEMMA RefuseIInv ==
  ASSUME IInv, NEW r \in Requests, NEW i \in IPs, Refuse(r, i)
  PROVE  IInv'
  <1> USE DEF IInv
  <1>1. TypeOK'
    <2>1. refused' \in [Requests -> IPs \cup {0}]
      BY DEF Refuse, TypeOK
    <2>2. refusals' \in [IPs -> 0..MaxRefusals]
      BY TrackerAssumption DEF Refuse, TypeOK
    <2>3. UNCHANGED <<tracked, count, seen, sequence, shown>>
      BY DEF Refuse
    <2>4. QED
      BY <2>1, <2>2, <2>3 DEF TypeOK
  <1>2. Bounded' /\ SeenApart'
    BY DEF Refuse, Bounded, SeenApart
  <1>3. \A j \in IPs : Cardinality(Pending(j))' =
          IF j = i THEN Cardinality(Pending(j)) + 1 ELSE Cardinality(Pending(j))
    <2> TAKE j \in IPs
    <2>1. r \notin Pending(j) /\ i # 0
      BY TrackerAssumption DEF Refuse, Pending
    <2>2. Pending(j)' = IF j = i THEN Pending(j) \cup {r} ELSE Pending(j)
      BY <2>1 DEF Refuse, Pending, TypeOK
    <2>3. QED
      BY <2>1, <2>2, PendingFinite, FS_AddElement
  <1>4. \A j \in IPs : refusals'[j] = IF j = i THEN refusals[j] + 1 ELSE refusals[j]
    BY DEF Refuse, TypeOK
  <1>5. \A j \in IPs : refusals[j] \in Nat /\ count[j] \in Nat
    BY TrackerAssumption DEF TypeOK
  <1> DEFINE some == {j \in IPs : refusals[j] > 0}
             later == {j \in IPs : refusals'[j] > 0}
  <1>6. Cardinality(later) <= Limit => Cardinality(some) <= Limit
    <2>1. some \in SUBSET later /\ IsFiniteSet(later)
      <3>1. later \in SUBSET IPs /\ \A j \in IPs : refusals[j] > 0 => refusals'[j] > 0
        BY <1>4, <1>5
      <3>2. QED
        BY <3>1, FS_Subset, TrackerAssumption
    <2>2. IsFiniteSet(some) /\ Cardinality(some) <= Cardinality(later)
      BY <2>1, FS_Subset
    <2>3. QED
      BY <2>1, <2>2, FS_CardinalityType, TrackerAssumption
  <1>7. /\ count' = count /\ shown' = shown
    BY DEF Refuse
  <1>8. \A n \in DOMAIN shown : shown[n].count \in Nat
    <2>1. \A n \in DOMAIN shown : shown[n] \in Shown
      BY DEF TypeOK
    <2>2. QED
      BY <2>1 DEF Shown
  <1>9. NothingLost'
    <2> SUFFICES ASSUME NEW j \in IPs
                 PROVE  /\ count'[j] + Cardinality(Pending(j))' <= refusals'[j]
                        /\ Cardinality(later) <= Limit =>
                             count'[j] + Cardinality(Pending(j))' = refusals'[j]
                        /\ \A n \in DOMAIN shown' :
                             shown'[n].ip = j => shown'[n].count <= refusals'[j]
      BY DEF NothingLost
    <2>1. /\ count[j] + Cardinality(Pending(j)) <= refusals[j]
          /\ Cardinality(some) <= Limit => count[j] + Cardinality(Pending(j)) = refusals[j]
          /\ \A n \in DOMAIN shown : shown[n].ip = j => shown[n].count <= refusals[j]
      BY DEF NothingLost
    <2>2. Cardinality(Pending(j)) \in Nat
      BY PendingFinite
    <2>3. refusals'[j] = refusals[j] \/ refusals'[j] = refusals[j] + 1
      BY <1>4
    <2>4. \A n \in DOMAIN shown' : shown'[n].ip = j => shown'[n].count <= refusals'[j]
      BY <1>5, <1>7, <1>8, <2>1, <2>3
    <2>5. QED
      BY <1>3, <1>4, <1>5, <1>6, <1>7, <2>1, <2>2, <2>4
  <1>10. QED
    BY <1>1, <1>2, <1>9

LEMMA TopIInv ==
  ASSUME IInv, Top
  PROVE  IInv'
  <1> USE DEF IInv
  <1> DEFINE size == AtMost(Limit, Cardinality(tracked))
  <1>1. Cardinality(tracked) \in Nat /\ size \in Nat /\ size <= Cardinality(tracked)
    BY FS_CardinalityType, TrackerAssumption DEF TypeOK, AtMost
  <1>2. PICK order \in [1..Cardinality(tracked) -> tracked] :
          shown' = [n \in 1..size |-> [ip |-> order[n], count |-> count[order[n]]]]
    BY DEF Top
  <1>3. UNCHANGED <<refused, tracked, count, seen, sequence, refusals>>
    BY DEF Top
  <1>4. \A n \in 1..size : order[n] \in tracked /\ order[n] \in IPs
    <2>1. \A n \in 1..size : n \in 1..Cardinality(tracked)
      BY <1>1
    <2>2. QED
      BY <2>1 DEF TypeOK
  <1>5. shown' \in Seq(Shown)
    <2>1. \A n \in 1..size : [ip |-> order[n], count |-> count[order[n]]] \in Shown
      BY <1>4, Numbers DEF Shown
    <2>2. shown' \in [1..size -> Shown]
      BY <1>2, <2>1
    <2>3. QED
      BY <1>1, <2>2
  <1>6. TypeOK' /\ Bounded' /\ SeenApart'
    BY <1>3, <1>5 DEF TypeOK, Bounded, SeenApart
  <1>7. DOMAIN shown' = 1..size /\ \A n \in 1..size :
          shown'[n].ip = order[n] /\ shown'[n].count = count[order[n]]
    BY <1>2
  <1>8. \A i \in IPs : count[i] <= refusals[i]
    <2> TAKE i \in IPs
    <2>1. count[i] + Cardinality(Pending(i)) <= refusals[i]
      BY DEF NothingLost
    <2>2. QED
      BY <2>1, PendingFinite, Numbers
  <1>9. \A i \in IPs : Pending(i)' = Pending(i)
    BY <1>3 DEF Pending
  <1>10. NothingLost'
    BY <1>3, <1>4, <1>7, <1>8, <1>9 DEF NothingLost
  <1>11. QED
    BY <1>6, <1>10

LEMMA NextIInv == IInv /\ [Next]_vars => IInv'
  <1> SUFFICES ASSUME IInv, [Next]_vars PROVE IInv'
    OBVIOUS
  <1>1. ASSUME NEW r \in Requests, Record(r) PROVE IInv'
    <2>1. PICK dropped : Recorded(r, dropped)
      BY <1>1, RecordEffect DEF IInv
    <2>2. TypeOK' /\ SeenApart'
      BY <2>1, RecordedType, RecordedSeen DEF IInv
    <2>3. QED
      BY <1>1, <2>2, RecordNothingLost, RecordBounded DEF IInv
  <1>2. ASSUME NEW r \in Requests, NEW i \in IPs, Refuse(r, i) PROVE IInv'
    BY <1>2, RefuseIInv
  <1>3. CASE Top
    BY <1>3, TopIInv
  <1>4. CASE UNCHANGED vars
    BY <1>4 DEF vars, IInv, TypeOK, Bounded, NothingLost, SeenApart, Pending
  <1>5. QED
    BY <1>1, <1>2, <1>3, <1>4 DEF Next

THEOREM Invariance == Spec => []IInv
  BY InitIInv, NextIInv, PTL DEF Spec

-----------------------------------------------------------------------------
(* The theorems.                                                           *)

\* The tracker's variables keep their types, and an address has a count just
\* when it has an entry.
THEOREM TypeCorrect == Spec => []TypeOK
  <1>1. IInv => TypeOK
    BY DEF IInv
  <1>2. QED
    BY <1>1, Invariance, PTL

\* Record never leaves more than Limit entries.
THEOREM BoundedCorrect == Spec => []Bounded
  <1>1. IInv => Bounded
    BY DEF IInv
  <1>2. QED
    BY <1>1, Invariance, PTL

\* Counts and answers of Top never exceed the refusals there were, and are
\* exact up to what is pending while no more than Limit clients were refused.
THEOREM NothingLostCorrect == Spec => []NothingLost
  <1>1. IInv => NothingLost
    BY DEF IInv
  <1>2. QED
    BY <1>1, Invariance, PTL

\* removeLowestLocked drops the same entry however the map is walked.
THEOREM OneLowestCorrect == Spec => []OneLowest
  <1>1. ASSUME IInv PROVE OneLowest
    <2> SUFFICES ASSUME NEW i \in Lowest, NEW j \in Lowest PROVE i = j
      BY DEF OneLowest
    <2>1. i \in tracked /\ j \in tracked /\ ~LessNoisy(i, j) /\ ~LessNoisy(j, i)
      BY DEF Lowest
    <2>2. {count[i], count[j], seen[i], seen[j]} \subseteq Nat
      BY <1>1, <2>1 DEF IInv, TypeOK
    <2>3. seen[i] = seen[j]
      BY <2>1, <2>2 DEF LessNoisy
    <2>4. QED
      BY <1>1, <2>1, <2>3 DEF IInv, SeenApart
  <1>2. QED
    BY <1>1, Invariance, PTL

\* No step of the tracker loses the highest count, if there is room for two.
THEOREM LoudestStaysCorrect == Spec => LoudestStays
  <1> DEFINE A == Limit > 1 =>
               \A i \in tracked : (\A j \in tracked : count[i] >= count[j]) =>
                 \E j \in tracked' : count'[j] >= count[i]
  <1>1. ASSUME IInv, [Next]_vars PROVE [A]_vars
    <2> SUFFICES ASSUME Next, Limit > 1, NEW i \in tracked,
                        \A j \in tracked : count[i] >= count[j]
                 PROVE  \E j \in tracked' : count'[j] >= count[i]
      BY <1>1
    <2>1. TypeOK /\ i \in IPs /\ \A j \in tracked : count[j] \in Nat /\ j \in IPs
      BY <1>1 DEF IInv, TypeOK
    <2>2. ASSUME NEW r \in Requests, Record(r)
          PROVE  \E j \in tracked' : count'[j] >= count[i]
      <3>1. ASSUME NEW dropped, Recorded(r, dropped), NEW j \in tracked \ dropped,
                   count[j] >= count[i]
            PROVE  \E k \in tracked' : count'[k] >= count[i]
        <4>1. j \in tracked' /\ count'[j] >= count[j]
          BY <2>1, <3>1 DEF Recorded
        <4>2. count'[j] \in Nat
          BY <2>1, <3>1 DEF Recorded, TypeOK
        <4>3. QED
          BY <2>1, <3>1, <4>1, <4>2
      <3>2. CASE Recorded(r, {})
        BY <2>1, <3>1, <3>2
      <3>3. ASSUME Full(refused[r]), NEW lowest \in Lowest, Recorded(r, {lowest})
            PROVE  \E j \in tracked' : count'[j] >= count[i]
        <4>1. CASE lowest # i
          BY <2>1, <3>1, <3>3, <4>1
        <4>2. CASE lowest = i
          <5>1. PICK j \in tracked : j # i
            <6>1. Cardinality(tracked) > 1 /\ IsFiniteSet(tracked)
              BY <2>1, <3>3, FS_CardinalityType, TrackerAssumption DEF Full, TypeOK
            <6>2. Cardinality({i}) = 1
              BY FS_Singleton, Zenon
            <6>3. tracked # {i}
              BY <6>1, <6>2
            <6>4. QED
              BY <6>3
          <5>2. count[j] >= count[i]
            BY <2>1, <3>3, <4>2, <5>1 DEF Lowest, LessNoisy
          <5>3. QED
            BY <3>1, <3>3, <4>2, <5>1, <5>2
        <4>3. QED
          BY <4>1, <4>2
      <3>4. QED
        BY <1>1, <2>2, <3>2, <3>3, RecordEffect DEF IInv
    <2>3. ASSUME NEW r \in Requests, NEW k \in IPs, Refuse(r, k)
          PROVE  \E j \in tracked' : count'[j] >= count[i]
      BY <2>1, <2>3 DEF Refuse
    <2>4. CASE Top
      BY <2>1, <2>4 DEF Top
    <2>5. QED
      BY <2>2, <2>3, <2>4 DEF Next
  <1>2. Spec => [][A]_vars
    BY <1>1, Invariance, PTL DEF Spec
  <1>3. QED
    BY <1>2 DEF LoudestStays
=============================================================================
