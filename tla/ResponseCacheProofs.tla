------------------------- MODULE ResponseCacheProofs -------------------------
(***************************************************************************)
(* The response cache never outgrows its cap and keeps the promise of      *)
(* TTLMap, for every set of keys and values, every TTL and every cap.      *)
(***************************************************************************)
EXTENDS ResponseCacheRefinement, FiniteSetTheorems, TLAPS

-----------------------------------------------------------------------------
(* What the sweep does to a map.                                           *)

\* A sweep keeps exactly the unexpired entries of the map it is given.
LEMMA SweepKeeps ==
  ASSUME NEW e \in [Keys -> Entry \cup {NoEntry}], NEW k \in Keys
  PROVE  /\ Sweep(e) \in [Keys -> Entry \cup {NoEntry}]
         /\ Unexpired(Sweep(e)[k]) <=> Unexpired(e[k])
         /\ Unexpired(e[k]) => Sweep(e)[k] = e[k]
         /\ ~Unexpired(e[k]) => Sweep(e)[k] = NoEntry
  BY DEF Sweep, Unexpired

\* The map that a set writes into: the old one, perhaps swept.
LEMMA MakeRoomKeeps ==
  ASSUME TypeOK, NEW j \in Keys, NEW k \in Keys
  PROVE  /\ MakeRoom(k) \in [Keys -> Entry \cup {NoEntry}]
         /\ Unexpired(MakeRoom(k)[j]) <=> Unexpired(entries[j])
         /\ Unexpired(entries[j]) => MakeRoom(k)[j] = entries[j]
         /\ Stored(MakeRoom(k)) \subseteq Stored(entries)
         /\ entries[k] # NoEntry => MakeRoom(k) = entries
  <1>1. CASE entries[k] = NoEntry /\ Full(entries)
    <2>1. MakeRoom(k) = Sweep(entries)
      BY <1>1 DEF MakeRoom
    <2>2. Stored(Sweep(entries)) \subseteq Stored(entries)
      BY DEF Stored, Sweep, Unexpired
    <2>3. QED
      BY <1>1, <2>1, <2>2, SweepKeeps DEF TypeOK
  <1>2. CASE ~(entries[k] = NoEntry /\ Full(entries))
    <2>1. MakeRoom(k) = entries
      BY <1>2 DEF MakeRoom
    <2>2. QED
      BY <2>1 DEF TypeOK
  <1>3. QED
    BY <1>1, <1>2

-----------------------------------------------------------------------------
(* Type correctness.                                                       *)

LEMMA TypeInit == Init => TypeOK
  BY DEF Init, TypeOK

LEMMA TypeStep == TypeOK /\ [Next]_entries => TypeOK'
  <1> SUFFICES ASSUME TypeOK, [Next]_entries
               PROVE  TypeOK'
    OBVIOUS
  <1>1. ASSUME NEW k \in Keys, NEW a \in Values \cup {NoEntry}, Get(k, a)
        PROVE  TypeOK'
    BY <1>1 DEF Get, TypeOK
  <1>2. ASSUME NEW k \in Keys, NEW v \in Values, NEW b \in BOOLEAN, Set(k, v, b)
        PROVE  TypeOK'
    <2>1. MakeRoom(k) \in [Keys -> Entry \cup {NoEntry}]
      BY MakeRoomKeeps
    <2>2. [value |-> v, left |-> TTL] \in Entry
      BY CacheAssumption DEF Entry
    <2>3. QED
      BY <1>2, <2>1, <2>2 DEF Set, TypeOK
  <1>3. CASE Tick
    <2>1. ASSUME NEW k \in Keys, Unexpired(entries[k])
          PROVE  [entries[k] EXCEPT !.left = @ - 1] \in Entry
      <3>1. entries[k] \in Entry
        BY <2>1 DEF TypeOK, Unexpired
      <3>2. entries[k].left \in 0..TTL /\ entries[k].left > 0 /\ TTL \in Nat
        BY <2>1, <3>1, CacheAssumption DEF Entry, Unexpired
      <3>3. entries[k].left - 1 \in 0..TTL
        BY <3>2
      <3>4. QED
        BY <3>1, <3>3 DEF Entry
    <2>2. QED
      BY <1>3, <2>1 DEF Tick, TypeOK
  <1>4. CASE UNCHANGED entries
    BY <1>4 DEF TypeOK
  <1>5. QED
    BY <1>1, <1>2, <1>3, <1>4 DEF Next

\* Every entry the cache stores is a value with a time left of at most TTL.
THEOREM TypeCorrect == Spec => []TypeOK
  BY TypeInit, TypeStep, PTL DEF Spec

-----------------------------------------------------------------------------
(* The capacity bound.                                                     *)

LEMMA StoredFinite ==
  ASSUME NEW e
  PROVE  IsFiniteSet(Stored(e)) /\ Cardinality(Stored(e)) \in Nat
  <1>1. Stored(e) \subseteq Keys
    BY DEF Stored
  <1>2. IsFiniteSet(Stored(e))
    BY <1>1, FS_Subset, CacheAssumption
  <1>3. QED
    BY <1>2, FS_CardinalityType

LEMMA AddOne ==
  ASSUME NEW S, IsFiniteSet(S), NEW x
  PROVE  IsFiniteSet(S \cup {x}) /\ Cardinality(S \cup {x}) <= Cardinality(S) + 1
  <1>1. Cardinality(S) \in Nat
    BY FS_CardinalityType
  <1>2. CASE x \in S
    <2>1. S \cup {x} = S
      BY <1>2
    <2>2. IsFiniteSet(S \cup {x}) /\ Cardinality(S \cup {x}) = Cardinality(S)
      BY <2>1, Zenon
    <2>3. QED
      BY <1>1, <2>2
  <1>3. CASE x \notin S
    <2>1. IsFiniteSet(S \cup {x}) /\ Cardinality(S \cup {x}) = Cardinality(S) + 1
      BY <1>3, FS_AddElement
    <2>2. QED
      BY <1>1, <2>1
  <1>4. QED
    BY <1>2, <1>3

LEMMA CapacityStep == TypeOK /\ CapacityBound /\ [Next]_entries => CapacityBound'
  <1> SUFFICES ASSUME TypeOK, CapacityBound, [Next]_entries
               PROVE  Cardinality(Stored(entries')) <= MaxEntries
    BY DEF CapacityBound
  <1>0. ASSUME Stored(entries') \subseteq Stored(entries)
        PROVE  Cardinality(Stored(entries')) <= MaxEntries
    <2>1. Cardinality(Stored(entries')) <= Cardinality(Stored(entries))
      BY <1>0, StoredFinite, FS_Subset
    <2>2. QED
      BY <2>1, StoredFinite, CacheAssumption DEF CapacityBound
  <1>1. ASSUME NEW k \in Keys, NEW a \in Values \cup {NoEntry}, Get(k, a)
        PROVE  Stored(entries') \subseteq Stored(entries)
    BY <1>1 DEF Get, Stored, TypeOK
  <1>2. ASSUME NEW k \in Keys, NEW v \in Values, NEW b \in BOOLEAN, Set(k, v, b)
        PROVE  Cardinality(Stored(entries')) <= MaxEntries
    <2> DEFINE room == MakeRoom(k)
               put == [room EXCEPT ![k] = [value |-> v, left |-> TTL]]
    <2>0. room \in [Keys -> Entry \cup {NoEntry}] /\ Stored(room) \subseteq Stored(entries)
      BY MakeRoomKeeps
    <2>1. CASE entries[k] # NoEntry /\ entries' = put
      <3>1. room = entries
        BY <2>1, MakeRoomKeeps
      <3>2. Stored(entries') \subseteq Stored(entries)
        BY <2>1, <3>1 DEF Stored, TypeOK
      <3>3. QED
        BY <3>2, <1>0
    <2>2. CASE ~Full(room) /\ entries' = put
      <3>1. Stored(entries') \subseteq Stored(room) \cup {k}
        BY <2>0, <2>2 DEF Stored
      <3>2. /\ IsFiniteSet(Stored(room) \cup {k})
            /\ Cardinality(Stored(room) \cup {k}) <= Cardinality(Stored(room)) + 1
        BY StoredFinite, AddOne
      <3>3. Cardinality(Stored(room)) < MaxEntries
        BY <2>2, StoredFinite, CacheAssumption DEF Full
      <3>4. Cardinality(Stored(entries')) <= Cardinality(Stored(room) \cup {k})
        BY <3>1, <3>2, FS_Subset
      <3>5. Cardinality(Stored(room) \cup {k}) \in Nat
        BY <3>2, FS_CardinalityType
      <3>6. QED
        BY <3>2, <3>3, <3>4, <3>5, StoredFinite, CacheAssumption
    <2>3. CASE entries' = room
      BY <2>0, <2>3, <1>0
    <2>4. QED
      BY <1>2, <2>1, <2>2, <2>3 DEF Set
  <1>3. CASE Tick
    <2>1. Stored(entries') \subseteq Stored(entries)
      BY <1>3 DEF Tick, Stored, Unexpired
    <2>2. QED
      BY <2>1, <1>0
  <1>4. CASE UNCHANGED entries
    BY <1>4, <1>0
  <1>5. QED
    BY <1>0, <1>1, <1>2, <1>3, <1>4 DEF Next

\* The cache never stores more than MaxEntries entries: a set of a new key
\* into a full map either finds expired entries to drop or stores nothing.
THEOREM CapacityCorrect == Spec => []CapacityBound
  <1>1. Init => CapacityBound
    <2>1. ASSUME Init PROVE Stored(entries) = {}
      BY <2>1 DEF Init, Stored
    <2>2. QED
      BY <2>1, FS_EmptySet, CacheAssumption DEF CapacityBound
  <1>2. QED
    BY <1>1, CapacityStep, TypeCorrect, PTL DEF Spec
-----------------------------------------------------------------------------
(* The cache implements the map of TTLMap.                                 *)

LEMMA PromisedGet ==
  ASSUME TypeOK, NEW k \in Keys, ObsGet(k)
  PROVE  Promise!Get(k)
  <1>1. PICK a \in Values \cup {NoEntry} :
          Get(k, a) /\ out' = [op |-> "get", key |-> k, answer |-> a]
    BY DEF ObsGet
  <1>2. Promised' = Promised
    BY <1>1 DEF Get, Promised, TypeOK, Unexpired
  <1>3. a = IF Promised[k] = NoEntry THEN NoEntry ELSE Promised[k].value
    BY <1>1 DEF Get, Promised, Unexpired
  <1>4. QED
    BY <1>1, <1>2, <1>3 DEF Promise!Get

LEMMA PromisedSet ==
  ASSUME TypeOK, NEW k \in Keys, NEW v \in Values, ObsSet(k, v)
  PROVE  Promise!Put(k, v) \/ Promise!Refuse(k)
  <1>1. PICK b \in BOOLEAN :
          Set(k, v, b) /\ out' = [op |-> "set", key |-> k, answer |-> b]
    BY DEF ObsSet
  <1> DEFINE room == MakeRoom(k)
             new == [value |-> v, left |-> TTL]
  <1>2. room \in [Keys -> Entry \cup {NoEntry}]
    BY MakeRoomKeeps
  <1>7. ASSUME NEW j \in Keys
        PROVE  Promised[j] = IF Unexpired(room[j]) THEN room[j] ELSE NoEntry
    <2>1. CASE Unexpired(entries[j])
      BY <2>1, MakeRoomKeeps DEF Promised
    <2>2. CASE ~Unexpired(entries[j])
      BY <2>2, MakeRoomKeeps DEF Promised
    <2>3. QED
      BY <2>1, <2>2
  <1>3. CASE b = TRUE /\ entries' = [room EXCEPT ![k] = new]
    <2>1. Unexpired(new)
      <3>1. new \in Entry /\ TTL > 0
        BY CacheAssumption DEF Entry
      <3>2. new # NoEntry
        BY <3>1, CacheAssumption
      <3>3. QED
        BY <3>1, <3>2 DEF Unexpired
    <2>2. entries'[k] = new /\ \A j \in Keys \ {k} : entries'[j] = room[j]
      BY <1>2, <1>3
    <2>3. Promised' = [j \in Keys |-> IF Unexpired(entries'[j]) THEN entries'[j] ELSE NoEntry]
      BY DEF Promised, Unexpired
    <2>4. Promised'[k] = new
      BY <2>1, <2>2, <2>3
    <2>5. ASSUME NEW j \in Keys \ {k} PROVE Promised'[j] = Promised[j]
      <3>1. entries'[j] = room[j]
        BY <2>2
      <3>2. Promised'[j] = IF Unexpired(room[j]) THEN room[j] ELSE NoEntry
        BY <2>3, <3>1
      <3>3. QED
        BY <1>7, <3>2
    <2>6. Promised' = [Promised EXCEPT ![k] = new]
      BY <2>3, <2>4, <2>5 DEF Promised
    <2>7. QED
      BY <1>1, <1>3, <2>6 DEF Promise!Put
  <1>4. CASE b = FALSE /\ entries[k] = NoEntry /\ Full(room) /\ entries' = room
    <2>1. Full(entries)
      BY <1>4 DEF MakeRoom
    <2>2. room = Sweep(entries)
      BY <1>4, <2>1 DEF MakeRoom
    <2>3. Stored(room) = Promise!Bound
      BY <2>2 DEF Stored, Sweep, Promise!Bound, Promised, Unexpired
    <2>4. Promised' = [j \in Keys |-> IF Unexpired(entries'[j]) THEN entries'[j] ELSE NoEntry]
      BY DEF Promised, Unexpired
    <2>5. UNCHANGED Promised
      BY <1>4, <1>7, <2>4 DEF Promised
    <2>6. k \notin Promise!Bound
      BY <1>4 DEF Promise!Bound, Promised, Unexpired
    <2>7. Cardinality(Promise!Bound) >= MaxEntries /\ Promise!Bound \subseteq Keys
      BY <1>4, <2>3 DEF Full, Promise!Bound
    <2>8. QED
      BY <1>1, <1>4, <2>5, <2>6, <2>7 DEF Promise!Refuse
  <1>5. QED
    BY <1>1, <1>3, <1>4 DEF Set

LEMMA PromisedTick ==
  ASSUME TypeOK, ObsTick
  PROVE  Promise!Pass
  <1>1. entries' = [k \in Keys |->
           IF Unexpired(entries[k]) THEN [entries[k] EXCEPT !.left = @ - 1]
                                    ELSE entries[k]]
    BY DEF ObsTick, Tick
  <1>2. ASSUME NEW k \in Keys
        PROVE  (IF Unexpired(entries'[k]) THEN entries'[k] ELSE NoEntry)
               = IF k \in Promise!Bound /\ Promised[k].left > 1
                 THEN [value |-> Promised[k].value, left |-> Promised[k].left - 1]
                 ELSE NoEntry
    <2>1. CASE ~Unexpired(entries[k])
      <3>1. entries'[k] = entries[k] /\ Promised[k] = NoEntry
        BY <1>1, <2>1 DEF Promised
      <3>2. QED
        BY <2>1, <3>1 DEF Promise!Bound
    <2>2. CASE Unexpired(entries[k])
      <3>1. entries[k] \in Entry
        BY <2>2 DEF TypeOK, Unexpired
      <3>2. PICK v \in Values, l \in 0..TTL : entries[k] = [value |-> v, left |-> l]
        BY <3>1 DEF Entry
      <3>3. entries'[k] = [value |-> v, left |-> l - 1]
        <4>1. entries'[k] = [entries[k] EXCEPT !.left = @ - 1]
          BY <1>1, <2>2
        <4>2. QED
          BY <3>2, <4>1
      <3>4. Promised[k] = [value |-> v, left |-> l] /\ k \in Promise!Bound
        BY <2>2, <3>2 DEF Promised, Promise!Bound, Unexpired
      <3>5. l \in Nat /\ l > 0 /\ l - 1 \in 0..TTL
        BY <2>2, <3>2, CacheAssumption DEF Unexpired
      <3>6. [value |-> v, left |-> l - 1] # NoEntry
        BY <3>2, <3>5, CacheAssumption DEF Entry
      <3>7. Unexpired(entries'[k]) <=> l > 1
        BY <3>3, <3>5, <3>6 DEF Unexpired
      <3>8. QED
        BY <3>3, <3>4, <3>7
    <2>3. QED
      BY <2>1, <2>2
  <1>3. Promised' = [k \in Keys |-> IF Unexpired(entries'[k]) THEN entries'[k] ELSE NoEntry]
    BY DEF Promised, Unexpired
  <1>4. QED
    BY <1>2, <1>3 DEF ObsTick, Promise!Pass

\* Whatever the keys, the TTL and the cap, the cache answers its callers as
\* the map of TTLMap would: expired entries it has not swept yet, and the
\* sweep itself, never show.
THEOREM PromiseKept == ObsSpec => KeepsPromise
  <1>1. ObsInit => Promise!Init
    BY DEF ObsInit, Init, Promise!Init, Promised, Unexpired
  <1>2. TypeOK /\ [ObsNext]_obsVars => [Promise!Next]_(Promise!vars)
    <2> SUFFICES ASSUME TypeOK, [ObsNext]_obsVars
                 PROVE  [Promise!Next]_(Promise!vars)
      OBVIOUS
    <2>1. CASE ObsTick
      BY <2>1, PromisedTick DEF Promise!Next
    <2>2. ASSUME NEW k \in Keys, ObsGet(k) PROVE Promise!Next
      BY <2>2, PromisedGet DEF Promise!Next
    <2>3. ASSUME NEW k \in Keys, NEW v \in Values, ObsSet(k, v) PROVE Promise!Next
      BY <2>3, PromisedSet DEF Promise!Next
    <2>4. CASE UNCHANGED obsVars
      BY <2>4 DEF obsVars, Promise!vars, Promised, Unexpired
    <2>5. QED
      BY <2>1, <2>2, <2>3, <2>4 DEF ObsNext
  <1>3. ObsInit => TypeOK
    BY TypeInit DEF ObsInit
  <1>4. TypeOK /\ [ObsNext]_obsVars => TypeOK'
    <2>1. [ObsNext]_obsVars => [Next]_entries
      BY DEF ObsNext, ObsGet, ObsSet, ObsTick, obsVars, Next
    <2>2. QED
      BY <2>1, TypeStep
  <1>5. QED
    BY <1>1, <1>2, <1>3, <1>4, PTL DEF ObsSpec, KeepsPromise, Promise!Spec
=============================================================================
