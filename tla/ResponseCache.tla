---------------------------- MODULE ResponseCache ----------------------------
(***************************************************************************)
(* responseCache (pkg/redirect/response_cache.go): the mutex-guarded map   *)
(* behind the anonymous token cache and the /v2/ challenge cache.          *)
(*                                                                         *)
(* Each method holds mu from its first map access to its return, so each   *)
(* is one action.  An entry's expiresAt is kept as the time left until     *)
(* then, so time.Now().Before(expiresAt) reads left > 0.  An expired entry *)
(* stays in the map until a get of its key or a set under pressure sweeps  *)
(* it.  A nil cache (Options.TokenCache.Disabled) misses every get and     *)
(* stores nothing, which is what MaxEntries = 0 does.                      *)
(***************************************************************************)
EXTENDS Naturals, FiniteSets

CONSTANTS
  Keys,        \* upstream URLs; the /v2/ cache uses a single key
  Values,      \* the *cachedResponse values callers store
  TTL,         \* lifetime of an entry, in clock units
  MaxEntries,  \* cap on stored entries, expired ones included
  NoEntry      \* absence of a map entry

Entry == [value : Values, left : 0..TTL]

ASSUME CacheAssumption ==
  /\ IsFiniteSet(Keys)
  /\ TTL \in Nat \ {0}
  /\ MaxEntries \in Nat
  /\ NoEntry \notin Values \cup Entry

VARIABLE entries

TypeOK == entries \in [Keys -> Entry \cup {NoEntry}]

-----------------------------------------------------------------------------
(* Slips the code could have made, used to test the properties:            *)
(* > for >= in the capacity test; a sweep that drops live entries; a clock *)
(* that runs an entry's time below zero; a hit that renews the entry.      *)
FullOffByOne(e) == Cardinality({k \in Keys : e[k] # NoEntry}) > MaxEntries
SweepAll(e) == [k \in Keys |-> NoEntry]
StillLive(e) == e # NoEntry
RenewingGet(k, answer) ==
  IF entries[k] # NoEntry /\ entries[k].left > 0
  THEN /\ answer = entries[k].value
       /\ entries' = [entries EXCEPT ![k].left = TTL]
  ELSE /\ answer = NoEntry
       /\ entries' = [entries EXCEPT ![k] = NoEntry]
-----------------------------------------------------------------------------

Stored(e) == {k \in Keys : e[k] # NoEntry}

\* now.Before(expiresAt)
Unexpired(e) == e # NoEntry /\ e.left > 0

\* An expired entry is removed on the way out of a get.
Get(k, answer) ==
  \/ /\ Unexpired(entries[k])
     /\ answer = entries[k].value
     /\ UNCHANGED entries
  \/ /\ ~Unexpired(entries[k])
     /\ answer = NoEntry
     /\ entries' = [entries EXCEPT ![k] = NoEntry]

Full(e) == Cardinality(Stored(e)) >= MaxEntries

Sweep(e) == [k \in Keys |-> IF Unexpired(e[k]) THEN e[k] ELSE NoEntry]

\* A new key in a full map first drops what has expired.
MakeRoom(k) ==
  IF entries[k] = NoEntry /\ Full(entries) THEN Sweep(entries) ELSE entries

\* A key that is already there is overwritten even when the map is full.
Set(k, v, stored) ==
  LET room == MakeRoom(k) IN
  \/ /\ entries[k] # NoEntry \/ ~Full(room)
     /\ stored = TRUE
     /\ entries' = [room EXCEPT ![k] = [value |-> v, left |-> TTL]]
  \/ /\ entries[k] = NoEntry /\ Full(room)
     /\ stored = FALSE
     /\ entries' = room

\* The clock moves by one unit.
Tick ==
  entries' = [k \in Keys |->
    IF Unexpired(entries[k]) THEN [entries[k] EXCEPT !.left = @ - 1]
                             ELSE entries[k]]

Init == entries = [k \in Keys |-> NoEntry]

Next ==
  \/ \E k \in Keys : \/ \E a \in Values \cup {NoEntry} : Get(k, a)
                     \/ \E v \in Values, b \in BOOLEAN : Set(k, v, b)
  \/ Tick

Spec == Init /\ [][Next]_entries

-----------------------------------------------------------------------------
\* tokenCacheMaxEntries "bounds memory": the map never holds more than
\* MaxEntries entries, whatever mix of live and expired ones it has.
CapacityBound == Cardinality(Stored(entries)) <= MaxEntries
=============================================================================
