----------------------- MODULE ResponseCacheRefinement -----------------------
(***************************************************************************)
(* The response cache with its callers' view: out records what each call   *)
(* returned.  Hiding the entries that have expired but are still stored,   *)
(* it is the map that TTLMap promises.                                     *)
(***************************************************************************)
EXTENDS ResponseCache

VARIABLE out

obsVars == <<entries, out>>

ObsInit == Init /\ out = NoEntry

ObsGet(k) ==
  \E a \in Values \cup {NoEntry} :
    Get(k, a) /\ out' = [op |-> "get", key |-> k, answer |-> a]

ObsSet(k, v) ==
  \E b \in BOOLEAN :
    Set(k, v, b) /\ out' = [op |-> "set", key |-> k, answer |-> b]

ObsTick == Tick /\ UNCHANGED out

ObsNext ==
  \/ \E k \in Keys : ObsGet(k) \/ \E v \in Values : ObsSet(k, v)
  \/ ObsTick

ObsSpec == ObsInit /\ [][ObsNext]_obsVars

Promised == [k \in Keys |-> IF Unexpired(entries[k]) THEN entries[k] ELSE NoEntry]

Promise == INSTANCE TTLMap WITH
  promised <- Promised,
  TooMany <- {S \in SUBSET Keys : Cardinality(S) >= MaxEntries}

\* Callers cannot tell the cache from the ideal map: a hit returns the value
\* of the last stored write and only for TTL units after it, reads do not
\* renew it, no live entry is lost to make room, and a write is refused only
\* when the map is full of other live entries (get and set of
\* response_cache.go, with their sweeps).
KeepsPromise == Promise!Spec
=============================================================================
