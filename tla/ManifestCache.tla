---------------------------- MODULE ManifestCache ----------------------------
(***************************************************************************)
(* manifestCache (pkg/redirect/manifest_cache.go): manifests by upstream   *)
(* URL and Accept header, bounded by the bytes they take, the least        *)
(* recently used dropped first.  Entries have no time to live.             *)
(*                                                                         *)
(* Each method holds mu from its first access to its return, so each is    *)
(* one action.  order is the list, its front first; the map items is a     *)
(* variable of its own because the code keeps the two in step by hand, and *)
(* so is used, which it adds to and subtracts from.                        *)
(***************************************************************************)
EXTENDS Integers, Sequences, SequencesExt, FiniteSetsExt

CONSTANTS
  Keys, Values,
  Size,      \* bytes a value takes, headers included
  MaxBytes,
  NoEntry    \* absence of a map entry

ASSUME ManifestAssumption ==
  /\ Size \in [Values -> Nat]
  /\ MaxBytes \in Nat
  /\ NoEntry \notin Values

VARIABLES
  items,   \* what each key is bound to
  order,   \* keys, most recently used first
  used,    \* bytes accounted for
  history  \* every key ever stored or found, the last first

vars == <<items, order, used, history>>

TypeOK ==
  /\ items \in [Keys -> Values \cup {NoEntry}]
  /\ order \in Seq(Keys)
  /\ used \in 0..MaxBytes
  /\ history \in Seq(Keys)

Init ==
  /\ items = [k \in Keys |-> NoEntry]
  /\ order = <<>>
  /\ used = 0
  /\ history = <<>>

-----------------------------------------------------------------------------
(* Slips the code could have made, used to test the properties.            *)

\* A hit does not move its entry.
StillOrder(k) == order

\* The size of an entry that is overwritten stays accounted for.
OldSizeKept(k) == used

\* One entry is dropped where several may have to go.
KeptAfterOneDrop(o, total, sizeOf) == IF total > MaxBytes THEN Len(o) - 1 ELSE Len(o)

\* >= for > in the condition of the loop.
KeptBelowLimit(o, total, sizeOf) ==
  Max({n \in 0..Len(o) :
    n = 0 \/ total - SumFunctionOnSet(sizeOf, {o[i] : i \in (n + 1)..Len(o)}) < MaxBytes})
-----------------------------------------------------------------------------

Stored == {k \in Keys : items[k] # NoEntry}

\* Remove takes the entry of k out where it is, PushFront puts it at the front.
Without(k, s) ==
  IF k \in Range(s) THEN RemoveAt(s, CHOOSE i \in DOMAIN s : s[i] = k) ELSE s

ToFront(k, s) == <<k>> \o Without(k, s)

\* MoveToFront
Touched(k) == ToFront(k, order)

Get(k) ==
  /\ items[k] # NoEntry
  /\ order' = Touched(k)
  /\ history' = ToFront(k, history)
  /\ UNCHANGED <<items, used>>

\* A miss changes nothing; nor does a set of more than the cache holds.
Miss(k) == items[k] = NoEntry /\ UNCHANGED vars

Refuse(v) == Size[v] > MaxBytes /\ UNCHANGED vars

\* used without an entry that is overwritten
WithoutOld(k) == used - IF items[k] = NoEntry THEN 0 ELSE Size[items[k]]

\* What removeOldest drops of o when it leaves the first n entries.
After(o, n) == {o[i] : i \in (n + 1)..Len(o)}

\* How many entries of o, which are accounted for with total bytes, are left
\* when removeOldest has run until total is within the limit.
Kept(o, total, sizeOf) ==
  Max({n \in 0..Len(o) :
    n = 0 \/ total - SumFunctionOnSet(sizeOf, After(o, n)) <= MaxBytes})

Set(k, v) ==
  LET bound == [items EXCEPT ![k] = v]
      listed == ToFront(k, order)
      total == WithoutOld(k) + Size[v]
      sizeOf == [x \in Range(listed) |-> Size[bound[x]]]
      n == Kept(listed, total, sizeOf)
      dropped == After(listed, n) IN
  /\ Size[v] <= MaxBytes
  /\ order' = SubSeq(listed, 1, n)
  /\ items' = [x \in Keys |-> IF x \in dropped THEN NoEntry ELSE bound[x]]
  /\ used' = total - SumFunctionOnSet(sizeOf, dropped)
  /\ history' = ToFront(k, history)

Next ==
  \/ \E k \in Keys : Get(k) \/ Miss(k) \/ \E v \in Values : Set(k, v)
  \/ \E v \in Values : Refuse(v)

Spec == Init /\ [][Next]_vars

-----------------------------------------------------------------------------
(* Properties.                                                             *)

Bytes == SumFunctionOnSet([k \in Stored |-> Size[items[k]]], Stored)

\* The list, the map and the byte count agree after any sequence of calls: a
\* count above the bytes that are there would make set drop more than it must,
\* and in the end loop forever over an empty list with mu held.
Accounted ==
  /\ used = Bytes
  /\ Range(order) = Stored
  /\ Len(order) = Cardinality(Stored)

\* What is stored never takes more than MaxBytes, however many small entries a
\* large one displaces.
MemoryBound == Bytes <= MaxBytes

UsedBefore(a, b) ==
  \E i, j \in DOMAIN history' : i > j /\ history'[i] = a /\ history'[j] = b

Evicts ==
  LET gone == {k \in Stored : items'[k] = NoEntry}
      kept == {k \in Keys : items'[k] # NoEntry} IN
  /\ \A a \in gone, b \in kept : UsedBefore(a, b)
  /\ gone # {} =>
       /\ Head(history') \in kept
       /\ \E a \in gone : used' + Size[items[a]] > MaxBytes
                          /\ \A b \in gone \ {a} : UsedBefore(b, a)

\* set drops the least recently found or stored entries, no more of them than
\* it takes, and never the one it stores.
EvictsColdest == [][Evicts]_vars
=============================================================================
