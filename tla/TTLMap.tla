------------------------------- MODULE TTLMap -------------------------------
(***************************************************************************)
(* What a cache with a fixed time to live promises to its callers: a map   *)
(* whose bindings last exactly TTL units of time after the write that made *)
(* them.  Nothing is said of the memory behind it, except that a write is  *)
(* refused only when the keys already bound are too many.                  *)
(*                                                                         *)
(* out is the answer of the last call, so that an implementation is held   *)
(* to what callers see and not only to what it stores.                     *)
(***************************************************************************)
EXTENDS Naturals

CONSTANTS
  Keys, Values, TTL,
  TooMany,  \* the sets of bound keys that leave no room for another
  NoEntry

VARIABLES promised, out

vars == <<promised, out>>

Bound == {k \in Keys : promised[k] # NoEntry}

Init ==
  /\ promised = [k \in Keys |-> NoEntry]
  /\ out = NoEntry

\* A lookup answers with the bound value, or with a miss, and binds nothing.
Get(k) ==
  /\ out' = [op |-> "get", key |-> k,
             answer |-> IF promised[k] = NoEntry THEN NoEntry ELSE promised[k].value]
  /\ UNCHANGED promised

Put(k, v) ==
  /\ promised' = [promised EXCEPT ![k] = [value |-> v, left |-> TTL]]
  /\ out' = [op |-> "set", key |-> k, answer |-> TRUE]

Refuse(k) ==
  /\ k \notin Bound
  /\ Bound \in TooMany
  /\ out' = [op |-> "set", key |-> k, answer |-> FALSE]
  /\ UNCHANGED promised

\* Time passes by one unit; a binding whose time is up is gone.
Pass ==
  /\ promised' = [k \in Keys |->
       IF k \in Bound /\ promised[k].left > 1
       THEN [value |-> promised[k].value, left |-> promised[k].left - 1]
       ELSE NoEntry]
  /\ UNCHANGED out

Next ==
  \/ \E k \in Keys : Get(k) \/ Refuse(k) \/ \E v \in Values : Put(k, v)
  \/ Pass

Spec == Init /\ [][Next]_vars
=============================================================================
