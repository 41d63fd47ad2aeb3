--------------------------- MODULE TokenFlowProofs ---------------------------
(***************************************************************************)
(* The safety properties of TokenFlow for any number of requests and URLs, *)
(* any TTL, timeout and cache size.                                        *)
(***************************************************************************)
EXTENDS TokenFlow, TLAPS

-----------------------------------------------------------------------------
(* What the cache does for this module.                                    *)

LEMMA LiveStored ==
  ASSUME NEW u \in Urls, Cache!TypeOK, cache[u] # NoEntry
  PROVE  cache[u].value \in Answers /\ cache[u].left \in 0..TTL
  BY DEF Cache!TypeOK, Cache!Entry

\* A get loses only an expired entry, and misses only when there is no live one.
LEMMA GetKeeps ==
  ASSUME Cache!TypeOK, NEW u \in Urls, NEW a \in Answers \cup {NoEntry}, Cache!Get(u, a)
  PROVE  /\ Cache!TypeOK'
         /\ \A w \in Urls : cache'[w] # NoEntry => cache'[w] = cache[w]
         /\ a = NoEntry => ~Live(u)'
         /\ a # NoEntry => cache[u] # NoEntry /\ a = cache[u].value
  <1>1. CASE /\ Cache!Unexpired(cache[u])
             /\ a = cache[u].value
             /\ UNCHANGED cache
    <2>1. cache[u].value \in Answers
      BY <1>1, LiveStored DEF Cache!Unexpired
    <2>2. a # NoEntry
      BY <1>1, <2>1, FlowAssumption
    <2>3. QED
      BY <1>1, <2>2 DEF Cache!TypeOK, Cache!Unexpired
  <1>2. CASE /\ ~Cache!Unexpired(cache[u])
             /\ a = NoEntry
             /\ cache' = [cache EXCEPT ![u] = NoEntry]
    BY <1>2 DEF Cache!TypeOK, Live, Cache!Unexpired
  <1>3. QED
    BY <1>1, <1>2 DEF Cache!Get

\* A set touches no other live entry and starts its own one's time.
LEMMA SetKeeps ==
  ASSUME Cache!TypeOK, NEW u \in Urls, NEW a \in Answers, NEW stored \in BOOLEAN,
         Cache!Set(u, a, stored)
  PROVE  /\ Cache!TypeOK'
         /\ \A w \in Urls \ {u} : cache'[w] # NoEntry => cache'[w] = cache[w]
         /\ stored => cache'[u] = [value |-> a, left |-> TTL]
         /\ ~stored => cache'[u] = NoEntry
  <1> DEFINE room == Cache!MakeRoom(u)
             new == [value |-> a, left |-> TTL]
  <1>1. /\ room \in [Urls -> Cache!Entry \cup {NoEntry}]
        /\ \A w \in Urls : room[w] # NoEntry => room[w] = cache[w]
    BY DEF Cache!MakeRoom, Cache!Sweep, Cache!TypeOK
  <1>2. new \in Cache!Entry
    BY FlowAssumption DEF Cache!Entry
  <1>3. CASE stored = TRUE /\ cache' = [room EXCEPT ![u] = new]
    BY <1>1, <1>2, <1>3 DEF Cache!TypeOK
  <1>4. CASE stored = FALSE /\ cache[u] = NoEntry /\ cache' = room
    BY <1>1, <1>4 DEF Cache!TypeOK
  <1>5. QED
    BY <1>3, <1>4 DEF Cache!Set

\* The clock takes a unit of time from every live entry and nothing else.
LEMMA TickKeeps ==
  ASSUME Cache!TypeOK, Cache!Tick
  PROVE  /\ Cache!TypeOK'
         /\ \A u \in Urls :
              /\ cache'[u] # NoEntry => cache[u] # NoEntry /\ cache'[u].value = cache[u].value
              /\ Live(u)' => Live(u) /\ cache'[u].left = cache[u].left - 1
  <1>1. ASSUME NEW u \in Urls, Live(u)
        PROVE  /\ cache'[u] = [value |-> cache[u].value, left |-> cache[u].left - 1]
               /\ cache'[u] \in Cache!Entry
    <2>1. cache[u] \in Cache!Entry
      BY <1>1 DEF Cache!TypeOK, Live, Cache!Unexpired
    <2>2. PICK v \in Answers, l \in 0..TTL : cache[u] = [value |-> v, left |-> l]
      BY <2>1 DEF Cache!Entry
    <2>3. cache'[u] = [cache[u] EXCEPT !.left = @ - 1]
      BY <1>1 DEF Cache!Tick, Live
    <2>4. cache'[u] = [value |-> v, left |-> l - 1]
      BY <2>2, <2>3
    <2>5. l - 1 \in 0..TTL
      BY <1>1, <2>2, FlowAssumption DEF Live, Cache!Unexpired
    <2>6. QED
      BY <2>2, <2>4, <2>5 DEF Cache!Entry
  <1>2. ASSUME NEW u \in Urls, ~Live(u)
        PROVE  cache'[u] = cache[u]
    BY <1>2 DEF Cache!Tick, Live
  <1>3. Cache!TypeOK'
    <2>1. \A u \in Urls : cache'[u] \in Cache!Entry \cup {NoEntry}
      BY <1>1, <1>2 DEF Cache!TypeOK
    <2>2. QED
      BY <2>1 DEF Cache!Tick, Cache!TypeOK
  <1>4. ASSUME NEW u \in Urls
        PROVE  /\ cache'[u] # NoEntry => cache[u] # NoEntry /\ cache'[u].value = cache[u].value
               /\ Live(u)' => Live(u) /\ cache'[u].left = cache[u].left - 1
    <2>1. CASE Live(u)
      <3>1. cache'[u] = [value |-> cache[u].value, left |-> cache[u].left - 1]
        BY <1>1, <2>1
      <3>2. cache'[u].value = cache[u].value /\ cache'[u].left = cache[u].left - 1
        BY <3>1
      <3>3. cache[u] # NoEntry
        BY <2>1 DEF Live, Cache!Unexpired
      <3>4. QED
        BY <2>1, <3>2, <3>3
    <2>2. CASE ~Live(u)
      BY <1>2, <2>2 DEF Live, Cache!Unexpired
    <2>3. QED
      BY <2>1, <2>2
  <1>5. QED
    BY <1>3, <1>4

-----------------------------------------------------------------------------
(* Type correctness.  charged stays at most 1 because a request is charged *)
(* before anything else is, or else never again: StageOK.                  *)

StageOK ==
  \A r \in Requests :
    /\ pc[r] = "charge" => charged[r] = 0
    /\ pc[r] = "lookup" /\ Client(r) => charged[r] = 0
    /\ pc[r] = "lookup" /\ ~Client(r) => (charged[r] = 0 <=> Exempt(kind[r]))
    /\ pc[r] \in {"join", "wait", "direct"} => (charged[r] = 0 <=> Exempt(kind[r]))
    /\ reply[r] = "limited" => charged[r] = 0 /\ pc[r] = "done"

LEMMA SettleType ==
  ASSUME TypeOK, NEW r \in Requests, NEW res \in Results, Settle(r, res)
  PROVE  /\ pc' \in [Requests -> {"idle", "lookup", "charge", "join", "wait", "direct", "done"}]
         /\ reply' \in [Requests -> Results \cup {None, "limited", "answered"}]
  BY DEF Settle, TypeOK

LEMMA TypeInit == Init => TypeOK /\ StageOK
  BY FlowAssumption DEF Init, TypeOK, StageOK, Cache!Init, Cache!TypeOK, None

LEMMA ReturnType ==
  ASSUME TypeOK, NEW u \in Urls, NEW res \in Results, Return(u, res)
  PROVE  /\ phase' \in [Urls -> {None, "recheck", "fetch", "finish"}]
         /\ result' \in [Urls -> Results \cup {None}]
         /\ timer' \in [Urls -> 0..Timeout]
  BY FlowAssumption DEF Return, TypeOK

LEMMA TypeStep == TypeOK /\ StageOK /\ [Next]_vars => TypeOK'
  <1> SUFFICES ASSUME TypeOK, StageOK, [Next]_vars
               PROVE  TypeOK'
    OBVIOUS
  <1> USE DEF reqVars, callVars
  <1>1. ASSUME NEW r \in Requests, NEW k \in Kinds, NEW u \in Urls, Arrive(r, k, u)
        PROVE  TypeOK'
    BY <1>1, FlowAssumption DEF Arrive, TypeOK, Cache!TypeOK
  <1>2. ASSUME NEW r \in Requests, Lookup(r)
        PROVE  TypeOK'
    <2>1. PICK a \in Answers \cup {NoEntry} :
            /\ Cache!Get(url[r], a)
            /\ IF a # NoEntry
               THEN Settle(r, a)
               ELSE /\ pc' = [pc EXCEPT ![r] = IF Client(r) THEN "charge" ELSE "join"]
                    /\ UNCHANGED reply
      BY <1>2 DEF Lookup
    <2>2. Cache!TypeOK'
      BY <2>1, GetKeeps DEF TypeOK
    <2>3. /\ pc' \in [Requests -> {"idle", "lookup", "charge", "join", "wait", "direct", "done"}]
          /\ reply' \in [Requests -> Results \cup {None, "limited", "answered"}]
      <3>1. CASE a # NoEntry
        BY <2>1, <3>1, SettleType DEF Results
      <3>2. CASE a = NoEntry
        BY <2>1, <3>2 DEF TypeOK
      <3>3. QED
        BY <3>1, <3>2
    <2>4. QED
      BY <1>2, <2>2, <2>3 DEF Lookup, TypeOK
  <1>3. ASSUME NEW r \in Requests, NEW allowed \in BOOLEAN, Charge(r, allowed)
        PROVE  TypeOK'
    <2>1. charged[r] = 0
      BY <1>3 DEF Charge, StageOK
    <2>2. UNCHANGED <<kind, url, canceled, inbox, callVars, cache, age>>
      BY <1>3 DEF Charge
    <2>3. pc' \in [Requests -> {"idle", "lookup", "charge", "join", "wait", "direct", "done"}]
      BY <1>3 DEF Charge, TypeOK
    <2>4. charged' \in [Requests -> 0..1]
      BY <1>3, <2>1 DEF Charge, TypeOK
    <2>5. reply' \in [Requests -> Results \cup {None, "limited", "answered"}]
      BY <1>3 DEF Charge, TypeOK
    <2>6. QED
      BY <2>2, <2>3, <2>4, <2>5 DEF TypeOK, Cache!TypeOK, callVars
  <1>4. ASSUME NEW r \in Requests, Leave(r)
        PROVE  TypeOK'
    BY <1>4, SettleType DEF Leave, TypeOK, Cache!TypeOK, Results, Errors
  <1>5. ASSUME NEW r \in Requests, Join(r)
        PROVE  TypeOK'
    BY <1>5 DEF Join, FetchCtx, TypeOK, Cache!TypeOK
  <1>6. ASSUME NEW r \in Requests, Receive(r)
        PROVE  TypeOK'
    <2>1. inbox[r] \in Results
      BY <1>6 DEF Receive, TypeOK
    <2>2. QED
      BY <1>6, <2>1, SettleType DEF Receive, TypeOK, Cache!TypeOK
  <1>7. ASSUME NEW r \in Requests, Abandon(r)
        PROVE  TypeOK'
    BY <1>7, SettleType DEF Abandon, TypeOK, Cache!TypeOK, Results, Errors
  <1>8. ASSUME NEW r \in Requests, NEW outcome \in {"answered"} \cup Errors, Direct(r, outcome)
        PROVE  TypeOK'
    BY <1>8 DEF Direct, TypeOK, Cache!TypeOK, Results
  <1>9. ASSUME NEW r \in Requests, Disconnect(r)
        PROVE  TypeOK'
    BY <1>9 DEF Disconnect, TypeOK, Cache!TypeOK
  <1>10. ASSUME NEW u \in Urls, Recheck(u)
         PROVE  TypeOK'
    <2>1. PICK a \in Answers \cup {NoEntry} :
            /\ Cache!Get(u, a)
            /\ \/ a # NoEntry /\ Return(u, a)
               \/ /\ a = NoEntry
                  /\ phase' = [phase EXCEPT ![u] = "fetch"]
                  /\ timer' = [timer EXCEPT ![u] = Timeout]
                  /\ UNCHANGED result
      BY <1>10 DEF Recheck
    <2>2. Cache!TypeOK'
      BY <2>1, GetKeeps DEF TypeOK
    <2>3. CASE a # NoEntry
      BY <1>10, <2>1, <2>2, <2>3, ReturnType DEF Recheck, TypeOK, Results
    <2>4. CASE a = NoEntry
      <3>1. phase' = [phase EXCEPT ![u] = "fetch"] /\ timer' = [timer EXCEPT ![u] = Timeout]
            /\ UNCHANGED result
        BY <2>1, <2>4
      <3>2. UNCHANGED <<reqVars, ctx, waiters, age>>
        BY <1>10 DEF Recheck
      <3>3. /\ phase' \in [Urls -> {None, "recheck", "fetch", "finish"}]
            /\ timer' \in [Urls -> 0..Timeout]
        BY <3>1, FlowAssumption DEF TypeOK
      <3>4. QED
        BY <2>2, <3>1, <3>2, <3>3 DEF TypeOK, reqVars
    <2>5. QED
      BY <2>3, <2>4
  <1>11. ASSUME NEW u \in Urls, NEW a \in Answers, Answer(u, a)
         PROVE  TypeOK'
    <2>1. a \in Results /\ Return(u, a)
      BY <1>11 DEF Answer, Results
    <2>2. Timeout - timer[u] \in 0..Lifetime
      BY FlowAssumption DEF TypeOK
    <2>3. Cache!TypeOK' /\ age' \in [Urls -> 0..Lifetime]
      <3>1. CASE UNCHANGED <<cache, age>>
        BY <3>1 DEF TypeOK, Cache!TypeOK
      <3>2. ASSUME NEW stored \in BOOLEAN,
                   Cache!Set(u, a, stored),
                   age' = [age EXCEPT ![u] = IF stored THEN Timeout - timer[u] ELSE @]
            PROVE  Cache!TypeOK' /\ age' \in [Urls -> 0..Lifetime]
        BY <2>2, <3>2, SetKeeps DEF TypeOK
      <3>3. QED
        BY <1>11, <3>1, <3>2 DEF Answer
    <2>4. QED
      BY <1>11, <2>1, <2>3, ReturnType DEF Answer, TypeOK
  <1>12. ASSUME NEW u \in Urls, NEW err \in Errors, Fail(u, err)
         PROVE  TypeOK'
    BY <1>12, ReturnType DEF Fail, TypeOK, Cache!TypeOK, Results
  <1>13. ASSUME NEW u \in Urls, TimeOut(u)
         PROVE  TypeOK'
    BY <1>13, ReturnType DEF TimeOut, TypeOK, Cache!TypeOK, Results, Errors
  <1>14. ASSUME NEW u \in Urls, Finish(u)
         PROVE  TypeOK'
    BY <1>14 DEF Finish, TypeOK, Cache!TypeOK
  <1>15. CASE Tick
    <2>1. Cache!TypeOK'
      BY <1>15, TickKeeps DEF Tick, TypeOK
    <2>2. timer' \in [Urls -> 0..Timeout]
      BY <1>15, FlowAssumption DEF Tick, TypeOK
    <2>3. age' \in [Urls -> 0..Lifetime]
      BY <1>15, FlowAssumption DEF Tick, TypeOK
    <2>4. QED
      BY <1>15, <2>1, <2>2, <2>3 DEF Tick, TypeOK
  <1>16. CASE UNCHANGED vars
    BY <1>16 DEF vars, TypeOK, Cache!TypeOK
  <1>17. QED
    BY <1>1, <1>2, <1>3, <1>4, <1>5, <1>6, <1>7, <1>8, <1>9, <1>10, <1>11,
       <1>12, <1>13, <1>14, <1>15, <1>16 DEF Next, RequestStep, CallStep

\* An answer leaves the other URLs' entries alone, and its own entry too unless
\* it is stored, or the entry had expired.
LEMMA AnswerStores ==
  ASSUME TypeOK, NEW u \in Urls, NEW a \in Answers, Answer(u, a)
  PROVE  /\ \A w \in Urls \ {u} : cache'[w] # NoEntry => cache'[w] = cache[w]
         /\ \/ /\ Cacheable(a)
               /\ cache'[u] = [value |-> a, left |-> TTL]
               /\ age' = [age EXCEPT ![u] = Timeout - timer[u]]
            \/ /\ cache'[u] # NoEntry => cache'[u] = cache[u]
               /\ age' = age
  <1>1. CASE UNCHANGED <<cache, age>>
    BY <1>1
  <1>2. ASSUME NEW stored \in BOOLEAN, Cacheable(a), Cache!Set(u, a, stored),
               age' = [age EXCEPT ![u] = IF stored THEN Timeout - timer[u] ELSE @]
        PROVE  /\ \A w \in Urls \ {u} : cache'[w] # NoEntry => cache'[w] = cache[w]
               /\ \/ /\ cache'[u] = [value |-> a, left |-> TTL]
                     /\ age' = [age EXCEPT ![u] = Timeout - timer[u]]
                  \/ /\ cache'[u] # NoEntry => cache'[u] = cache[u]
                     /\ age' = age
    <2>1. /\ \A w \in Urls \ {u} : cache'[w] # NoEntry => cache'[w] = cache[w]
          /\ stored => cache'[u] = [value |-> a, left |-> TTL]
          /\ ~stored => cache'[u] = NoEntry
      <3>1. Cache!TypeOK
        BY DEF TypeOK
      <3> QED
        BY <1>2, <3>1, SetKeeps
    <2>2. CASE stored
      <3>1. age' = [age EXCEPT ![u] = Timeout - timer[u]]
        BY <1>2, <2>2
      <3> QED
        BY <2>1, <2>2, <3>1, Zenon
    <2>3. CASE ~stored
      <3>1. age' = [age EXCEPT ![u] = age[u]]
        BY <1>2, <2>3
      <3>2. age' = age
        BY <3>1 DEF TypeOK
      <3> QED
        BY <2>1, <2>3, <3>2, Zenon
    <2> QED
      BY <2>2, <2>3
  <1>3. QED
    BY <1>1, <1>2 DEF Answer

LEMMA ResultsApart == {"limited", None} \cap Results = {} /\ Answers \cap Errors = {}
  BY FlowAssumption DEF Results, Errors, AllAnswers, None

LEMMA StageStep == TypeOK /\ StageOK /\ [Next]_vars => StageOK'
  <1> SUFFICES ASSUME TypeOK, StageOK, [Next]_vars
               PROVE  StageOK'
    OBVIOUS
  <1> USE DEF reqVars, callVars
  <1>1. ASSUME NEW r \in Requests, NEW k \in Kinds, NEW u \in Urls, Arrive(r, k, u)
        PROVE  StageOK'
    BY <1>1 DEF Arrive, TypeOK, StageOK, Client, None
  <1>2. ASSUME NEW r \in Requests, Lookup(r)
        PROVE  StageOK'
    <2>1. CASE /\ pc' = [pc EXCEPT ![r] = IF Client(r) THEN "charge" ELSE "join"]
               /\ UNCHANGED reply
      BY <1>2, <2>1 DEF Lookup, TypeOK, StageOK, Client, Exempt
    <2>2. ASSUME NEW a \in Answers, Settle(r, a)
          PROVE  StageOK'
      BY <1>2, <2>2, ResultsApart DEF Lookup, Settle, TypeOK, StageOK, Client, Results
    <2>3. QED
      BY <1>2, <2>1, <2>2 DEF Lookup
  <1>3. ASSUME NEW r \in Requests, NEW allowed \in BOOLEAN, Charge(r, allowed)
        PROVE  StageOK'
    BY <1>3 DEF Charge, TypeOK, StageOK, Client, None
  <1>4. ASSUME NEW r \in Requests, Leave(r)
        PROVE  StageOK'
    BY <1>4, FlowAssumption DEF Leave, Settle, TypeOK, StageOK, Client, Errors
  <1>5. ASSUME NEW r \in Requests, Join(r)
        PROVE  StageOK'
    BY <1>5 DEF Join, TypeOK, StageOK, Client, None
  <1>6. ASSUME NEW r \in Requests, Receive(r)
        PROVE  StageOK'
    BY <1>6, ResultsApart DEF Receive, Settle, TypeOK, StageOK, Client
  <1>7. ASSUME NEW r \in Requests, Abandon(r)
        PROVE  StageOK'
    BY <1>7, FlowAssumption DEF Abandon, Settle, TypeOK, StageOK, Client, Errors
  <1>8. ASSUME NEW r \in Requests, NEW outcome \in {"answered"} \cup Errors, Direct(r, outcome)
        PROVE  StageOK'
    BY <1>8 DEF Direct, TypeOK, StageOK, Client, Errors
  <1>9. ASSUME NEW r \in Requests, Disconnect(r)
        PROVE  StageOK'
    BY <1>9 DEF Disconnect, TypeOK, StageOK, Client, None
  <1>10. ASSUME NEW u \in Urls, Recheck(u)
        PROVE  StageOK'
    BY <1>10 DEF Recheck, TypeOK, StageOK, Client, None
  <1>11. ASSUME NEW u \in Urls, NEW a \in Answers, Answer(u, a)
        PROVE  StageOK'
    BY <1>11 DEF Answer, TypeOK, StageOK, Client, None
  <1>12. ASSUME NEW u \in Urls, NEW err \in Errors, Fail(u, err)
        PROVE  StageOK'
    BY <1>12 DEF Fail, TypeOK, StageOK, Client, None
  <1>13. ASSUME NEW u \in Urls, TimeOut(u)
        PROVE  StageOK'
    BY <1>13 DEF TimeOut, TypeOK, StageOK, Client, None
  <1>14. ASSUME NEW u \in Urls, Finish(u)
        PROVE  StageOK'
    BY <1>14 DEF Finish, TypeOK, StageOK, Client, None
  <1>15. CASE Tick
    BY <1>15 DEF Tick, StageOK, Client
  <1>16. CASE UNCHANGED vars
    BY <1>16 DEF vars, StageOK, Client
  <1>17. QED
    BY <1>1, <1>2, <1>3, <1>4, <1>5, <1>6, <1>7, <1>8, <1>9, <1>10, <1>11,
       <1>12, <1>13, <1>14, <1>15, <1>16 DEF Next, RequestStep, CallStep

\* Every variable stays in its type; in particular no request is charged twice.
THEOREM TypeCorrect == Spec => []TypeOK
  BY TypeInit, TypeStep, StageStep, PTL DEF Spec

\* Nobody waits for or makes an upstream call uncharged unless exempt, and
\* nobody pays for a refusal: the charge precedes every way to an upstream
\* call and the two orders of charge and cache lookup both lead through it.
THEOREM ChargedOnceCorrect == Spec => []ChargedOnce
  <1>1. StageOK => ChargedOnce
    BY DEF StageOK, ChargedOnce
  <1>2. QED
    BY <1>1, TypeInit, TypeStep, StageStep, PTL DEF Spec

-----------------------------------------------------------------------------
(* One fetch per token lifetime.                                           *)

LEMMA FetchStep == TypeOK /\ NoRedundantFetch /\ [Next]_vars => NoRedundantFetch'
  <1> SUFFICES ASSUME TypeOK, NoRedundantFetch, [Next]_vars
               PROVE  NoRedundantFetch'
    OBVIOUS
  <1> USE DEF reqVars, callVars
  <1>1. ASSUME NEW r \in Requests, NEW k \in Kinds, NEW u \in Urls, Arrive(r, k, u)
        PROVE  NoRedundantFetch'
    BY <1>1 DEF Arrive, TypeOK, NoRedundantFetch, Live, Return, None
  <1>2. ASSUME NEW r \in Requests, Lookup(r)
        PROVE  NoRedundantFetch'
    <2>1. \A u \in Urls : cache'[u] # NoEntry => cache'[u] = cache[u]
      BY <1>2, GetKeeps DEF Lookup, TypeOK
    <2>2. QED
      BY <1>2, <2>1 DEF Lookup, NoRedundantFetch, Live, Cache!Unexpired
  <1>3. ASSUME NEW r \in Requests, NEW allowed \in BOOLEAN, Charge(r, allowed)
        PROVE  NoRedundantFetch'
    BY <1>3 DEF Charge, TypeOK, NoRedundantFetch, Live, Return, None
  <1>4. ASSUME NEW r \in Requests, Leave(r)
        PROVE  NoRedundantFetch'
    BY <1>4 DEF Leave, TypeOK, NoRedundantFetch, Live, Return, None
  <1>5. ASSUME NEW r \in Requests, Join(r)
        PROVE  NoRedundantFetch'
    BY <1>5 DEF Join, TypeOK, NoRedundantFetch, Live, Return, None
  <1>6. ASSUME NEW r \in Requests, Receive(r)
        PROVE  NoRedundantFetch'
    BY <1>6 DEF Receive, TypeOK, NoRedundantFetch, Live, Return, None
  <1>7. ASSUME NEW r \in Requests, Abandon(r)
        PROVE  NoRedundantFetch'
    BY <1>7 DEF Abandon, TypeOK, NoRedundantFetch, Live, Return, None
  <1>8. ASSUME NEW r \in Requests, NEW outcome \in {"answered"} \cup Errors, Direct(r, outcome)
        PROVE  NoRedundantFetch'
    BY <1>8 DEF Direct, TypeOK, NoRedundantFetch, Live, Return, None
  <1>9. ASSUME NEW r \in Requests, Disconnect(r)
        PROVE  NoRedundantFetch'
    BY <1>9 DEF Disconnect, TypeOK, NoRedundantFetch, Live, Return, None
  <1>10. ASSUME NEW u \in Urls, Recheck(u)
        PROVE  NoRedundantFetch'
    <2>1. PICK a \in Answers \cup {NoEntry} :
            /\ Cache!Get(u, a)
            /\ \/ a # NoEntry /\ Return(u, a)
               \/ a = NoEntry /\ phase' = [phase EXCEPT ![u] = "fetch"]
      BY <1>10 DEF Recheck
    <2>2. /\ \A w \in Urls : cache'[w] # NoEntry => cache'[w] = cache[w]
          /\ a = NoEntry => ~Live(u)'
      BY <2>1, GetKeeps DEF TypeOK
    <2>3. \A w \in Urls : Live(w)' => Live(w)
      BY <2>2 DEF Live, Cache!Unexpired
    <2>4. \A w \in Urls : phase'[w] = "fetch" => phase[w] = "fetch" \/ (w = u /\ a = NoEntry)
      BY <2>1 DEF Return, TypeOK
    <2>5. QED
      BY <2>2, <2>3, <2>4 DEF NoRedundantFetch
  <1>11. ASSUME NEW u \in Urls, NEW a \in Answers, Answer(u, a)
        PROVE  NoRedundantFetch'
    <2>1. /\ \A w \in Urls : phase'[w] = "fetch" => w # u /\ phase[w] = "fetch"
      BY <1>11 DEF Answer, Return, TypeOK
    <2>2. \A w \in Urls \ {u} : cache'[w] # NoEntry => cache'[w] = cache[w]
      BY <1>11, AnswerStores
    <2>3. QED
      BY <2>1, <2>2 DEF NoRedundantFetch, Live, Cache!Unexpired
  <1>12. ASSUME NEW u \in Urls, NEW err \in Errors, Fail(u, err)
        PROVE  NoRedundantFetch'
    BY <1>12 DEF Fail, TypeOK, NoRedundantFetch, Live, Return, None
  <1>13. ASSUME NEW u \in Urls, TimeOut(u)
        PROVE  NoRedundantFetch'
    BY <1>13 DEF TimeOut, TypeOK, NoRedundantFetch, Live, Return, None
  <1>14. ASSUME NEW u \in Urls, Finish(u)
        PROVE  NoRedundantFetch'
    BY <1>14 DEF Finish, TypeOK, NoRedundantFetch, Live, Return, None
  <1>15. CASE Tick
    <2>1. \A u \in Urls : Live(u)' => Live(u)
      BY <1>15, TickKeeps DEF Tick, TypeOK
    <2>2. QED
      BY <1>15, <2>1 DEF Tick, NoRedundantFetch
  <1>16. CASE UNCHANGED vars
    BY <1>16 DEF vars, TypeOK, NoRedundantFetch, Live, Return, None
  <1>17. QED
    BY <1>1, <1>2, <1>3, <1>4, <1>5, <1>6, <1>7, <1>8, <1>9, <1>10, <1>11,
       <1>12, <1>13, <1>14, <1>15, <1>16 DEF Next, RequestStep, CallStep

\* Whatever the number of requests, no fetch is sent for a URL that has a live
\* answer: only the call of a URL stores its answers, and it looks before it
\* fetches, so a live entry cannot appear under a fetch.
THEOREM NoRedundantFetchCorrect == Spec => []NoRedundantFetch
  <1>1. Init => NoRedundantFetch
    BY DEF Init, NoRedundantFetch, None
  <1>2. QED
    BY <1>1, TypeInit, TypeStep, StageStep, FetchStep, PTL DEF Spec

-----------------------------------------------------------------------------
(* Nobody is left waiting for a result that will not come.                 *)

\* A result is sent only by a call that has one, and only to those who listen.
InboxOK ==
  /\ \A r \in Requests : pc[r] # "wait" => inbox[r] = None
  /\ \A u \in Urls : phase[u] = "finish" => result[u] # None

LEMMA InboxStep == TypeOK /\ NoStranded /\ InboxOK /\ [Next]_vars => NoStranded' /\ InboxOK'
  <1> SUFFICES ASSUME TypeOK, NoStranded, InboxOK, [Next]_vars
               PROVE  NoStranded' /\ InboxOK'
    OBVIOUS
  <1> USE DEF reqVars, callVars
  <1>1. ASSUME NEW r \in Requests, NEW k \in Kinds, NEW u \in Urls, Arrive(r, k, u)
        PROVE  NoStranded' /\ InboxOK'
    BY <1>1 DEF Arrive, TypeOK, NoStranded, InboxOK, Settle, None
  <1>2. ASSUME NEW r \in Requests, Lookup(r)
        PROVE  NoStranded' /\ InboxOK'
    BY <1>2 DEF Lookup, TypeOK, NoStranded, InboxOK, Settle
  <1>3. ASSUME NEW r \in Requests, NEW allowed \in BOOLEAN, Charge(r, allowed)
        PROVE  NoStranded' /\ InboxOK'
    BY <1>3 DEF Charge, TypeOK, NoStranded, InboxOK, Settle, None
  <1>4. ASSUME NEW r \in Requests, Leave(r)
        PROVE  NoStranded' /\ InboxOK'
    BY <1>4 DEF Leave, TypeOK, NoStranded, InboxOK, Settle, None
  <1>5. ASSUME NEW r \in Requests, Join(r)
        PROVE  NoStranded' /\ InboxOK'
    BY <1>5 DEF Join, TypeOK, NoStranded, InboxOK, Settle, None
  <1>6. ASSUME NEW r \in Requests, Receive(r)
        PROVE  NoStranded' /\ InboxOK'
    BY <1>6 DEF Receive, TypeOK, NoStranded, InboxOK, Settle, None
  <1>7. ASSUME NEW r \in Requests, Abandon(r)
        PROVE  NoStranded' /\ InboxOK'
    BY <1>7 DEF Abandon, TypeOK, NoStranded, InboxOK, Settle, None
  <1>8. ASSUME NEW r \in Requests, NEW outcome \in {"answered"} \cup Errors, Direct(r, outcome)
        PROVE  NoStranded' /\ InboxOK'
    BY <1>8 DEF Direct, TypeOK, NoStranded, InboxOK, Settle, None
  <1>9. ASSUME NEW r \in Requests, Disconnect(r)
        PROVE  NoStranded' /\ InboxOK'
    BY <1>9 DEF Disconnect, TypeOK, NoStranded, InboxOK, Settle, None
  <1>10. ASSUME NEW u \in Urls, Recheck(u)
        PROVE  NoStranded' /\ InboxOK'
    <2>1. PICK a \in Answers \cup {NoEntry} :
            \/ a # NoEntry /\ Return(u, a)
            \/ /\ phase' = [phase EXCEPT ![u] = "fetch"]
               /\ UNCHANGED result
      BY <1>10 DEF Recheck
    <2>2. CASE a # NoEntry /\ Return(u, a)
      BY <1>10, <2>2, ResultsApart DEF Recheck, Return, TypeOK, NoStranded, InboxOK, Results, None
    <2>3. CASE phase' = [phase EXCEPT ![u] = "fetch"] /\ UNCHANGED result
      BY <1>10, <2>3 DEF Recheck, TypeOK, NoStranded, InboxOK, None
    <2>4. QED
      BY <2>1, <2>2, <2>3
  <1>11. ASSUME NEW u \in Urls, NEW a \in Answers, Answer(u, a)
        PROVE  NoStranded' /\ InboxOK'
    BY <1>11, ResultsApart DEF Answer, Return, TypeOK, NoStranded, InboxOK, Results, None
  <1>12. ASSUME NEW u \in Urls, NEW err \in Errors, Fail(u, err)
        PROVE  NoStranded' /\ InboxOK'
    BY <1>12, ResultsApart DEF Fail, Return, TypeOK, NoStranded, InboxOK, Results, None
  <1>13. ASSUME NEW u \in Urls, TimeOut(u)
        PROVE  NoStranded' /\ InboxOK'
    BY <1>13 DEF TimeOut, Return, TypeOK, NoStranded, InboxOK, None
  <1>14. ASSUME NEW u \in Urls, Finish(u)
        PROVE  NoStranded' /\ InboxOK'
    BY <1>14 DEF Finish, TypeOK, NoStranded, InboxOK, Settle, None
  <1>15. CASE Tick
    BY <1>15 DEF Tick, TypeOK, NoStranded, InboxOK, Settle, None
  <1>16. CASE UNCHANGED vars
    BY <1>16 DEF vars, TypeOK, NoStranded, InboxOK, Settle, None
  <1>17. QED
    BY <1>1, <1>2, <1>3, <1>4, <1>5, <1>6, <1>7, <1>8, <1>9, <1>10, <1>11,
       <1>12, <1>13, <1>14, <1>15, <1>16 DEF Next, RequestStep, CallStep

\* For any number of requests that join and abandon calls in any order, each
\* waiting request has a result or a running call that will send it one.
THEOREM NoStrandedCorrect == Spec => []NoStranded
  <1>1. Init => NoStranded /\ InboxOK
    BY DEF Init, NoStranded, InboxOK, None
  <1>2. QED
    BY <1>1, TypeInit, TypeStep, StageStep, InboxStep, PTL DEF Spec

-----------------------------------------------------------------------------
(* A disconnect reaches nobody else.                                       *)

Uncanceled ==
  /\ \A u \in Urls : ctx[u] = Background /\ result[u] # "canceled"
  /\ \A r \in Requests : inbox[r] # "canceled"

LEMMA CanceledStep ==
  TypeOK /\ CanceledOnlySelf /\ Uncanceled /\ [Next]_vars => CanceledOnlySelf' /\ Uncanceled'
  <1> SUFFICES ASSUME TypeOK, CanceledOnlySelf, Uncanceled, [Next]_vars
               PROVE  CanceledOnlySelf' /\ Uncanceled'
    OBVIOUS
  <1> USE DEF reqVars, callVars
  <1>1. ASSUME NEW r \in Requests, NEW k \in Kinds, NEW u \in Urls, Arrive(r, k, u)
        PROVE  CanceledOnlySelf' /\ Uncanceled'
    BY <1>1 DEF Arrive, TypeOK, CanceledOnlySelf, Uncanceled, Settle, FetchCtx, None
  <1>2. ASSUME NEW r \in Requests, Lookup(r)
        PROVE  CanceledOnlySelf' /\ Uncanceled'
    <2>1. ASSUME NEW a \in Answers, Settle(r, a)
          PROVE  CanceledOnlySelf'
      BY <1>2, <2>1, ResultsApart DEF Lookup, Settle, TypeOK, CanceledOnlySelf, Errors
    <2>2. ASSUME UNCHANGED reply
          PROVE  CanceledOnlySelf'
      BY <1>2, <2>2 DEF Lookup, CanceledOnlySelf
    <2>3. Uncanceled'
      BY <1>2 DEF Lookup, Uncanceled
    <2>4. \/ \E a \in Answers : Settle(r, a)
          \/ UNCHANGED reply
      BY <1>2 DEF Lookup
    <2>5. QED
      BY <2>1, <2>2, <2>3, <2>4
  <1>3. ASSUME NEW r \in Requests, NEW allowed \in BOOLEAN, Charge(r, allowed)
        PROVE  CanceledOnlySelf' /\ Uncanceled'
    BY <1>3 DEF Charge, TypeOK, CanceledOnlySelf, Uncanceled, Settle, FetchCtx, None
  <1>4. ASSUME NEW r \in Requests, Leave(r)
        PROVE  CanceledOnlySelf' /\ Uncanceled'
    BY <1>4 DEF Leave, TypeOK, CanceledOnlySelf, Uncanceled, Settle, FetchCtx, None
  <1>5. ASSUME NEW r \in Requests, Join(r)
        PROVE  CanceledOnlySelf' /\ Uncanceled'
    BY <1>5 DEF Join, TypeOK, CanceledOnlySelf, Uncanceled, Settle, FetchCtx, None
  <1>6. ASSUME NEW r \in Requests, Receive(r)
        PROVE  CanceledOnlySelf' /\ Uncanceled'
    BY <1>6 DEF Receive, TypeOK, CanceledOnlySelf, Uncanceled, Settle, FetchCtx, None
  <1>7. ASSUME NEW r \in Requests, Abandon(r)
        PROVE  CanceledOnlySelf' /\ Uncanceled'
    BY <1>7 DEF Abandon, TypeOK, CanceledOnlySelf, Uncanceled, Settle, FetchCtx, None
  <1>8. ASSUME NEW r \in Requests, NEW outcome \in {"answered"} \cup Errors, Direct(r, outcome)
        PROVE  CanceledOnlySelf' /\ Uncanceled'
    BY <1>8 DEF Direct, TypeOK, CanceledOnlySelf, Uncanceled, Settle, FetchCtx, None
  <1>9. ASSUME NEW r \in Requests, Disconnect(r)
        PROVE  CanceledOnlySelf' /\ Uncanceled'
    BY <1>9 DEF Disconnect, TypeOK, CanceledOnlySelf, Uncanceled, Settle, FetchCtx, None
  <1>10. ASSUME NEW u \in Urls, Recheck(u)
        PROVE  CanceledOnlySelf' /\ Uncanceled'
    <2>1. PICK a \in Answers \cup {NoEntry} :
            \/ a # NoEntry /\ Return(u, a)
            \/ UNCHANGED result
      BY <1>10 DEF Recheck
    <2>2. \A w \in Urls : result'[w] # "canceled"
      BY <2>1, ResultsApart DEF Return, TypeOK, Uncanceled, Errors
    <2>3. QED
      BY <1>10, <2>2 DEF Recheck, CanceledOnlySelf, Uncanceled
  <1>11. ASSUME NEW u \in Urls, NEW a \in Answers, Answer(u, a)
        PROVE  CanceledOnlySelf' /\ Uncanceled'
    BY <1>11, ResultsApart DEF Answer, Return, TypeOK, CanceledOnlySelf, Uncanceled, Errors
  <1>12. ASSUME NEW u \in Urls, NEW err \in Errors, Fail(u, err)
        PROVE  CanceledOnlySelf' /\ Uncanceled'
    BY <1>12 DEF Fail, FetchErrors, Return, TypeOK, CanceledOnlySelf, Uncanceled
  <1>13. ASSUME NEW u \in Urls, TimeOut(u)
        PROVE  CanceledOnlySelf' /\ Uncanceled'
    BY <1>13 DEF TimeOut, Return, TypeOK, CanceledOnlySelf, Uncanceled
  <1>14. ASSUME NEW u \in Urls, Finish(u)
        PROVE  CanceledOnlySelf' /\ Uncanceled'
    BY <1>14 DEF Finish, TypeOK, CanceledOnlySelf, Uncanceled, Settle, FetchCtx, None
  <1>15. CASE Tick
    BY <1>15 DEF Tick, TypeOK, CanceledOnlySelf, Uncanceled, Settle, FetchCtx, None
  <1>16. CASE UNCHANGED vars
    BY <1>16 DEF vars, TypeOK, CanceledOnlySelf, Uncanceled, Settle, FetchCtx, None
  <1>17. QED
    BY <1>1, <1>2, <1>3, <1>4, <1>5, <1>6, <1>7, <1>8, <1>9, <1>10, <1>11,
       <1>12, <1>13, <1>14, <1>15, <1>16 DEF Next, RequestStep, CallStep

\* No client's disconnect is reported to another, whoever led the shared
\* fetch: a call's context is never a request's, so "canceled" never enters
\* the result of a call or a channel.
THEOREM CanceledOnlySelfCorrect == Spec => []CanceledOnlySelf
  <1>1. Init => CanceledOnlySelf /\ Uncanceled
    BY DEF Init, CanceledOnlySelf, Uncanceled, None
  <1>2. QED
    BY <1>1, TypeInit, TypeStep, StageStep, CanceledStep, PTL DEF Spec

-----------------------------------------------------------------------------
(* What the cache hands out is young enough and can be decoded.            *)

\* An entry's time left and its answer's age add up to a constant at most.
AgeOK == \A u \in Urls : Live(u) => age[u] + cache[u].left <= TTL + Timeout

LEMMA CacheSame ==
  ASSUME AgeOK, CachedUsable, UNCHANGED <<cache, age>>
  PROVE  AgeOK' /\ CachedUsable'
  BY DEF AgeOK, CachedUsable, Live, Cache!Unexpired

LEMMA CacheShrinks ==
  ASSUME AgeOK, CachedUsable, UNCHANGED age,
         \A w \in Urls : cache'[w] # NoEntry => cache'[w] = cache[w]
  PROVE  AgeOK' /\ CachedUsable'
  BY DEF AgeOK, CachedUsable, Live, Cache!Unexpired

LEMMA CacheStep == TypeOK /\ AgeOK /\ CachedUsable /\ [Next]_vars => AgeOK' /\ CachedUsable'
  <1> SUFFICES ASSUME TypeOK, AgeOK, CachedUsable, [Next]_vars
               PROVE  AgeOK' /\ CachedUsable'
    OBVIOUS
  <1> USE DEF reqVars, callVars
  <1>1. ASSUME NEW r \in Requests, NEW k \in Kinds, NEW u \in Urls, Arrive(r, k, u)
        PROVE  AgeOK' /\ CachedUsable'
    BY <1>1, CacheSame DEF Arrive
  <1>2. ASSUME NEW r \in Requests, Lookup(r)
        PROVE  AgeOK' /\ CachedUsable'
    <2>1. \A u \in Urls : cache'[u] # NoEntry => cache'[u] = cache[u]
      BY <1>2, GetKeeps DEF Lookup, TypeOK
    <2>2. QED
      BY <1>2, <2>1, CacheShrinks DEF Lookup
  <1>3. ASSUME NEW r \in Requests, NEW allowed \in BOOLEAN, Charge(r, allowed)
        PROVE  AgeOK' /\ CachedUsable'
    BY <1>3, CacheSame DEF Charge
  <1>4. ASSUME NEW r \in Requests, Leave(r)
        PROVE  AgeOK' /\ CachedUsable'
    BY <1>4, CacheSame DEF Leave
  <1>5. ASSUME NEW r \in Requests, Join(r)
        PROVE  AgeOK' /\ CachedUsable'
    BY <1>5, CacheSame DEF Join
  <1>6. ASSUME NEW r \in Requests, Receive(r)
        PROVE  AgeOK' /\ CachedUsable'
    BY <1>6, CacheSame DEF Receive
  <1>7. ASSUME NEW r \in Requests, Abandon(r)
        PROVE  AgeOK' /\ CachedUsable'
    BY <1>7, CacheSame DEF Abandon
  <1>8. ASSUME NEW r \in Requests, NEW outcome \in {"answered"} \cup Errors, Direct(r, outcome)
        PROVE  AgeOK' /\ CachedUsable'
    BY <1>8, CacheSame DEF Direct
  <1>9. ASSUME NEW r \in Requests, Disconnect(r)
        PROVE  AgeOK' /\ CachedUsable'
    BY <1>9, CacheSame DEF Disconnect
  <1>10. ASSUME NEW u \in Urls, Recheck(u)
        PROVE  AgeOK' /\ CachedUsable'
    <2>1. \A w \in Urls : cache'[w] # NoEntry => cache'[w] = cache[w]
      BY <1>10, GetKeeps DEF Recheck, TypeOK
    <2>2. QED
      BY <1>10, <2>1, CacheShrinks DEF Recheck
  <1>11. ASSUME NEW u \in Urls, NEW a \in Answers, Answer(u, a)
        PROVE  AgeOK' /\ CachedUsable'
    <2>1. CASE /\ cache'[u] # NoEntry => cache'[u] = cache[u]
               /\ age' = age
      BY <1>11, <2>1, AnswerStores, CacheShrinks
    <2>2. CASE /\ Cacheable(a)
               /\ cache'[u] = [value |-> a, left |-> TTL]
               /\ age' = [age EXCEPT ![u] = Timeout - timer[u]]
      <3>1. age'[u] + cache'[u].left <= TTL + Timeout
        BY <2>2, FlowAssumption DEF TypeOK
      <3>2. \A w \in Urls \ {u} : /\ cache'[w] # NoEntry => cache'[w] = cache[w]
                                  /\ age'[w] = age[w]
        BY <1>11, <2>2, AnswerStores DEF TypeOK
      <3>3. Usable(cache'[u].value)
        BY <2>2 DEF Cacheable, Usable
      <3>4. QED
        BY <3>1, <3>2, <3>3 DEF AgeOK, CachedUsable, Live, Cache!Unexpired
    <2>3. QED
      BY <1>11, <2>1, <2>2, AnswerStores
  <1>12. ASSUME NEW u \in Urls, NEW err \in Errors, Fail(u, err)
        PROVE  AgeOK' /\ CachedUsable'
    BY <1>12, CacheSame DEF Fail
  <1>13. ASSUME NEW u \in Urls, TimeOut(u)
        PROVE  AgeOK' /\ CachedUsable'
    BY <1>13, CacheSame DEF TimeOut
  <1>14. ASSUME NEW u \in Urls, Finish(u)
        PROVE  AgeOK' /\ CachedUsable'
    BY <1>14, CacheSame DEF Finish
  <1>15. CASE Tick
    <2>1. ASSUME NEW u \in Urls, Live(u)'
          PROVE  age'[u] + cache'[u].left <= TTL + Timeout
      <3>1. Live(u) /\ cache'[u].left = cache[u].left - 1
        BY <1>15, <2>1, TickKeeps DEF Tick, TypeOK
      <3>2. cache[u].left \in 0..TTL
        BY <3>1, LiveStored DEF Live, Cache!Unexpired, TypeOK
      <3>3. age[u] \in 0..Lifetime /\ age'[u] <= age[u] + 1 /\ age'[u] \in Nat
        BY <1>15, FlowAssumption DEF Tick, TypeOK
      <3>4. age[u] + cache[u].left <= TTL + Timeout
        BY <3>1 DEF AgeOK
      <3>5. QED
        BY <3>1, <3>2, <3>3, <3>4, FlowAssumption
    <2>2. CachedUsable'
      BY <1>15, TickKeeps DEF Tick, TypeOK, CachedUsable
    <2>3. QED
      BY <2>1, <2>2 DEF AgeOK
  <1>16. CASE UNCHANGED vars
    BY <1>16, CacheSame DEF vars
  <1>17. QED
    BY <1>1, <1>2, <1>3, <1>4, <1>5, <1>6, <1>7, <1>8, <1>9, <1>10, <1>11,
       <1>12, <1>13, <1>14, <1>15, <1>16 DEF Next, RequestStep, CallStep

LEMMA CacheInit == Init => AgeOK /\ CachedUsable
  BY DEF Init, Cache!Init, AgeOK, CachedUsable, Live, Cache!Unexpired

\* If a TTL and a client timeout fit in the lifetime of a token, a token from
\* the cache has not reached the end of its life.  The TTL is not renewed by
\* hits and the fetch was sent at most a timeout before the store.
THEOREM ServedFreshCorrect == Spec => []ServedFresh
  <1>1. TypeOK /\ AgeOK => ServedFresh
    <2> SUFFICES ASSUME TypeOK, AgeOK, NEW u \in Urls, Live(u)
                 PROVE  age[u] < Lifetime
      BY DEF ServedFresh
    <2>1. cache[u].left \in 0..TTL /\ cache[u].left > 0
      BY LiveStored DEF Live, Cache!Unexpired, TypeOK
    <2>2. age[u] \in 0..Lifetime /\ age[u] + cache[u].left <= TTL + Timeout
      BY DEF AgeOK, TypeOK
    <2>3. QED
      BY <2>1, <2>2, FlowAssumption
  <1>2. QED
    BY <1>1, CacheInit, CacheStep, TypeInit, TypeStep, StageStep, PTL DEF Spec

\* Every cached answer decodes, so no cached answer makes a request fail.
THEOREM CachedUsableCorrect == Spec => []CachedUsable
  BY CacheInit, CacheStep, TypeInit, TypeStep, StageStep, PTL DEF Spec

\* All that requests and calls do to the token cache are calls of its methods
\* and the passing of time, so what is proved of ResponseCache, its promise
\* included, holds of it here.
THEOREM UsesResponseCache == Spec => Cache!Spec
  <1>1. Init => Cache!Init
    BY DEF Init
  <1>2. TypeOK /\ [Next]_vars => [Cache!Next]_cache
    <2> SUFFICES ASSUME TypeOK, [Next]_vars, ~UNCHANGED cache PROVE Cache!Next
      OBVIOUS
    <2>1. ASSUME NEW r \in Requests, Lookup(r) PROVE Cache!Next
      BY <2>1 DEF Lookup, Cache!Next, TypeOK
    <2>2. ASSUME NEW u \in Urls, Recheck(u) PROVE Cache!Next
      BY <2>2 DEF Recheck, Cache!Next
    <2>3. ASSUME NEW u \in Urls, NEW a \in Answers, Answer(u, a) PROVE Cache!Next
      BY <2>3 DEF Answer, Cache!Next
    <2>4. CASE Tick
      BY <2>4 DEF Tick, Cache!Next
    <2>5. QED
      BY <2>1, <2>2, <2>3, <2>4
         DEF Next, RequestStep, CallStep, vars, Arrive, Charge, Leave, Join, Receive, Abandon,
             Direct, Disconnect, Fail, TimeOut, Finish
  <1>3. QED
    BY <1>1, <1>2, TypeCorrect, PTL DEF Spec, Cache!Spec
=============================================================================
