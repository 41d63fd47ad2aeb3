--------------------------- MODULE LifecycleProofs ---------------------------
(***************************************************************************)
(* Theorems about Lifecycle, for any connections, files and deadlines.     *)
(***************************************************************************)
EXTENDS Lifecycle, TLAPS

\* Shutdown closes connections only once it runs, and none with a request that
\* was being handled then.
Kept ==
  /\ stage \in {"loading", "serving"} => \A c \in Conns : conn[c] # "closed"
  /\ \A c \in owed : conn[c] = "active"

\* Each file read so far was usable, and made one override.
Loaded ==
  /\ Len(overrides) = Len(read)
  /\ \A i \in 1..Len(read) : Usable(read[i]) /\ overrides[i] = Override(read[i])

Configured ==
  /\ overrides \in Seq({Override(f) : f \in Files})
  /\ ~flagSet => wanted = 1
  /\ stage = "loading" => Loaded
  /\ stage \notin {"loading", "failed"} =>
       \/ read = <<Missing>> /\ ~flagSet /\ overrides = <<>>
       \/ Loaded /\ Len(read) = wanted

IInv == TypeOK /\ Kept /\ CleanExit /\ Configured

-----------------------------------------------------------------------------
(* The configuration.                                                      *)

\* LoadFile adds an override for a usable file, and leaves none otherwise.
LEMMA LoadFileConfigures ==
  ASSUME TypeOK, Configured, NEW f \in Files, LoadFile(f)
  PROVE  /\ Configured'
         /\ read' \in Seq(Files) /\ Len(read') <= wanted'
<1> DEFINE Overrides == {Override(g) : g \in Files}
<1>1. stage = "loading" /\ Len(read) < wanted /\ wanted \in Nat /\ Loaded
  BY LifecycleAssumption DEF LoadFile, Configured, TypeOK
<1>2. /\ read \in Seq(Files) /\ overrides \in Seq(Overrides)
      /\ read' = Append(read, f) /\ wanted' = wanted /\ flagSet' = flagSet
  BY DEF LoadFile, Configured, TypeOK
<1>3. Override(f) \in Overrides
  OBVIOUS
<1>4. /\ read' \in Seq(Files) /\ Len(read') = Len(read) + 1 /\ read'[Len(read) + 1] = f
      /\ \A i \in 1..Len(read) : read'[i] = read[i]
      /\ Len(read) \in Nat
  BY <1>2
<1> HIDE DEF Overrides
<1>5. CASE Usable(f) /\ overrides' = Append(overrides, Override(f)) /\ stage' = stage
  <2>1. /\ overrides' \in Seq(Overrides) /\ Len(overrides') = Len(overrides) + 1
        /\ overrides'[Len(overrides) + 1] = Override(f)
        /\ \A i \in 1..Len(overrides) : overrides'[i] = overrides[i]
    BY <1>2, <1>3, <1>5
  <2>2. Len(overrides') = Len(read')
    BY <2>1, <1>1, <1>4 DEF Loaded
  <2>3. \A i \in 1..Len(read') : Usable(read'[i]) /\ overrides'[i] = Override(read'[i])
    <3> TAKE i \in 1..Len(read')
    <3>1. CASE i \in 1..Len(read)
      BY <3>1, <2>1, <1>1, <1>4 DEF Loaded
    <3>2. CASE i = Len(read) + 1
      BY <3>2, <2>1, <1>1, <1>4, <1>5 DEF Loaded
    <3> QED
      BY <3>1, <3>2, <1>4
  <2> QED
    BY <2>1, <2>2, <2>3, <1>1, <1>2, <1>4, <1>5 DEF Configured, Loaded, Overrides
<1>6. CASE f = Missing /\ ~flagSet /\ overrides' = <<>> /\ stage' = "serving"
  <2>1. read = <<>>
    BY <1>1, <1>2, <1>4, <1>6 DEF Configured
  <2>2. read' = <<Missing>>
    BY <2>1, <1>2, <1>6
  <2> QED
    BY <2>2, <1>1, <1>2, <1>4, <1>6 DEF Configured
<1>7. CASE overrides' = <<>> /\ stage' = "failed"
  BY <1>1, <1>2, <1>4, <1>7 DEF Configured
<1> QED
  BY <1>5, <1>6, <1>7 DEF LoadFile

\* A host is in the ranges of an override as far as its file covers it.
LEMMA PrefixesCover ==
  ASSUME NEW f \in Files, Usable(f), NEW a \in Addresses \ {Unparsable}
  PROVE  Unmap(a) \in Compiled(Override(f)).ips <=> Covers(f, a.host)
<1>1. Compiled(Override(f)).ips = UNION {ParseIPPrefix(f.ranges[i]) : i \in DOMAIN f.ranges}
  BY DEF Compiled, Override
<1>2. ASSUME NEW i \in DOMAIN f.ranges
      PROVE  Unmap(a) \in ParseIPPrefix(f.ranges[i])
               <=> a.host \in f.ranges[i].hosts /\ ~(f.ranges[i].cidr /\ f.ranges[i].mapped)
  <2> DEFINE range == f.ranges[i]
  <2>1. range.cidr \in BOOLEAN /\ range.mapped \in BOOLEAN
    BY RangesAssumption DEF Usable, Valid
  <2>2. ASSUME NEW m, NEW h
        PROVE  [host |-> a.host, mapped |-> FALSE] = [host |-> h, mapped |-> m]
                 <=> a.host = h /\ m = FALSE
    OBVIOUS
  <2>3. ASSUME NEW m
        PROVE  Unmap(a) \in {[host |-> h, mapped |-> m] : h \in range.hosts}
                 <=> a.host \in range.hosts /\ m = FALSE
    BY <2>2, Zenon DEF Unmap
  <2>4. CASE range.cidr
    <3>1. ParseIPPrefix(range) = {[host |-> h, mapped |-> range.mapped] : h \in range.hosts}
      BY <2>4 DEF ParseIPPrefix
    <3> QED
      BY <3>1, <2>1, <2>3, <2>4
  <2>5. CASE ~range.cidr
    <3>1. ParseIPPrefix(range)
            = {[host |-> h, mapped |-> FALSE] : h \in range.hosts}
      BY <2>5 DEF ParseIPPrefix, Unmap
    <3> QED
      BY <3>1, <2>3, <2>5
  <2> QED
    BY <2>1, <2>4, <2>5
<1> QED
  BY <1>1, <1>2 DEF Covers

\* The first override that has an address is the one that counts.
LEMMA FirstCounts ==
  ASSUME NEW i \in DOMAIN overrides, DOMAIN overrides \subseteq Nat,
         NEW a, a # Unparsable, Unmap(a) \in Compiled(overrides[i]).ips,
         \A j \in DOMAIN overrides : j < i => Unmap(a) \notin Compiled(overrides[j]).ips
  PROVE  RateLimitForIP(overrides, a, Default)
           = [rate |-> overrides[i].rate, burst |-> overrides[i].burst]
<1> DEFINE hits == {j \in DOMAIN overrides : Unmap(a) \in Compiled(overrides[j]).ips}
           first == CHOOSE j \in hits : \A k \in hits : j <= k
<1>1. i \in hits /\ \A k \in hits : i <= k
  OBVIOUS
<1>2. first \in hits /\ \A k \in hits : first <= k
  BY <1>1
<1>3. first = i
  BY <1>1, <1>2
<1>4. RateLimitForIP(overrides, a, Default)
        = IF hits = {} THEN Default
          ELSE [rate |-> overrides[first].rate, burst |-> overrides[first].burst]
  BY DEF RateLimitForIP
<1> HIDE DEF hits, first
<1> QED
  BY <1>1, <1>3, <1>4

-----------------------------------------------------------------------------
(* The steps.                                                              *)

LEMMA Constants ==
  /\ MaxCalls \in Nat /\ UpstreamTimeout \in Nat /\ ShutdownTimeout \in Nat
  /\ NewGrace \in Nat /\ MaxFiles \in Nat \ {0}
  BY LifecycleAssumption

LEMMA InitKeeps == Init => IInv
<1> SUFFICES ASSUME Init PROVE IInv
  OBVIOUS
<1>1. read \in Seq(Files) /\ overrides \in Seq({Override(f) : f \in Files})
      /\ Len(read) = 0 /\ Len(overrides) = 0
  BY DEF Init
<1>2. wanted \in 0..MaxFiles /\ flagSet \in BOOLEAN /\ (~flagSet => wanted = 1)
  BY Constants DEF Init
<1>3. TypeOK
  BY <1>1, <1>2, Constants DEF Init, TypeOK, InFlight, Running
<1>4. Configured
  BY <1>1, <1>2 DEF Init, Configured, Loaded
<1> QED
  BY <1>3, <1>4 DEF Init, IInv, Kept, CleanExit

\* The steps of main that leave connections and files alone.
LEMMA MainKeeps ==
  ASSUME IInv,
         \/ Serve \/ Interrupt \/ Cancel \/ Listen \/ ListenFails \/ Shutdown
         \/ ShutdownFails \/ Wait
  PROVE  IInv'
<1>1. UNCHANGED <<loadVars, connVars>>
  BY DEF Serve, Interrupt, Cancel, Listen, ListenFails, Shutdown, ShutdownFails, Wait
<1>2. InFlight' = InFlight /\ InFlight \subseteq Conns
  BY <1>1 DEF connVars, InFlight, Running
<1>3. TypeOK'
  BY <1>1, <1>2, Constants
     DEF IInv, TypeOK, loadVars, connVars,
         Serve, Interrupt, Cancel, Listen, ListenFails, Shutdown, ShutdownFails, Wait
<1>4. Kept'
  <2>1. CASE Shutdown
    BY <2>1, <1>1, <1>2 DEF Shutdown, IInv, TypeOK, Kept, connVars
  <2>2. CASE owed' = owed /\ (stage' \in {"loading", "serving"} => stage \in {"loading", "serving"})
    BY <2>2, <1>1 DEF IInv, Kept, connVars
  <2> QED
    BY <2>1, <2>2
       DEF Serve, Interrupt, Cancel, Listen, ListenFails, Shutdown, ShutdownFails, Wait
<1>5. CleanExit'
  BY DEF IInv, TypeOK, CleanExit, Exited,
         Serve, Interrupt, Cancel, Listen, ListenFails, Shutdown, ShutdownFails, Wait
<1>6. Configured'
  <2>1. Loaded' = Loaded /\ overrides' = overrides /\ read' = read /\ wanted' = wanted /\ flagSet' = flagSet
    BY <1>1 DEF loadVars, Loaded
  <2> QED
    BY <2>1 DEF IInv, Configured,
         Serve, Interrupt, Cancel, Listen, ListenFails, Shutdown, ShutdownFails, Wait
<1> QED
  BY <1>3, <1>4, <1>5, <1>6 DEF IInv

LEMMA LoadFileKeeps ==
  ASSUME IInv, NEW f \in Files, LoadFile(f)
  PROVE  IInv'
<1>1. Configured' /\ read' \in Seq(Files) /\ Len(read') <= wanted'
  BY LoadFileConfigures DEF IInv
<1>2. InFlight' = InFlight
  BY DEF LoadFile, connVars, InFlight, Running
<1>3. TypeOK'
  BY <1>1, <1>2 DEF IInv, TypeOK, LoadFile, connVars
<1> QED
  BY <1>1, <1>3 DEF IInv, LoadFile, Kept, CleanExit, connVars

\* Polling closes no connection of a request that is being handled.
LEMMA PollKeeps ==
  ASSUME IInv, Poll
  PROVE  IInv'
<1>1. InFlight' = InFlight
  BY DEF Poll, InFlight, Running
<1>2. \A c \in Conns : c \in InFlight => c \notin Closable
  BY DEF IInv, TypeOK, InFlight, Closable, Tracked
<1>3. \A c \in InFlight : conn'[c] = conn[c] /\ c \in Conns
  <2>1. InFlight \subseteq Conns
    BY DEF InFlight
  <2>2. \A c \in Conns \ Closable : conn'[c] = conn[c]
    BY DEF Poll
  <2> QED
    BY <2>1, <2>2, <1>2
<1>4. conn' \in [Conns -> {"none", "accepted", "new", "active", "idle", "closed"}]
  <2>1. \A c \in Conns : conn'[c] \in {"none", "accepted", "new", "active", "idle", "closed"}
    <3> TAKE c \in Conns
    <3>1. conn'[c] = conn[c] \/ conn'[c] = "closed" \/ conn'[c] = "none"
      BY DEF Poll
    <3> QED
      BY <3>1 DEF IInv, TypeOK
  <2> QED
    BY <2>1 DEF Poll
<1>5. age' \in [Conns -> 0..(NewGrace + 1)]
  BY Constants DEF Poll, IInv, TypeOK
<1>6. TypeOK'
  BY <1>1, <1>3, <1>4, <1>5 DEF IInv, TypeOK, Poll, loadVars
<1>7. Kept' /\ CleanExit'
  BY <1>3 DEF IInv, TypeOK, Kept, CleanExit, Poll
<1>8. Configured'
  BY DEF IInv, Configured, Loaded, Poll, loadVars
<1> QED
  BY <1>6, <1>7, <1>8 DEF IInv

\* The steps of one connection; one leaves owed, if at all, with its answer.
LEMMA ConnKeeps ==
  ASSUME IInv, NEW c \in Conns,
         ServerStep(c) \/ Accept(c) \/ ReadRequest(c) \/ Respond(c) \/ HangUp(c)
  PROVE  IInv'
<1>1. /\ UNCHANGED <<loadVars, stage, signal, listener, left>> /\ ~Exited
  BY DEF ServerStep, Track, CallEnds, Discard, ServeHTTP, Accept, ReadRequest, Respond, HangUp
<1>2. Configured' /\ CleanExit'
  BY <1>1 DEF IInv, Configured, CleanExit, Loaded, loadVars, Exited
<1>3. \A d \in Conns \ {c} : conn'[d] = conn[d] /\ handler'[d] = handler[d]
  BY DEF IInv, TypeOK, ServerStep, Track, CallEnds, Discard, ServeHTTP, Accept, ReadRequest,
         Respond, HangUp
<1>4. /\ conn' \in [Conns -> {"none", "accepted", "new", "active", "idle", "closed"}]
      /\ age' \in [Conns -> 0..(NewGrace + 1)]
      /\ handler' \in [Conns -> {"none", "read", "calling", "writing"}]
      /\ calls' \in [Conns -> 0..MaxCalls]
      /\ timer' \in [Conns -> 0..UpstreamTimeout]
  <2>1. CASE Track(c)
    BY <2>1, Constants DEF IInv, TypeOK, Track
  <2>2. CASE CallEnds(c)
    <3>1. calls[c] - 1 \in 0..MaxCalls
      BY <2>2, Constants DEF IInv, TypeOK, CallEnds
    <3>2. calls' \in [Conns -> 0..MaxCalls] /\ conn' = conn /\ age' = age
      BY <2>2, <3>1 DEF IInv, TypeOK, CallEnds
    <3>3. timer' \in [Conns -> 0..UpstreamTimeout]
      <4>1. UpstreamTimeout \in 0..UpstreamTimeout /\ 0 \in 0..UpstreamTimeout
        BY Constants
      <4> QED
        BY <2>2, <4>1 DEF IInv, TypeOK, CallEnds
    <3>4. handler' \in [Conns -> {"none", "read", "calling", "writing"}]
      BY <2>2 DEF IInv, TypeOK, CallEnds
    <3> QED
      BY <3>2, <3>3, <3>4 DEF IInv, TypeOK
  <2>3. CASE Discard(c)
    BY <2>3, Constants DEF IInv, TypeOK, Discard
  <2>4. ASSUME NEW n \in 0..MaxCalls, ServeHTTP(c, n)
        PROVE  <1>4!1 /\ <1>4!2 /\ <1>4!3 /\ <1>4!4 /\ <1>4!5
    BY <2>4, Constants DEF IInv, TypeOK, ServeHTTP
  <2>5. CASE Accept(c)
    BY <2>5, Constants DEF IInv, TypeOK, Accept
  <2>6. CASE ReadRequest(c)
    BY <2>6, Constants DEF IInv, TypeOK, ReadRequest
  <2>7. CASE Respond(c)
    BY <2>7, Constants DEF IInv, TypeOK, Respond
  <2>8. CASE HangUp(c)
    BY <2>8, Constants DEF IInv, TypeOK, HangUp
  <2> QED
    BY <2>1, <2>2, <2>3, <2>4, <2>5, <2>6, <2>7, <2>8 DEF ServerStep
<1>5. /\ c \in InFlight' => conn'[c] \in {"active", "closed"}
      /\ c \in owed' => c \in InFlight' /\ conn'[c] = "active"
      /\ owed' \subseteq owed
      /\ conn'[c] = "closed" => conn[c] = "closed"
  BY DEF IInv, TypeOK, Kept, InFlight, Running, ServerStep, Track, CallEnds, Discard, ServeHTTP,
         Accept, ReadRequest, Respond, HangUp
<1>6. owed' \subseteq InFlight' /\ \A d \in InFlight' : conn'[d] \in {"active", "closed"}
  BY <1>3, <1>5 DEF IInv, TypeOK, InFlight, Running
<1>7. TypeOK'
  BY <1>1, <1>4, <1>6 DEF IInv, TypeOK, loadVars
<1>8. Kept'
  BY <1>1, <1>3, <1>5 DEF IInv, TypeOK, InFlight, Kept
<1> QED
  BY <1>2, <1>7, <1>8 DEF IInv

LEMMA TickKeeps ==
  ASSUME IInv, Tick
  PROVE  IInv'
<1>1. /\ left' \in 0..ShutdownTimeout
      /\ timer' \in [Conns -> 0..UpstreamTimeout]
      /\ age' \in [Conns -> 0..(NewGrace + 1)]
  <2>1. left' \in 0..ShutdownTimeout
    BY Constants DEF IInv, TypeOK, Tick
  <2>2. timer' \in [Conns -> 0..UpstreamTimeout]
    BY Constants DEF IInv, TypeOK, Tick
  <2>3. age' \in [Conns -> 0..(NewGrace + 1)]
    BY Constants DEF IInv, TypeOK, Tick
  <2> QED
    BY <2>1, <2>2, <2>3
<1>2. InFlight' = InFlight
  BY DEF Tick, InFlight, Running
<1>3. TypeOK'
  BY <1>1, <1>2 DEF IInv, TypeOK, Tick, loadVars
<1> QED
  BY <1>3 DEF IInv, Tick, Kept, CleanExit, Configured, Loaded, loadVars

-----------------------------------------------------------------------------
(* Theorems.                                                               *)

\* Every step of the process keeps the invariant.
THEOREM Invariance == Spec => []IInv
<1>1. Init => IInv
  BY InitKeeps
<1>2. IInv /\ [Next]_vars => IInv'
  <2> SUFFICES ASSUME IInv, [Next]_vars PROVE IInv'
    OBVIOUS
  <2>1. CASE \/ Serve \/ Interrupt \/ Cancel \/ Listen \/ ListenFails \/ Shutdown
             \/ ShutdownFails \/ Wait
    BY <2>1, MainKeeps
  <2>2. ASSUME NEW f \in Files, LoadFile(f) PROVE IInv'
    BY <2>2, LoadFileKeeps
  <2>3. CASE Poll
    BY <2>3, PollKeeps
  <2>4. CASE Tick
    BY <2>4, TickKeeps
  <2>5. ASSUME NEW c \in Conns,
               ServerStep(c) \/ Accept(c) \/ ReadRequest(c) \/ Respond(c) \/ HangUp(c)
        PROVE  IInv'
    BY <2>5, ConnKeeps
  <2>6. CASE UNCHANGED vars
    BY <2>6 DEF IInv, TypeOK, Kept, CleanExit, Configured, Loaded, InFlight, Running,
                vars, loadVars, connVars
  <2> QED
    BY <2>1, <2>2, <2>3, <2>4, <2>5, <2>6 DEF Next, MainStep, Load
<1> QED
  BY <1>1, <1>2, PTL DEF Spec

\* The variables keep their types; a request is handled on a connection that is
\* active, or that Shutdown closed before it had noticed the request.
THEOREM TypeCorrect == Spec => []TypeOK
<1>1. IInv => TypeOK
  BY DEF IInv
<1> QED
  BY <1>1, Invariance, PTL

\* A process that ends without an error has answered every request that was
\* being handled when Shutdown was called, for any deadline and any clients.
THEOREM CleanExitCorrect == Spec => []CleanExit
<1>1. IInv => CleanExit
  BY DEF IInv
<1> QED
  BY <1>1, Invariance, PTL

\* However many files the flag names, the server runs with the overrides of all
\* of them, or of none if only the default path is named and has no file.
THEOREM AllOrNothingCorrect == Spec => []AllOrNothing
<1>1. ASSUME IInv, stage \notin {"loading", "failed"}
      PROVE  IF read = <<Missing>> THEN ~flagSet /\ overrides = <<>>
             ELSE /\ Len(read) = wanted /\ Len(overrides) = wanted
                  /\ \A i \in 1..wanted : overrides[i].rate = read[i].rate
  <2>1. CASE read = <<Missing>> /\ ~flagSet /\ overrides = <<>>
    BY <2>1
  <2>2. CASE Loaded /\ Len(read) = wanted
    <3>1. read # <<Missing>>
      BY <2>2 DEF Loaded, Usable
    <3>2. \A i \in 1..wanted : overrides[i].rate = read[i].rate
      BY <2>2 DEF Loaded, Override
    <3> QED
      BY <2>2, <3>1, <3>2 DEF Loaded
  <2> QED
    BY <1>1, <2>1, <2>2 DEF IInv, Configured
<1>2. IInv => AllOrNothing
  BY <1>1 DEF AllOrNothing
<1> QED
  BY <1>2, Invariance, PTL

\* Whatever the files, their ranges and the addresses are, a host gets the limit
\* of the first file that covers it.
THEOREM EarlierWinsCorrect == Spec => []EarlierWins
<1>1. ASSUME IInv, stage = "serving", overrides # <<>>,
             NEW a \in Addresses \ {Unparsable}, NEW i \in DOMAIN read,
             Covers(read[i], a.host), \A j \in 1..(i - 1) : ~Covers(read[j], a.host)
      PROVE  RateLimitForIP(overrides, a, Default) = [rate |-> read[i].rate, burst |-> read[i].burst]
  <2>1. Loaded
    BY <1>1 DEF IInv, Configured
  <2>2. /\ read \in Seq(Files) /\ overrides \in Seq({Override(f) : f \in Files})
        /\ DOMAIN read = 1..Len(read) /\ DOMAIN overrides = 1..Len(read) /\ Len(read) \in Nat
    <3>1. read \in Seq(Files) /\ overrides \in Seq({Override(f) : f \in Files})
      BY <1>1 DEF IInv, TypeOK, Configured
    <3> QED
      BY <3>1, <2>1 DEF Loaded
  <2>3. \A j \in 1..Len(read) : read[j] \in Files /\ Usable(read[j]) /\ overrides[j] = Override(read[j])
    BY <2>1, <2>2 DEF Loaded
  <2>4. \A j \in 1..Len(read) : Unmap(a) \in Compiled(overrides[j]).ips <=> Covers(read[j], a.host)
    BY <2>3, PrefixesCover
  <2>5. i \in 1..Len(read)
    BY <1>1, <2>2
  <2>6. Unmap(a) \in Compiled(overrides[i]).ips
        /\ \A j \in DOMAIN overrides : j < i => Unmap(a) \notin Compiled(overrides[j]).ips
    BY <1>1, <2>2, <2>4, <2>5
  <2>7. RateLimitForIP(overrides, a, Default)
          = [rate |-> overrides[i].rate, burst |-> overrides[i].burst]
    BY <2>2, <2>5, <2>6, FirstCounts
  <2> QED
    <3>1. overrides[i] = Override(read[i])
      BY <2>3, <2>5
    <3>2. overrides[i].rate = read[i].rate /\ overrides[i].burst = read[i].burst
      BY <3>1 DEF Override
    <3> QED
      BY <2>7, <3>2
<1>2. IInv => EarlierWins
  BY <1>1 DEF EarlierWins
<1> QED
  BY <1>2, Invariance, PTL
=============================================================================
