------------------------------ MODULE Lifecycle ------------------------------
(***************************************************************************)
(* Start, service and graceful shutdown of the process (main.go).          *)
(*                                                                         *)
(* serve reads the files with rate limits for IPs one after the other and  *)
(* starts the server.  It waits for an interrupt, then calls               *)
(* http.Server.Shutdown with a deadline, then waits for the handlers that  *)
(* CustomHandler counts in a WaitGroup.  Meanwhile clients connect, send   *)
(* requests, keep connections open and read slowly; handlers make bounded  *)
(* calls upstream.                                                         *)
(*                                                                         *)
(* The connection states are those of net/http, which Shutdown polls: it   *)
(* does not see a connection that is accepted but not yet tracked, nor a   *)
(* request that is read on a connection not yet marked active.             *)
(***************************************************************************)
EXTENDS IPOverrides, FiniteSets

CONSTANTS
  Conns,            \* client connections, used again when closed
  MaxCalls,         \* upstream calls a request makes in turn: a token, then the proxied call
  UpstreamTimeout,  \* Client.Timeout of a call
  ShutdownTimeout,  \* deadline given to Shutdown
  NewGrace,         \* age after which Shutdown closes a connection without a request
  Files,            \* what there may be at a path
  MaxFiles,         \* how many paths the flag may name
  Missing,          \* no file at the path
  Broken,           \* a file that is not one configuration in JSON
  Addresses,        \* client IPs, as text
  Default           \* the limit for IPs without an override

ASSUME LifecycleAssumption ==
  /\ IsFiniteSet(Conns)
  /\ {MaxCalls, UpstreamTimeout, ShutdownTimeout, NewGrace} \subseteq Nat
  /\ MaxFiles \in Nat \ {0}

\* A range is in CIDR notation or not, and mapped or not.
ASSUME RangesAssumption ==
  \A f \in Files \ {Missing, Broken} : \A i \in DOMAIN f.ranges :
    f.ranges[i] # Bad => {f.ranges[i].cidr, f.ranges[i].mapped} \subseteq BOOLEAN

VARIABLES
  stage,     \* where main is
  wanted,    \* how many paths -ip-rate-limit-config has
  flagSet,   \* whether it is set; its default is one path
  read,      \* the files read so far
  overrides, \* the overrides they make
  signal,    \* the interrupt: none, in its channel, or turned into a cancel
  listener,  \* the goroutine in ListenAndServe
  left,      \* time left of Shutdown's deadline
  conn,      \* each connection as the server tracks it
  age,       \* how long a new connection has been tracked
  handler,   \* its request, read, calling upstream or writing its answer
  calls,     \* upstream calls it has still to end
  timer,     \* time left of the current one
  owed       \* requests that were being handled when Shutdown was called

connVars == <<conn, age, handler, calls, timer>>
loadVars == <<wanted, flagSet, read, overrides>>
vars == <<stage, loadVars, signal, listener, left, connVars, owed>>

Usable(f) == f \notin {Missing, Broken} /\ Valid(f)
Running(c) == handler[c] \in {"calling", "writing"}
InFlight == {c \in Conns : Running(c)}
Exited == stage \in {"returned", "failed"}
ShuttingDown == stage \in {"shutting", "waiting"}

TypeOK ==
  /\ stage \in {"loading", "serving", "shutting", "waiting", "returned", "failed"}
  /\ signal \in {"none", "sent", "canceled"}
  /\ listener \in {"starting", "listening", "closed"}
  /\ left \in 0..ShutdownTimeout
  /\ conn \in [Conns -> {"none", "accepted", "new", "active", "idle", "closed"}]
  /\ age \in [Conns -> 0..(NewGrace + 1)]
  /\ handler \in [Conns -> {"none", "read", "calling", "writing"}]
  /\ calls \in [Conns -> 0..MaxCalls]
  /\ timer \in [Conns -> 0..UpstreamTimeout]
  /\ owed \subseteq InFlight
  /\ \A c \in InFlight : conn[c] \in {"active", "closed"}
  /\ wanted \in 0..MaxFiles /\ flagSet \in BOOLEAN
  /\ Len(read) <= wanted /\ read \in Seq(Files)

Init ==
  /\ stage = "loading"
  /\ flagSet \in BOOLEAN
  /\ wanted \in IF flagSet THEN 0..MaxFiles ELSE {1}
  /\ read = <<>> /\ overrides = <<>>
  /\ signal = "none"
  /\ listener = "starting"
  /\ left = 0
  /\ conn = [c \in Conns |-> "none"]
  /\ age = [c \in Conns |-> 0]
  /\ handler = [c \in Conns |-> "none"]
  /\ calls = [c \in Conns |-> 0]
  /\ timer = [c \in Conns |-> 0]
  /\ owed = {}

-----------------------------------------------------------------------------
(* Slips the code could have made, used to test the properties.            *)

\* A missed deadline is logged, and the process goes on to exit.
LoggedTimeout ==
  /\ stage = "shutting" /\ left = 0
  /\ stage' = "returned"
  /\ UNCHANGED <<loadVars, signal, listener, left, connVars, owed>>

\* Shutdown is given a context without a deadline.
NoDeadline == FALSE

\* The deadline is longer than the one main means to give.
LongDeadline ==
  /\ stage = "serving" /\ signal = "canceled"
  /\ stage' = "shutting"
  /\ left' = ShutdownTimeout + 1
  /\ listener' = IF listener = "listening" THEN "closed" ELSE listener
  /\ owed' = InFlight
  /\ UNCHANGED <<loadVars, signal, connVars>>

\* A file that is missing is passed over, whatever the flag.
SkipMissing(f) ==
  /\ stage = "loading" /\ Len(read) < wanted
  /\ read' = Append(read, f)
  /\ \/ /\ Usable(f)
        /\ overrides' = Append(overrides, Override(f))
        /\ UNCHANGED stage
     \/ /\ f = Missing
        /\ UNCHANGED <<overrides, stage>>
     \/ /\ f # Missing /\ ~Usable(f)
        /\ overrides' = <<>>
        /\ stage' = "failed"
  /\ UNCHANGED <<wanted, flagSet, signal, listener, left, connVars, owed>>
-----------------------------------------------------------------------------
(* main and its goroutines.                                                *)

\* loadIPRateLimitOverrides, and what redirectOptions makes of its error: only
\* the default path may have no file.  Any other error is fatal.
LoadFile(f) ==
  /\ stage = "loading" /\ Len(read) < wanted
  /\ read' = Append(read, f)
  /\ \/ /\ Usable(f)
        /\ overrides' = Append(overrides, Override(f))
        /\ UNCHANGED stage
     \/ /\ f = Missing /\ ~flagSet
        /\ overrides' = <<>>
        /\ stage' = "serving"
     \/ /\ ~Usable(f) /\ (f = Missing => flagSet)
        /\ overrides' = <<>>
        /\ stage' = "failed"
  /\ UNCHANGED <<wanted, flagSet, signal, listener, left, connVars, owed>>

\* The options are complete: the handler is made and the server started.
Serve ==
  /\ stage = "loading" /\ Len(read) = wanted
  /\ stage' = "serving"
  /\ UNCHANGED <<loadVars, signal, listener, left, connVars, owed>>

\* os.Interrupt; the channel holds one, and later ones have no effect.
Interrupt ==
  /\ signal = "none" /\ ~Exited
  /\ signal' = "sent"
  /\ UNCHANGED <<loadVars, stage, listener, left, connVars, owed>>

\* The goroutine that waits for the signal cancels the context.
Cancel ==
  /\ signal = "sent" /\ ~Exited
  /\ signal' = "canceled"
  /\ UNCHANGED <<loadVars, stage, listener, left, connVars, owed>>

\* ListenAndServe takes its port, or finds that Shutdown was already called
\* and returns http.ErrServerClosed.
Listen ==
  /\ listener = "starting" /\ stage # "loading" /\ ~Exited
  /\ listener' = IF ShuttingDown THEN "closed" ELSE "listening"
  /\ UNCHANGED <<loadVars, stage, signal, left, connVars, owed>>

\* The port cannot be had: Fatalf.
ListenFails ==
  /\ listener = "starting" /\ stage = "serving"
  /\ stage' = "failed"
  /\ UNCHANGED <<loadVars, signal, listener, left, connVars, owed>>

\* <-ctx.Done(), and the head of Shutdown, which closes the listener.
Shutdown ==
  /\ stage = "serving" /\ signal = "canceled"
  /\ stage' = "shutting"
  /\ left' = ShutdownTimeout
  /\ listener' = IF listener = "listening" THEN "closed" ELSE listener
  /\ owed' = InFlight
  /\ UNCHANGED <<loadVars, signal, connVars>>

Tracked == {c \in Conns : conn[c] \in {"new", "active", "idle"}}
Closable == {c \in Tracked : conn[c] = "idle" \/ (conn[c] = "new" /\ age[c] > NewGrace)}

\* Shutdown polls: it closes idle connections, and returns if no other is left.
Poll ==
  /\ stage = "shutting"
  /\ conn' = [c \in Conns |->
       IF c \notin Closable THEN conn[c]
       ELSE IF handler[c] = "read" THEN "closed" ELSE "none"]
  /\ stage' = IF Tracked \subseteq Closable THEN "waiting" ELSE "shutting"
  /\ age' = [c \in Conns |-> IF c \in Closable THEN 0 ELSE age[c]]
  /\ UNCHANGED <<loadVars, signal, listener, left, handler, calls, timer, owed>>

\* Shutdown returns its context's error: Fatalf ends the process.
ShutdownFails ==
  /\ stage = "shutting" /\ left = 0
  /\ stage' = "failed"
  /\ UNCHANGED <<loadVars, signal, listener, left, connVars, owed>>

\* wg.Wait returns, and so does main.
Wait ==
  /\ stage = "waiting"
  /\ InFlight = {}
  /\ stage' = "returned"
  /\ UNCHANGED <<loadVars, signal, listener, left, connVars, owed>>

-----------------------------------------------------------------------------
(* Connections and handlers.                                               *)

Accept(c) ==
  /\ listener = "listening" /\ ~Exited
  /\ conn[c] = "none"
  /\ conn' = [conn EXCEPT ![c] = "accepted"]
  /\ UNCHANGED <<loadVars, stage, signal, listener, left, age, handler, calls, timer, owed>>

Track(c) ==
  /\ conn[c] = "accepted" /\ ~Exited
  /\ conn' = [conn EXCEPT ![c] = "new"]
  /\ UNCHANGED <<loadVars, stage, signal, listener, left, age, handler, calls, timer, owed>>

\* A request has been read; the state of its connection is not yet changed.
ReadRequest(c) ==
  /\ conn[c] \in {"new", "idle"} /\ handler[c] = "none" /\ ~Exited
  /\ handler' = [handler EXCEPT ![c] = "read"]
  /\ UNCHANGED <<loadVars, stage, signal, listener, left, conn, age, calls, timer, owed>>

\* ServeHTTP: wg.Add, then the redirect's handler, which makes n calls in turn.
ServeHTTP(c, n) ==
  /\ handler[c] = "read" /\ ~Exited
  /\ conn' = [conn EXCEPT ![c] = IF @ = "closed" THEN @ ELSE "active"]
  /\ age' = [age EXCEPT ![c] = 0]
  /\ handler' = [handler EXCEPT ![c] = IF n = 0 THEN "writing" ELSE "calling"]
  /\ calls' = [calls EXCEPT ![c] = n]
  /\ timer' = [timer EXCEPT ![c] = IF n = 0 THEN 0 ELSE UpstreamTimeout]
  /\ UNCHANGED <<loadVars, stage, signal, listener, left, owed>>

\* An upstream call ends: an answer, an error, or its timeout.
CallEnds(c) ==
  /\ handler[c] = "calling" /\ ~Exited
  /\ calls' = [calls EXCEPT ![c] = @ - 1]
  /\ \/ /\ calls[c] > 1
        /\ timer' = [timer EXCEPT ![c] = UpstreamTimeout]
        /\ UNCHANGED handler
     \/ /\ calls[c] = 1
        /\ timer' = [timer EXCEPT ![c] = 0]
        /\ handler' = [handler EXCEPT ![c] = "writing"]
  /\ UNCHANGED <<loadVars, stage, signal, listener, left, conn, age, owed>>

\* The answer is written and wg.Done called.  A slow client holds this up for
\* any time: the server has no WriteTimeout.  Once Shutdown was called no
\* connection is kept alive, and a client may close its own at any time.
Respond(c) ==
  /\ handler[c] = "writing" /\ conn[c] = "active" /\ ~Exited
  /\ handler' = [handler EXCEPT ![c] = "none"]
  /\ owed' = owed \ {c}
  /\ \/ conn' = [conn EXCEPT ![c] = "none"]
     \/ ~ShuttingDown /\ conn' = [conn EXCEPT ![c] = "idle"]
  /\ UNCHANGED <<loadVars, stage, signal, listener, left, age, calls, timer>>

\* On a connection that Shutdown closed nothing can be written.
Discard(c) ==
  /\ handler[c] = "writing" /\ conn[c] = "closed" /\ ~Exited
  /\ handler' = [handler EXCEPT ![c] = "none"]
  /\ conn' = [conn EXCEPT ![c] = "none"]
  /\ UNCHANGED <<loadVars, stage, signal, listener, left, age, calls, timer, owed>>

\* The client of a connection without a request hangs up.
HangUp(c) ==
  /\ conn[c] \in {"new", "idle"} /\ handler[c] = "none" /\ ~Exited
  /\ conn' = [conn EXCEPT ![c] = "none"]
  /\ age' = [age EXCEPT ![c] = 0]
  /\ UNCHANGED <<loadVars, stage, signal, listener, left, handler, calls, timer, owed>>

\* Time passes; a call whose time is up ends before it does.
Tick ==
  /\ ~Exited
  /\ \A c \in Conns : handler[c] = "calling" => timer[c] > 0
  /\ left' = IF left > 0 THEN left - 1 ELSE 0
  /\ timer' = [c \in Conns |-> IF timer[c] > 0 THEN timer[c] - 1 ELSE 0]
  /\ age' = [c \in Conns |->
       IF conn[c] = "new" /\ age[c] <= NewGrace THEN age[c] + 1 ELSE age[c]]
  /\ UNCHANGED <<loadVars, stage, signal, listener, conn, handler, calls, owed>>

ServerStep(c) ==
  Track(c) \/ CallEnds(c) \/ Discard(c) \/ \E n \in 0..MaxCalls : ServeHTTP(c, n)

Load == Serve \/ \E f \in Files : LoadFile(f)

MainStep == Load \/ Cancel \/ Listen \/ Shutdown \/ Poll \/ ShutdownFails \/ Wait

Next ==
  \/ MainStep \/ Interrupt \/ ListenFails \/ Tick
  \/ \E c \in Conns :
       ServerStep(c) \/ Accept(c) \/ ReadRequest(c) \/ Respond(c) \/ HangUp(c)

Spec == Init /\ [][Next]_vars

\* The goroutines of the process run and time passes.  Nothing is asked of
\* clients: they may keep connections open, and read an answer never.
FairSpec ==
  /\ Spec
  /\ WF_vars(Load) /\ WF_vars(Cancel) /\ WF_vars(Shutdown) /\ WF_vars(Wait)
  /\ WF_vars(Poll) /\ WF_vars(ShutdownFails) /\ WF_vars(Tick)
  /\ \A c \in Conns : WF_vars(ServerStep(c))

-----------------------------------------------------------------------------
(* Properties.                                                             *)

\* A server runs with the overrides of all the files it was told to read, or of
\* none, if there is nothing at the path the flag has by default.
AllOrNothing ==
  stage \notin {"loading", "failed"} =>
    IF read = <<Missing>> THEN ~flagSet /\ overrides = <<>>
    ELSE /\ Len(read) = wanted /\ Len(overrides) = wanted
         /\ \A i \in 1..wanted : overrides[i].rate = read[i].rate

\* The hosts a file has a limit for, whatever way they are written; a mapped
\* range in CIDR notation has no effect (parseIPPrefix does not unmap it).
Covers(f, host) ==
  \E i \in DOMAIN f.ranges :
    host \in f.ranges[i].hosts /\ ~(f.ranges[i].cidr /\ f.ranges[i].mapped)

\* "Earlier files take precedence": while the process serves, no host gets a
\* limit from a file, or the default, if an earlier file has one for it.
EarlierWins ==
  stage = "serving" /\ overrides # <<>> =>
    \A a \in Addresses \ {Unparsable}, i \in DOMAIN read :
      LET limit == RateLimitForIP(overrides, a, Default) IN
      /\ Covers(read[i], a.host)
      /\ \A j \in 1..(i - 1) : ~Covers(read[j], a.host)
      => limit = [rate |-> read[i].rate, burst |-> read[i].burst]

\* A process that ends without an error has answered every request it was
\* handling when the shutdown began (Shutdown and wg.Wait in serve).
CleanExit == stage = "returned" => owed = {}

\* After an interrupt the process ends, whatever clients do: the deadline of
\* Shutdown bounds the wait for slow ones.  The one exception is wg.Wait, which
\* has no deadline: a connection that was accepted but not tracked when
\* Shutdown last polled can hold it up.
ExitsAfterSignal ==
  signal # "none" ~>
    \/ Exited
    \/ /\ stage = "waiting"
       /\ \E c \in Conns : conn[c] = "active" /\ handler[c] = "writing"

\* "Wait for in-flight requests to complete before shutting down": the process
\* does not end before the requests that were in flight when Shutdown was
\* called have their answers.
NoRequestCut == Exited => owed = {}
=============================================================================
