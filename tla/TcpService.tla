----------------------------- MODULE TcpService -----------------------------
(***************************************************************************)
(* service/tcp.go, the life of a tcpService: Serve with its accept loop,   *)
(* Stop and GracefulStop, called from any number of goroutines in any      *)
(* order (cmd/quick_ss starts Serve in a goroutine and may call Stop       *)
(* before it has run).  What a handler does with its connection is         *)
(* TcpConnection's subject; here it starts, ends or panics.                *)
(***************************************************************************)
EXTENDS Integers, FiniteSets

CONSTANTS
    Server,      \* goroutines that call Serve, each with a listener of its own
    Stopper,     \* goroutines that call Stop or GracefulStop
    Conn,        \* incoming connections
    None         \* a nil listener

ASSUME NoneAssumption == None \notin Server
ASSUME FiniteAssumption == IsFiniteSet(Server) /\ IsFiniteSet(Conn)

VARIABLES
    listener,    \* s.listener: the Server whose listener was adopted
    stopped,     \* s.stopped
    running,     \* the counter of the WaitGroup s.running
    serve,       \* where each Serve is
    open,        \* the Servers whose listener is open
    backlog,     \* for each connection the Server it was made to
    conn,        \* state of each connection and its handler
    current,     \* the connection a Serve has just accepted
    stop         \* where each Stop or GracefulStop is

vars == <<listener, stopped, running, serve, open, backlog, conn, current, stop>>
envVars == <<listener, stopped, running, serve, current, stop>>

-----------------------------------------------------------------------------

Init ==
    /\ listener = None
    /\ stopped = FALSE
    /\ running = 0
    /\ serve = [s \in Server |-> "idle"]
    /\ open = Server
    /\ backlog = [c \in Conn |-> None]
    /\ conn = [c \in Conn |-> "none"]
    /\ current = [s \in Server |-> None]
    /\ stop = [t \in Stopper |-> "idle"]

\* listener.Close(): connections nobody has accepted are reset.
CloseListener(s) ==
    /\ open' = open \ {s}
    /\ conn' = [c \in Conn |->
                  IF backlog[c] = s /\ conn[c] = "queued" THEN "closed" ELSE conn[c]]

\* A client connects to an open listener, whether or not anyone accepts on it.
Connect(c, s) ==
    /\ conn[c] = "none" /\ s \in open
    /\ conn' = [conn EXCEPT ![c] = "queued"]
    /\ backlog' = [backlog EXCEPT ![c] = s]
    /\ UNCHANGED <<envVars, open>>

-----------------------------------------------------------------------------
(* Serve.                                                                  *)

\* Serve under s.mu: the second caller and the caller after Stop are turned away
\* ("Serve can only be called once").
ServeRefused(s) ==
    /\ serve[s] = "idle"
    /\ listener # None \/ stopped
    /\ serve' = [serve EXCEPT ![s] = "refused"]
    /\ UNCHANGED <<listener, stopped, running, open, backlog, conn, current, stop>>

\* They close their listener after the unlock and return.
CloseRefused(s) ==
    /\ serve[s] = "refused"
    /\ serve' = [serve EXCEPT ![s] = "returned"]
    /\ CloseListener(s)
    /\ UNCHANGED <<listener, stopped, running, backlog, current, stop>>

\* Mutant of ServeAdopt: s.stopped is not looked at.
ServeAdoptStopped(s) ==
    /\ serve[s] = "idle"
    /\ listener = None
    /\ listener' = s
    /\ running' = running + 1
    /\ serve' = [serve EXCEPT ![s] = "accept"]
    /\ UNCHANGED <<stopped, open, backlog, conn, current, stop>>

ServeAdopt(s) ==
    /\ serve[s] = "idle"
    /\ listener = None /\ ~stopped
    /\ listener' = s
    /\ running' = running + 1
    /\ serve' = [serve EXCEPT ![s] = "accept"]
    /\ UNCHANGED <<stopped, open, backlog, conn, current, stop>>

\* AcceptTCP returns a connection.
AcceptTCP(s, c) ==
    /\ serve[s] = "accept" /\ s \in open
    /\ conn[c] = "queued" /\ backlog[c] = s
    /\ conn' = [conn EXCEPT ![c] = "accepted"]
    /\ current' = [current EXCEPT ![s] = c]
    /\ serve' = [serve EXCEPT ![s] = "spawn"]
    /\ UNCHANGED <<listener, stopped, running, open, backlog, stop>>

\* Mutant of Spawn: the handler is not counted.
SpawnUncounted(s) ==
    /\ serve[s] = "spawn"
    /\ conn' = [conn EXCEPT ![current[s]] = "started"]
    /\ current' = [current EXCEPT ![s] = None]
    /\ serve' = [serve EXCEPT ![s] = "accept"]
    /\ UNCHANGED <<listener, stopped, running, open, backlog, stop>>

\* running.Add(1) and the go statement.
Spawn(s) ==
    /\ serve[s] = "spawn"
    /\ running' = running + 1
    /\ conn' = [conn EXCEPT ![current[s]] = "started"]
    /\ current' = [current EXCEPT ![s] = None]
    /\ serve' = [serve EXCEPT ![s] = "accept"]
    /\ UNCHANGED <<listener, stopped, open, backlog, stop>>

\* AcceptTCP fails: the listener is closed, or the system is short of something.
AcceptFails(s) ==
    /\ serve[s] = "accept"
    /\ serve' = [serve EXCEPT ![s] = "failed"]
    /\ UNCHANGED <<listener, stopped, running, open, backlog, conn, current, stop>>

\* Serve reads s.stopped under the lock and returns, or tries again.
ServeReturns(s) ==
    /\ serve[s] = "failed" /\ stopped
    /\ serve' = [serve EXCEPT ![s] = "returned"]
    /\ running' = running - 1
    /\ UNCHANGED <<listener, stopped, open, backlog, conn, current, stop>>

AcceptAgain(s) ==
    /\ serve[s] = "failed" /\ ~stopped
    /\ serve' = [serve EXCEPT ![s] = "accept"]
    /\ UNCHANGED <<listener, stopped, running, open, backlog, conn, current, stop>>

-----------------------------------------------------------------------------
(* Handlers.                                                               *)

\* handleConnection closes the connection as its last act, or panics before.
HandlerEnds(c, how) ==
    /\ conn[c] = "started"
    /\ conn' = [conn EXCEPT ![c] = how]
    /\ UNCHANGED <<envVars, open, backlog>>

\* Mutant of HandlerDone: Done is not deferred, a panic skips it.
HandlerDoneUnlessPanic(c) ==
    /\ conn[c] \in {"released", "panicked"}
    /\ conn' = [conn EXCEPT ![c] = IF @ = "released" THEN "closed" ELSE "leaked"]
    /\ running' = IF conn[c] = "released" THEN running - 1 ELSE running
    /\ UNCHANGED <<listener, stopped, serve, open, backlog, current, stop>>

\* The deferred calls: recover, then running.Done().
HandlerDone(c) ==
    /\ conn[c] \in {"released", "panicked"}
    /\ conn' = [conn EXCEPT ![c] = IF @ = "released" THEN "closed" ELSE "leaked"]
    /\ running' = running - 1
    /\ UNCHANGED <<listener, stopped, serve, open, backlog, current, stop>>

-----------------------------------------------------------------------------
(* Stop and GracefulStop.                                                  *)

\* Mutant of CallStop: the listener is not closed with the flag.
CallStopFlagOnly(t, next) ==
    /\ stop[t] = "idle"
    /\ stopped' = TRUE
    /\ stop' = [stop EXCEPT ![t] = next]
    /\ UNCHANGED <<listener, running, serve, open, backlog, conn, current>>

\* Stop; GracefulStop goes on to wait.
CallStop(t, next) ==
    /\ stop[t] = "idle"
    /\ stopped' = TRUE
    /\ stop' = [stop EXCEPT ![t] = next]
    /\ IF listener = None THEN UNCHANGED <<open, conn>> ELSE CloseListener(listener)
    /\ UNCHANGED <<listener, running, serve, backlog, current>>

\* running.Wait() returns.
WaitReturns(t) ==
    /\ stop[t] = "waiting"
    /\ running = 0
    /\ stop' = [stop EXCEPT ![t] = "done"]
    /\ UNCHANGED <<listener, stopped, running, serve, open, backlog, conn, current>>

-----------------------------------------------------------------------------

Serve(s) ==
    \/ ServeRefused(s) \/ CloseRefused(s) \/ ServeAdopt(s)
    \/ \E c \in Conn : AcceptTCP(s, c)
    \/ Spawn(s) \/ AcceptFails(s) \/ ServeReturns(s) \/ AcceptAgain(s)

Handler(c) ==
    (\E how \in {"released", "panicked"} : HandlerEnds(c, how)) \/ HandlerDone(c)

Next ==
    \/ \E s \in Server : Serve(s)
    \/ \E c \in Conn, s \in Server : Connect(c, s)
    \/ \E c \in Conn : Handler(c)
    \/ \E t \in Stopper :
         (\E next \in {"stopped", "waiting"} : CallStop(t, next)) \/ WaitReturns(t)

Spec == Init /\ [][Next]_vars

\* The Serve goroutine runs, an accept on a closed listener fails, deferred
\* calls are made and Wait returns.  How long a handler takes is its peers'
\* choice, so nothing is assumed of HandlerEnds.
Fairness ==
    /\ \A s \in Server :
         /\ WF_vars(s \notin open /\ AcceptFails(s))
         /\ WF_vars(Spawn(s) \/ CloseRefused(s) \/ ServeReturns(s) \/ AcceptAgain(s))
    /\ \A c \in Conn : WF_vars(HandlerDone(c))
    /\ \A t \in Stopper : WF_vars(WaitReturns(t))

FairSpec == Spec /\ Fairness

-----------------------------------------------------------------------------

TypeOK ==
    /\ listener \in Server \cup {None}
    /\ stopped \in BOOLEAN
    /\ running \in Nat
    /\ serve \in [Server -> {"idle", "refused", "accept", "spawn", "failed", "returned"}]
    /\ open \in SUBSET Server
    /\ backlog \in [Conn -> Server \cup {None}]
    /\ conn \in [Conn -> {"none", "queued", "accepted", "started", "released",
                         "panicked", "leaked", "closed"}]
    /\ current \in [Server -> Conn \cup {None}]
    /\ stop \in [Stopper -> {"idle", "stopped", "waiting", "done"}]

\* The accept loops and the handlers that have still to call Done.
Serving == {s \in Server : serve[s] \in {"accept", "spawn", "failed"}}
Handling == {c \in Conn : conn[c] \in {"started", "released", "panicked"}}

\* The WaitGroup counts the accept loop and the handlers, so that it reaches
\* zero exactly when the last of them has called Done and is never negative.
RunningCounts ==
    running = Cardinality(Serving) + Cardinality(Handling)

\* "Serve adopts the listener, which will be closed before Serve returns":
\* whichever way Serve returns and however Stop interleaves with it.
ListenerClosedBeforeReturn ==
    \A s \in Server : serve[s] = "returned" => s \notin open

\* "GracefulStop ... blocks until all resources have been cleaned up": after it
\* has returned no accept loop and no handler runs, the listener is closed, and
\* so is every connection that was accepted, unless its handler panicked.
GracefulStopCleansUp ==
    (\E t \in Stopper : stop[t] = "done") =>
      /\ Serving = {}
      /\ listener \notin open
      /\ \A c \in Conn : conn[c] \notin {"accepted", "started", "released", "panicked"}

\* The rule of sync.WaitGroup that Serve must not break: once somebody waits,
\* the counter is never raised from zero.
NoAddDuringWait ==
    [][running = 0 /\ running' > 0 =>
         \A t \in Stopper : stop[t] \in {"idle", "stopped"}]_vars

\* GracefulStop returns once the handlers have ended.
GracefulStopReturns ==
    (\A c \in Conn : conn[c] = "started" ~> conn[c] # "started") =>
      \A t \in Stopper : stop[t] = "waiting" ~> stop[t] = "done"

=============================================================================
