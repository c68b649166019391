-------------------------- MODULE TcpServiceProofs --------------------------
(***************************************************************************)
(* For any number of connections and of callers of Serve, Stop and         *)
(* GracefulStop: the WaitGroup counts what is running, it is used by its   *)
(* rules, Serve has closed its listener when it returns, and nothing is    *)
(* left when GracefulStop does.                                            *)
(***************************************************************************)
EXTENDS TcpService, FiniteSetTheorems, TLAPS

\* Only the Serve that was adopted serves, and a Serve that is about to start a
\* handler has just accepted its connection.
OneServes ==
    \A s \in Server :
      /\ s \in Serving => listener = s
      /\ serve[s] = "spawn" => current[s] \in Conn /\ conn[current[s]] = "accepted"

\* A connection that was accepted waits for its handler to be started.
AcceptedIsCurrent ==
    \A c \in Conn : conn[c] = "accepted" =>
      \E s \in Server : serve[s] = "spawn" /\ current[s] = c

\* Stop closes the listener it finds, and Serve takes none after it.
StoppedIsClosed ==
    /\ stopped => listener \notin open
    /\ \A t \in Stopper : stop[t] # "idle" => stopped

\* The inductive invariant.  The counter alone does not tell that nothing runs
\* any more, nor the flag that the listener is closed: OneServes and
\* StoppedIsClosed connect them.
IInv ==
    /\ TypeOK
    /\ RunningCounts
    /\ OneServes
    /\ AcceptedIsCurrent
    /\ StoppedIsClosed
    /\ ListenerClosedBeforeReturn
    /\ GracefulStopCleansUp

-----------------------------------------------------------------------------

\* The two sets the WaitGroup counts are finite.
LEMMA Counting ==
    /\ IsFiniteSet(Serving) /\ Cardinality(Serving) \in Nat
    /\ IsFiniteSet(Handling) /\ Cardinality(Handling) \in Nat
    /\ IsFiniteSet(Serving') /\ Cardinality(Serving') \in Nat
    /\ IsFiniteSet(Handling') /\ Cardinality(Handling') \in Nat
  <1>1. /\ Serving \in SUBSET Server /\ Serving' \in SUBSET Server
        /\ Handling \in SUBSET Conn /\ Handling' \in SUBSET Conn
    BY DEF Serving, Handling
  <1>2. /\ IsFiniteSet(Serving) /\ IsFiniteSet(Serving')
        /\ IsFiniteSet(Handling) /\ IsFiniteSet(Handling')
    BY <1>1, FiniteAssumption, FS_Subset
  <1> QED BY <1>2, FS_CardinalityType

\* When the counter is zero, nothing runs: what Wait relies on.
LEMMA ZeroMeansIdle ==
    ASSUME RunningCounts, running = 0
    PROVE  Serving = {} /\ Handling = {}
  <1>1. Cardinality(Serving) = 0 /\ Cardinality(Handling) = 0
    BY Counting DEF RunningCounts
  <1> QED BY <1>1, Counting, FS_EmptySet

\* The inductive invariant holds at the start.
LEMMA InitIInv == Init => IInv
  <1> SUFFICES ASSUME Init PROVE IInv
    OBVIOUS
  <1> USE DEF Init
  <1>1. TypeOK
    BY DEF TypeOK
  <1>2. Serving = {} /\ Handling = {}
    BY DEF Serving, Handling
  <1>3. RunningCounts
    BY <1>2, FS_EmptySet DEF RunningCounts
  <1>4. OneServes /\ AcceptedIsCurrent
    BY <1>2 DEF OneServes, AcceptedIsCurrent
  <1>5. StoppedIsClosed /\ ListenerClosedBeforeReturn /\ GracefulStopCleansUp
    BY DEF StoppedIsClosed, ListenerClosedBeforeReturn, GracefulStopCleansUp
  <1> QED BY <1>1, <1>3, <1>4, <1>5 DEF IInv

-----------------------------------------------------------------------------
(* One lemma for each kind of step.                                        *)

\* Steps that change neither of the counted sets nor the counter.
LEMMA SameCount ==
    ASSUME RunningCounts, Serving' = Serving, Handling' = Handling, running' = running
    PROVE  RunningCounts'
  BY DEF RunningCounts

\* A connection in the backlog counts nowhere.
LEMMA ConnectIInv ==
    ASSUME IInv, NEW c \in Conn, NEW s \in Server, Connect(c, s)
    PROVE  IInv'
  <1> USE DEF IInv, Connect, envVars
  <1>1. TypeOK'
    BY DEF TypeOK
  <1>2. Serving' = Serving /\ Handling' = Handling
    BY DEF TypeOK, Serving, Handling
  <1>3. RunningCounts'
    BY <1>2, SameCount
  <1>4. OneServes' /\ AcceptedIsCurrent'
    BY <1>2 DEF TypeOK, OneServes, AcceptedIsCurrent
  <1>5. StoppedIsClosed' /\ ListenerClosedBeforeReturn'
    BY DEF StoppedIsClosed, ListenerClosedBeforeReturn
  <1>6. GracefulStopCleansUp'
    BY <1>2 DEF TypeOK, GracefulStopCleansUp
  <1> QED BY <1>1, <1>3, <1>4, <1>5, <1>6

\* Serve is refused, before and after its listener is closed.
LEMMA RefusedIInv ==
    ASSUME IInv, NEW s \in Server, ServeRefused(s) \/ CloseRefused(s)
    PROVE  IInv'
  <1> USE DEF IInv, ServeRefused, CloseRefused, CloseListener
  <1>1. TypeOK'
    BY DEF TypeOK
  <1>2. Serving' = Serving /\ Handling' = Handling
    BY DEF TypeOK, Serving, Handling
  <1>3. RunningCounts'
    BY <1>2, SameCount
  <1>4. OneServes'
    BY <1>2 DEF TypeOK, OneServes
  <1>5. AcceptedIsCurrent'
    BY DEF TypeOK, AcceptedIsCurrent
  <1>6. StoppedIsClosed'
    BY DEF StoppedIsClosed
  <1>7. ListenerClosedBeforeReturn'
    BY DEF TypeOK, ListenerClosedBeforeReturn
  <1>8. GracefulStopCleansUp'
    BY <1>2 DEF TypeOK, GracefulStopCleansUp
  <1> QED BY <1>1, <1>3, <1>4, <1>5, <1>6, <1>7, <1>8

\* Serve is counted when it adopts its listener, before it accepts.
LEMMA AdoptIInv ==
    ASSUME IInv, NEW s \in Server, ServeAdopt(s)
    PROVE  IInv'
  <1> USE DEF IInv, ServeAdopt
  <1>1. TypeOK'
    BY DEF TypeOK
  <1>2. s \notin Serving /\ Serving' = Serving \cup {s} /\ Handling' = Handling
    BY DEF TypeOK, Serving, Handling
  <1>3. RunningCounts'
    <2>1. Cardinality(Serving') = Cardinality(Serving) + 1
      BY <1>2, Counting, FS_AddElement
    <2> QED BY <1>2, <2>1, Counting DEF RunningCounts
  <1>4. OneServes'
    BY <1>2, NoneAssumption DEF TypeOK, OneServes
  <1>5. AcceptedIsCurrent'
    BY DEF TypeOK, AcceptedIsCurrent
  <1>6. StoppedIsClosed'
    BY DEF StoppedIsClosed
  <1>7. ListenerClosedBeforeReturn'
    BY DEF TypeOK, ListenerClosedBeforeReturn
  <1>8. GracefulStopCleansUp'
    BY DEF StoppedIsClosed, GracefulStopCleansUp
  <1> QED BY <1>1, <1>3, <1>4, <1>5, <1>6, <1>7, <1>8

\* The accepted connection becomes the loop's current one.
LEMMA AcceptIInv ==
    ASSUME IInv, NEW s \in Server, NEW c \in Conn, AcceptTCP(s, c)
    PROVE  IInv'
  <1> USE DEF IInv, AcceptTCP
  <1>1. TypeOK'
    BY DEF TypeOK
  <1>2. Serving' = Serving /\ Handling' = Handling
    BY DEF TypeOK, Serving, Handling
  <1>3. RunningCounts'
    BY <1>2, SameCount
  <1>4. OneServes'
    BY <1>2 DEF TypeOK, OneServes, Serving
  <1>5. AcceptedIsCurrent'
    BY DEF TypeOK, AcceptedIsCurrent
  <1>6. StoppedIsClosed' /\ ListenerClosedBeforeReturn'
    BY DEF TypeOK, StoppedIsClosed, ListenerClosedBeforeReturn
  <1>7. GracefulStopCleansUp'
    <2>1. s \in Serving
      BY DEF Serving
    <2> QED BY <2>1 DEF GracefulStopCleansUp
  <1> QED BY <1>1, <1>3, <1>4, <1>5, <1>6, <1>7

\* running.Add(1) comes with the start of the handler.
LEMMA SpawnIInv ==
    ASSUME IInv, NEW s \in Server, Spawn(s)
    PROVE  IInv'
  <1> USE DEF IInv, Spawn
  <1>0. current[s] \in Conn /\ conn[current[s]] = "accepted" /\ s \in Serving
    BY DEF OneServes, Serving
  <1>1. TypeOK'
    BY <1>0 DEF TypeOK
  <1>2. /\ Serving' = Serving /\ current[s] \notin Handling
        /\ Handling' = Handling \cup {current[s]}
    BY <1>0 DEF TypeOK, Serving, Handling
  <1>3. RunningCounts'
    <2>1. Cardinality(Handling') = Cardinality(Handling) + 1
      BY <1>2, Counting, FS_AddElement
    <2> QED BY <1>2, <2>1, Counting DEF RunningCounts
  <1>4. OneServes'
    BY <1>0, <1>2 DEF TypeOK, OneServes, Serving
  <1>5. AcceptedIsCurrent'
    BY <1>0 DEF TypeOK, AcceptedIsCurrent, OneServes, Serving
  <1>6. StoppedIsClosed' /\ ListenerClosedBeforeReturn'
    BY DEF TypeOK, StoppedIsClosed, ListenerClosedBeforeReturn
  <1>7. GracefulStopCleansUp'
    BY <1>0 DEF GracefulStopCleansUp
  <1> QED BY <1>1, <1>3, <1>4, <1>5, <1>6, <1>7

\* An accept fails, and Serve finds that it may go on.
LEMMA FailedIInv ==
    ASSUME IInv, NEW s \in Server, AcceptFails(s) \/ AcceptAgain(s)
    PROVE  IInv'
  <1> USE DEF IInv, AcceptFails, AcceptAgain
  <1>1. TypeOK'
    BY DEF TypeOK
  <1>2. Serving' = Serving /\ Handling' = Handling
    BY DEF TypeOK, Serving, Handling
  <1>3. RunningCounts'
    BY <1>2, SameCount
  <1>4. OneServes'
    BY <1>2 DEF TypeOK, OneServes
  <1>5. AcceptedIsCurrent'
    BY DEF TypeOK, AcceptedIsCurrent
  <1>6. StoppedIsClosed' /\ ListenerClosedBeforeReturn'
    BY DEF TypeOK, StoppedIsClosed, ListenerClosedBeforeReturn
  <1>7. GracefulStopCleansUp'
    BY <1>2 DEF GracefulStopCleansUp
  <1> QED BY <1>1, <1>3, <1>4, <1>5, <1>6, <1>7

\* The deferred running.Done() takes the accept loop out of the count.
LEMMA ReturnIInv ==
    ASSUME IInv, NEW s \in Server, ServeReturns(s)
    PROVE  IInv'
  <1> USE DEF IInv, ServeReturns
  <1>2. s \in Serving /\ Serving' = Serving \ {s} /\ Handling' = Handling
    BY DEF TypeOK, Serving, Handling
  <1>3. RunningCounts' /\ running' \in Nat
    <2>1. Cardinality(Serving') = Cardinality(Serving) - 1
      BY <1>2, Counting, FS_RemoveElement
    <2> QED BY <1>2, <2>1, Counting DEF RunningCounts
  <1>1. TypeOK'
    BY <1>3 DEF TypeOK
  <1>4. OneServes'
    BY <1>2 DEF TypeOK, OneServes
  <1>5. AcceptedIsCurrent'
    BY DEF TypeOK, AcceptedIsCurrent
  <1>6. StoppedIsClosed'
    BY DEF StoppedIsClosed
  <1>7. ListenerClosedBeforeReturn'
    BY <1>2 DEF TypeOK, OneServes, StoppedIsClosed, ListenerClosedBeforeReturn
  <1>8. GracefulStopCleansUp'
    BY <1>2 DEF GracefulStopCleansUp
  <1> QED BY <1>1, <1>3, <1>4, <1>5, <1>6, <1>7, <1>8

\* A handler ends or panics, and has still to call Done.
LEMMA EndsIInv ==
    ASSUME IInv, NEW c \in Conn, NEW how \in {"released", "panicked"},
           HandlerEnds(c, how)
    PROVE  IInv'
  <1> USE DEF IInv, HandlerEnds, envVars
  <1>1. TypeOK'
    BY DEF TypeOK
  <1>2. Serving' = Serving /\ Handling' = Handling
    BY DEF TypeOK, Serving, Handling
  <1>3. RunningCounts'
    BY <1>2, SameCount
  <1>4. OneServes' /\ AcceptedIsCurrent'
    BY <1>2 DEF TypeOK, OneServes, AcceptedIsCurrent
  <1>5. StoppedIsClosed' /\ ListenerClosedBeforeReturn'
    BY DEF StoppedIsClosed, ListenerClosedBeforeReturn
  <1>6. GracefulStopCleansUp'
    BY DEF TypeOK, GracefulStopCleansUp
  <1> QED BY <1>1, <1>3, <1>4, <1>5, <1>6

\* So does the handler's, also after a panic.
LEMMA DoneIInv ==
    ASSUME IInv, NEW c \in Conn, HandlerDone(c)
    PROVE  IInv'
  <1> USE DEF IInv, HandlerDone
  <1>2. c \in Handling /\ Handling' = Handling \ {c} /\ Serving' = Serving
    BY DEF TypeOK, Serving, Handling
  <1>3. RunningCounts' /\ running' \in Nat
    <2>1. Cardinality(Handling') = Cardinality(Handling) - 1
      BY <1>2, Counting, FS_RemoveElement
    <2> QED BY <1>2, <2>1, Counting DEF RunningCounts
  <1>1. TypeOK'
    BY <1>3 DEF TypeOK
  <1>4. OneServes' /\ AcceptedIsCurrent'
    BY <1>2 DEF TypeOK, OneServes, AcceptedIsCurrent
  <1>5. StoppedIsClosed' /\ ListenerClosedBeforeReturn'
    BY DEF StoppedIsClosed, ListenerClosedBeforeReturn
  <1>6. GracefulStopCleansUp'
    BY <1>2 DEF TypeOK, GracefulStopCleansUp
  <1> QED BY <1>1, <1>3, <1>4, <1>5, <1>6

\* Stop raises the flag and closes the adopted listener in one critical section.
LEMMA StopIInv ==
    ASSUME IInv, NEW t \in Stopper, NEW next \in {"stopped", "waiting"},
           CallStop(t, next)
    PROVE  IInv'
  <1> USE DEF IInv, CallStop, CloseListener
  <1>1. TypeOK'
    BY DEF TypeOK
  <1>2. Serving' = Serving /\ Handling' = Handling
    BY DEF TypeOK, Serving, Handling
  <1>3. RunningCounts'
    BY <1>2, SameCount
  <1>4. OneServes'
    BY <1>2 DEF TypeOK, OneServes
  <1>5. AcceptedIsCurrent'
    BY DEF TypeOK, AcceptedIsCurrent
  <1>6. StoppedIsClosed'
    BY NoneAssumption DEF TypeOK, StoppedIsClosed
  <1>7. ListenerClosedBeforeReturn'
    BY DEF ListenerClosedBeforeReturn
  <1>8. GracefulStopCleansUp'
    BY <1>2 DEF TypeOK, GracefulStopCleansUp
  <1> QED BY <1>1, <1>3, <1>4, <1>5, <1>6, <1>7, <1>8

\* Wait returns when the counter is zero: nothing runs and nothing can start.
LEMMA WaitIInv ==
    ASSUME IInv, NEW t \in Stopper, WaitReturns(t)
    PROVE  IInv'
  <1> USE DEF IInv, WaitReturns
  <1>1. TypeOK'
    BY DEF TypeOK
  <1>2. Serving' = Serving /\ Handling' = Handling
    BY DEF Serving, Handling
  <1>3. RunningCounts'
    BY <1>2, SameCount
  <1>4. OneServes' /\ AcceptedIsCurrent' /\ ListenerClosedBeforeReturn'
    BY <1>2 DEF OneServes, AcceptedIsCurrent, ListenerClosedBeforeReturn
  <1>5. StoppedIsClosed'
    BY DEF TypeOK, StoppedIsClosed
  <1>6. Serving = {} /\ Handling = {}
    BY ZeroMeansIdle
  <1>7. listener \notin open
    BY DEF StoppedIsClosed
  <1>8. \A c \in Conn : conn[c] \notin {"accepted", "started", "released", "panicked"}
    BY <1>6 DEF AcceptedIsCurrent, Serving, Handling
  <1>9. GracefulStopCleansUp'
    BY <1>2, <1>6, <1>7, <1>8 DEF GracefulStopCleansUp
  <1> QED BY <1>1, <1>3, <1>4, <1>5, <1>9

-----------------------------------------------------------------------------

\* Every step, of whatever goroutine, preserves the inductive invariant.
LEMMA NextIInv == IInv /\ [Next]_vars => IInv'
  <1> SUFFICES ASSUME IInv, [Next]_vars PROVE IInv'
    OBVIOUS
  <1>1. ASSUME NEW s \in Server, Serve(s) PROVE IInv'
    BY <1>1, RefusedIInv, AdoptIInv, AcceptIInv, SpawnIInv, FailedIInv, ReturnIInv
    DEF Serve
  <1>2. ASSUME NEW c \in Conn, NEW s \in Server, Connect(c, s) PROVE IInv'
    BY <1>2, ConnectIInv
  <1>3. ASSUME NEW c \in Conn, Handler(c) PROVE IInv'
    BY <1>3, EndsIInv, DoneIInv DEF Handler
  <1>4. ASSUME NEW t \in Stopper, NEW next \in {"stopped", "waiting"}, CallStop(t, next)
        PROVE  IInv'
    BY <1>4, StopIInv
  <1>5. ASSUME NEW t \in Stopper, WaitReturns(t) PROVE IInv'
    BY <1>5, WaitIInv
  <1>6. CASE UNCHANGED vars
    BY <1>6 DEF vars, IInv, TypeOK, RunningCounts, OneServes, AcceptedIsCurrent,
                StoppedIsClosed, ListenerClosedBeforeReturn, GracefulStopCleansUp,
                Serving, Handling
  <1> QED BY <1>1, <1>2, <1>3, <1>4, <1>5, <1>6 DEF Next

\* Whatever the interleaving of Serve, the handlers and the stops, the inductive
\* invariant holds.
THEOREM Invariance == Spec => []IInv
  BY InitIInv, NextIInv, PTL DEF Spec

\* The WaitGroup of a tcpService counts its accept loop and its handlers, for
\* any number of connections.
THEOREM CountsWhatRuns == Spec => []RunningCounts
  <1>1. IInv => RunningCounts
    BY DEF IInv
  <1> QED BY <1>1, Invariance, PTL

\* Serve never returns with its listener open.
THEOREM ServeClosesListener == Spec => []ListenerClosedBeforeReturn
  <1>1. IInv => ListenerClosedBeforeReturn
    BY DEF IInv
  <1> QED BY <1>1, Invariance, PTL

\* When GracefulStop has returned, no accept loop and no handler is left and
\* nobody can start one.
THEOREM GracefulStopIsThorough == Spec => []GracefulStopCleansUp
  <1>1. IInv => GracefulStopCleansUp
    BY DEF IInv
  <1> QED BY <1>1, Invariance, PTL

\* Only ServeAdopt, which needs a service that was not stopped, and Spawn, whose
\* accept loop is counted, raise the counter: never from zero while somebody
\* waits.
THEOREM WaitGroupRule == Spec => NoAddDuringWait
  <1>1. IInv /\ [Next]_vars =>
          [running = 0 /\ running' > 0 =>
             \A t \in Stopper : stop[t] \in {"idle", "stopped"}]_vars
    <2> SUFFICES ASSUME IInv, Next, running = 0, running' > 0
                 PROVE  \A t \in Stopper : stop[t] \in {"idle", "stopped"}
      BY DEF vars
    <2>1. Serving = {} /\ Handling = {}
      BY ZeroMeansIdle DEF IInv
    <2>2. ~stopped
      <3>1. PICK s \in Server : ServeAdopt(s)
        BY <2>1 DEF Next, Serve, Handler, ServeRefused, CloseRefused, AcceptTCP,
                    Spawn, AcceptFails, ServeReturns, AcceptAgain, Connect,
                    HandlerEnds, HandlerDone, CallStop, WaitReturns, envVars,
                    Serving, Handling
      <3> QED BY <3>1 DEF ServeAdopt
    <2> QED BY <2>2 DEF IInv, StoppedIsClosed
  <1> QED BY <1>1, Invariance, PTL DEF Spec, NoAddDuringWait

=============================================================================
