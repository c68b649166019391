--------------------------- MODULE SSServerProofs ---------------------------
(***************************************************************************)
(* For any keys and ports, however often fetches, listeners and doRun fail *)
(* and the process is restarted: what the server runs is what the last     *)
(* successful doRun was given, s.ports tells the truth about the sockets,  *)
(* and an update leaves the ports it keeps alone.                          *)
(***************************************************************************)
EXTENDS SSServer, TLAPS

\* A port without entry has no keys.
ClosedPortsHaveNoKeys ==
    \A p \in Port : p \notin ports => keysOf[p] = {}

\* While doRun is at the ports, what it has still to do is what separates
\* s.ports from the keys it was given.
TodoIsTheDifference ==
    pc = "ports" => todo = portChanges

\* Then it replaces the lists of the ports it was given, which are the open ones:
\* what it has still to do are the lists it has not replaced.
TodoIsTheOldLists ==
    pc = "lists" =>
      /\ ports = Wanted(users)
      /\ \A p \in ports \ todo : keysOf[p] = KeysFor(users, p)

\* A process that is not there has not booted.
DownIsBooting == pc = "down" => booting

\* The inductive invariant.  RunApplied speaks of the end of doRun: that the
\* ports are the configured ones by then is TodoIsTheDifference, that each has
\* its list TodoIsTheOldLists, and that no other port has keys
\* ClosedPortsHaveNoKeys.
IInv ==
    /\ TypeOK
    /\ ClosedPortsHaveNoKeys
    /\ TodoIsTheDifference
    /\ TodoIsTheOldLists
    /\ DownIsBooting
    /\ RunApplied
    /\ NoHalfAppliedKeys
    /\ SocketsMatchPorts

-----------------------------------------------------------------------------

\* The keys of a port are keys, and a port nobody configured has none.
LEMMA KeysForFacts ==
    ASSUME NEW U \in SUBSET Key
    PROVE  /\ Wanted(U) \in SUBSET Port
           /\ \A p \in Port : KeysFor(U, p) \in SUBSET Key
           /\ \A p \in Port : p \notin Wanted(U) => KeysFor(U, p) = {}
  BY PortOfAssumption DEF Wanted, KeysFor

\* The inductive invariant holds at the start.
LEMMA InitIInv == Init => IInv
  BY DEF Init, IInv, TypeOK, ClosedPortsHaveNoKeys, TodoIsTheDifference, TodoIsTheOldLists,
         DownIsBooting, RunApplied, NoHalfAppliedKeys, KeysFor, SocketsMatchPorts

\* Changes outside of doRun: the database, the supervisor, the fetches.
LEMMA FetchIInv ==
    ASSUME IInv, NEW U \in SUBSET Key,
           ChangeRemote(U) \/ FirstFetch(U) \/ CheckUser(U)
    PROVE  IInv'
  <1> USE DEF IInv
  <1>1. CASE ChangeRemote(U)
    BY <1>1 DEF ChangeRemote, sockets, outcome, TypeOK, ClosedPortsHaveNoKeys,
                TodoIsTheDifference, TodoIsTheOldLists, portChanges, Wanted, DownIsBooting,
                RunApplied, NoHalfAppliedKeys, KeysFor, SocketsMatchPorts
  <1>2. CASE FirstFetch(U)
    BY <1>2 DEF FirstFetch, sockets, outcome, TypeOK, ClosedPortsHaveNoKeys,
                TodoIsTheDifference, TodoIsTheOldLists, DownIsBooting, RunApplied,
                NoHalfAppliedKeys, KeysFor, SocketsMatchPorts
  <1>3. CASE CheckUser(U)
    BY <1>3 DEF CheckUser, sockets, outcome, TypeOK, ClosedPortsHaveNoKeys,
                TodoIsTheDifference, TodoIsTheOldLists, DownIsBooting, RunApplied,
                NoHalfAppliedKeys, KeysFor, SocketsMatchPorts
  <1> QED BY <1>1, <1>2, <1>3

\* The process is started, or goes away with all it had.
LEMMA ProcessIInv ==
    ASSUME IInv, Exit \/ \E known \in BOOLEAN : Start(known)
    PROVE  IInv'
  <1>1. CASE Exit
    BY <1>1 DEF Exit, IInv, TypeOK, ClosedPortsHaveNoKeys, TodoIsTheDifference, TodoIsTheOldLists,
                DownIsBooting, RunApplied, NoHalfAppliedKeys, KeysFor, SocketsMatchPorts
  <1>2. ASSUME NEW known \in BOOLEAN, Start(known) PROVE IInv'
    BY <1>2 DEF Start, sockets, outcome, IInv, TypeOK, ClosedPortsHaveNoKeys,
                TodoIsTheDifference, TodoIsTheOldLists, DownIsBooting, RunApplied,
                NoHalfAppliedKeys, KeysFor, SocketsMatchPorts
  <1> QED BY <1>1, <1>2

\* Closing a port, whether or not Stop reports an error.
LEMMA ClosePortFacts ==
    ASSUME IInv, NEW p \in Port, ClosePort(p), UNCHANGED applied,
           pc' # "lists", todo' \in SUBSET Port
    PROVE  /\ ports' \in SUBSET Port
           /\ keysOf' \in [Port -> SUBSET Key]
           /\ tcp' \in [Port -> {"free", "orphan", "starting", "serving", "stopping"}]
           /\ udp' \in [Port -> {"free", "starting", "serving", "stopping"}]
           /\ ClosedPortsHaveNoKeys'
           /\ NoHalfAppliedKeys'
           /\ SocketsMatchPorts'
  <1> USE DEF IInv, ClosePort
  <1>1. /\ ports' \in SUBSET Port
        /\ keysOf' \in [Port -> SUBSET Key]
        /\ tcp' \in [Port -> {"free", "orphan", "starting", "serving", "stopping"}]
        /\ udp' \in [Port -> {"free", "starting", "serving", "stopping"}]
    BY DEF AfterStop, TypeOK
  <1>2. ClosedPortsHaveNoKeys' /\ NoHalfAppliedKeys'
    BY DEF TypeOK, ClosedPortsHaveNoKeys, NoHalfAppliedKeys, KeysFor
  <1>3. SocketsMatchPorts'
    BY DEF AfterStop, TypeOK, SocketsMatchPorts
  <1> QED BY <1>1, <1>2, <1>3

\* doRun returns an error before it has replaced a list: the keys stay those of
\* the last success, and RunApplied promises nothing until the next one.
LEMMA FailIInv ==
    ASSUME IInv,
           \/ BuildFails
           \/ \E p \in Port : RemoveFails(p) \/ StartTCPFails(p) \/ StartUDPFails(p)
    PROVE  IInv'
  <1> USE DEF IInv, DoRunFails
  <1>1. CASE BuildFails
    BY <1>1 DEF BuildFails, sockets, TypeOK, ClosedPortsHaveNoKeys,
                TodoIsTheDifference, TodoIsTheOldLists, DownIsBooting, RunApplied,
                NoHalfAppliedKeys, KeysFor, SocketsMatchPorts
  <1>2. ASSUME NEW p \in Port, StartTCPFails(p) PROVE IInv'
    BY <1>2 DEF StartTCPFails, sockets, TypeOK, ClosedPortsHaveNoKeys,
                TodoIsTheDifference, TodoIsTheOldLists, DownIsBooting, RunApplied,
                NoHalfAppliedKeys, KeysFor, SocketsMatchPorts
  <1>3. ASSUME NEW p \in Port, StartUDPFails(p) PROVE IInv'
    BY <1>3 DEF StartUDPFails, HalfStarted, TypeOK, ClosedPortsHaveNoKeys,
                TodoIsTheDifference, TodoIsTheOldLists, DownIsBooting, RunApplied,
                NoHalfAppliedKeys, KeysFor, SocketsMatchPorts
  <1>4. ASSUME NEW p \in Port, RemoveFails(p) PROVE IInv'
    <2>1. /\ ClosePort(p) /\ UNCHANGED applied /\ todo' = {}
          /\ pc' \in {"exit", "fetch"} /\ failed' = TRUE
      BY <1>4 DEF RemoveFails
    <2> QED
      BY <2>1, ClosePortFacts DEF ClosePort, TypeOK, TodoIsTheDifference,
         TodoIsTheOldLists, DownIsBooting, RunApplied
  <1> QED BY <1>1, <1>2, <1>3, <1>4

\* doRun opens and closes ports: each one takes it closer to the keys it has.
LEMMA PortIInv ==
    ASSUME IInv, Build \/ \E p \in Port : removePort(p) \/ startPort(p)
    PROVE  IInv'
  <1> USE DEF IInv, outcome
  <1>1. CASE Build
    <2>1. portChanges \in SUBSET Port
      BY KeysForFacts DEF portChanges, TypeOK
    <2> QED
      BY <1>1, <2>1 DEF Build, sockets, TypeOK, ClosedPortsHaveNoKeys,
                TodoIsTheDifference, TodoIsTheOldLists, portChanges, Wanted, DownIsBooting,
                RunApplied, NoHalfAppliedKeys, KeysFor, SocketsMatchPorts
  <1>2. ASSUME NEW p \in Port, removePort(p) PROVE IInv'
    <2>1. /\ ClosePort(p) /\ todo' = todo \ {p} /\ pc' = pc
          /\ UNCHANGED <<failed, applied>>
      BY <1>2 DEF removePort
    <2>2. TypeOK' /\ ClosedPortsHaveNoKeys' /\ NoHalfAppliedKeys' /\ SocketsMatchPorts'
      BY <2>1, ClosePortFacts DEF ClosePort, TypeOK
    <2>3. /\ TodoIsTheDifference' /\ TodoIsTheOldLists' /\ DownIsBooting'
          /\ RunApplied'
      BY <2>1 DEF ClosePort, TypeOK, TodoIsTheDifference, TodoIsTheOldLists,
                  portChanges, Wanted, DownIsBooting, RunApplied
    <2> QED BY <2>2, <2>3
  <1>3. ASSUME NEW p \in Port, startPort(p) PROVE IInv'
    <2>1. TypeOK'
      BY <1>3 DEF startPort, FirstKeys, TypeOK
    <2>2. ClosedPortsHaveNoKeys' /\ NoHalfAppliedKeys'
      BY <1>3 DEF startPort, FirstKeys, TypeOK, ClosedPortsHaveNoKeys,
                  NoHalfAppliedKeys, KeysFor
    <2>3. TodoIsTheDifference' /\ TodoIsTheOldLists' /\ DownIsBooting' /\ RunApplied'
      BY <1>3 DEF startPort, TypeOK, TodoIsTheDifference, TodoIsTheOldLists, portChanges, Wanted,
                  DownIsBooting, RunApplied
    <2>4. SocketsMatchPorts'
      BY <1>3 DEF startPort, TypeOK, SocketsMatchPorts
    <2> QED BY <2>1, <2>2, <2>3, <2>4
  <1> QED BY <1>1, <1>2, <1>3

\* With no port left to open or close, the open ports are the configured ones;
\* the lists are replaced, and the ports that are not open had no keys before.
LEMMA UpdateIInv ==
    ASSUME IInv, PortsDone \/ DoRunReturns \/ \E p \in Port : UpdateList(p)
    PROVE  IInv'
  <1> USE DEF IInv, outcome, sockets
  <1>1. CASE PortsDone
    <2>1. ports = Wanted(users)
      BY <1>1 DEF PortsDone, TypeOK, TodoIsTheDifference, portChanges
    <2>2. TypeOK' /\ TodoIsTheOldLists'
      BY <1>1, <2>1, KeysForFacts DEF PortsDone, Updated, TypeOK,
         TodoIsTheOldLists, Wanted
    <2> QED
      BY <1>1, <2>2 DEF PortsDone, ClosedPortsHaveNoKeys, TodoIsTheDifference,
         DownIsBooting, RunApplied, NoHalfAppliedKeys, KeysFor, SocketsMatchPorts
  <1>2. ASSUME NEW p \in Port, UpdateList(p) PROVE IInv'
    <2> USE <1>2 DEF UpdateList
    <2>1. TypeOK'
      BY KeysForFacts DEF TypeOK
    <2>2. ClosedPortsHaveNoKeys'
      BY KeysForFacts DEF TypeOK, ClosedPortsHaveNoKeys, TodoIsTheOldLists
    <2>3. TodoIsTheOldLists' /\ NoHalfAppliedKeys'
      BY DEF TypeOK, TodoIsTheOldLists, NoHalfAppliedKeys, KeysFor, Wanted
    <2> QED
      BY <2>1, <2>2, <2>3 DEF TodoIsTheDifference, DownIsBooting, RunApplied,
         SocketsMatchPorts
  <1>3. CASE DoRunReturns
    <2> USE <1>3 DEF DoRunReturns
    <2>1. ports = Wanted(users)
      BY DEF TodoIsTheOldLists
    <2>2. \A p \in Port : keysOf[p] = KeysFor(users, p)
      BY <2>1, KeysForFacts DEF TypeOK, TodoIsTheOldLists, ClosedPortsHaveNoKeys
    <2>3. RunApplied' /\ NoHalfAppliedKeys'
      BY <2>1, <2>2 DEF RunApplied, NoHalfAppliedKeys, Wanted, KeysFor
    <2> QED
      BY <2>3 DEF TypeOK, ClosedPortsHaveNoKeys, TodoIsTheDifference,
         TodoIsTheOldLists, DownIsBooting, SocketsMatchPorts
  <1> QED BY <1>1, <1>2, <1>3

\* The Serve goroutines and the collector.
LEMMA ServeIInv ==
    ASSUME IInv, NEW p \in Port,
           ServeTCP(p) \/ ServeUDP(p) \/ CollectListener(p)
    PROVE  IInv'
  <1> USE DEF IInv, outcome, AfterServe
  <1>1. UNCHANGED <<pc, booting, users, todo, ports, keysOf, outcome>>
    BY DEF ServeTCP, ServeUDP, CollectListener
  <1>2. TypeOK'
    BY DEF ServeTCP, ServeUDP, CollectListener, TypeOK
  <1>3. SocketsMatchPorts'
    BY DEF ServeTCP, ServeUDP, CollectListener, TypeOK, SocketsMatchPorts
  <1>4. /\ ClosedPortsHaveNoKeys' /\ TodoIsTheDifference' /\ TodoIsTheOldLists' /\ DownIsBooting'
        /\ RunApplied' /\ NoHalfAppliedKeys'
    BY <1>1 DEF ClosedPortsHaveNoKeys, TodoIsTheDifference, TodoIsTheOldLists, portChanges, Wanted,
                DownIsBooting, RunApplied, NoHalfAppliedKeys, KeysFor
  <1> QED BY <1>2, <1>3, <1>4

\* Every step preserves the inductive invariant.
LEMMA NextIInv ==
    ASSUME IInv, [Next]_vars
    PROVE  IInv'
  <1>1. CASE Next
    BY <1>1, FetchIInv, ProcessIInv, FailIInv, PortIInv, UpdateIInv, ServeIInv,
       Zenon DEF Next, DoRun
  <1>2. CASE UNCHANGED vars
    BY <1>2 DEF vars, IInv, TypeOK, ClosedPortsHaveNoKeys, TodoIsTheDifference, TodoIsTheOldLists,
                portChanges, Wanted, KeysFor, DownIsBooting, RunApplied,
                NoHalfAppliedKeys, KeysFor, SocketsMatchPorts
  <1> QED BY <1>1, <1>2

-----------------------------------------------------------------------------

\* The inductive invariant holds of every behaviour.
THEOREM Invariant == Spec => []IInv
  BY InitIInv, NextIInv, PTL DEF Spec

\* The variables have their types.
THEOREM TypeCorrect == Spec => []TypeOK
  BY Invariant, PTL DEF IInv

\* After a doRun that succeeded, whatever failed before it, exactly the
\* configured ports are open and each accepts exactly its keys.
THEOREM RunsWhatWasApplied == Spec => []RunApplied
  BY Invariant, PTL DEF IInv

\* At every moment, also between the list updates of a doRun and after one that
\* failed half way, a port accepts no keys, all its old ones or all its new ones,
\* and new ones only when doRun can no longer fail.
THEOREM NeverHalfApplied == Spec => []NoHalfAppliedKeys
  BY Invariant, PTL DEF IInv

\* s.ports tells the truth about the sockets, also after startPort has failed
\* between its two listeners.
THEOREM PortsTellTheTruth == Spec => []SocketsMatchPorts
  BY Invariant, PTL DEF IInv

\* What a step may do to a port that is open and configured afterwards.
Kept(p) ==
    /\ p \in ports'
    /\ tcp[p] = "serving" => tcp'[p] = "serving"
    /\ udp[p] = "serving" => udp'[p] = "serving"

\* The ports removed are not configured and the ports started were not open, so
\* no step disturbs a port that is both.
LEMMA KeptPortsStep ==
    ASSUME IInv, [Next]_vars, pc' # "down",
           NEW p \in ports \cap Wanted(users')
    PROVE  Kept(p)
  <1> USE DEF IInv, Kept, sockets
  <1>1. CASE \E U \in SUBSET Key : ChangeRemote(U) \/ FirstFetch(U) \/ CheckUser(U)
    BY <1>1 DEF ChangeRemote, FirstFetch, CheckUser
  <1>2. CASE (\E known \in BOOLEAN : Start(known)) \/ BuildFails \/ Build
    BY <1>2 DEF Start, BuildFails, Build
  <1>3. CASE PortsDone \/ DoRunReturns \/ \E q \in Port : UpdateList(q)
    BY <1>3 DEF PortsDone, DoRunReturns, UpdateList
  <1>4. ASSUME NEW q \in Port, removePort(q) \/ RemoveFails(q)
        PROVE  Kept(p)
    <2>1. ClosePort(q)
      BY <1>4 DEF removePort, RemoveFails
    <2>2. p # q
      BY <2>1 DEF ClosePort, TodoIsTheDifference, portChanges
    <2> QED BY <2>1, <2>2 DEF ClosePort, TypeOK
  <1>5. ASSUME NEW q \in Port, startPort(q) \/ StartTCPFails(q) \/ StartUDPFails(q)
        PROVE  Kept(p)
    BY <1>5 DEF startPort, StartTCPFails, StartUDPFails, HalfStarted, TypeOK
  <1>6. ASSUME NEW q \in Port, ServeTCP(q) \/ ServeUDP(q) \/ CollectListener(q)
        PROVE  Kept(p)
    BY <1>6 DEF ServeTCP, ServeUDP, CollectListener, TypeOK
  <1>7. CASE UNCHANGED vars
    BY <1>7 DEF vars
  <1>8. ~ Exit
    BY DEF Exit
  <1> QED BY <1>1, <1>2, <1>3, <1>4, <1>5, <1>6, <1>7, <1>8 DEF Next, DoRun

\* As long as the process lives, a port that is open and configured is never
\* closed: a key update does not disturb the ports it keeps.
THEOREM KeptPortsAreKept == Spec => KeptPortsStay
  <1>1. IInv /\ [Next]_vars =>
          [\A p \in ports \cap Wanted(users') : pc' # "down" =>
             /\ p \in ports'
             /\ tcp[p] = "serving" => tcp'[p] = "serving"
             /\ udp[p] = "serving" => udp'[p] = "serving"]_vars
    BY KeptPortsStep DEF Kept
  <1> QED BY <1>1, Invariant, PTL DEF Spec, KeptPortsStay

=============================================================================
