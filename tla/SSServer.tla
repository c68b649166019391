------------------------------ MODULE SSServer ------------------------------
(***************************************************************************)
(* cmd/quick_ss/main.go: the server process.  RunSSServer and then, every  *)
(* few seconds, CheckUser fetch the access keys from the user database     *)
(* (api.GetUsers); when CheckUser thinks they have changed, doRun opens    *)
(* and closes ports and replaces the cipher lists.  Serve runs in          *)
(* goroutines of its own, so a port may be stopped before it was served.   *)
(* A supervisor restarts the process when it exits.                        *)
(*                                                                         *)
(* A Key is a whole api.Key (ID, port, cipher, secret); two keys that      *)
(* differ in any field are different.  Cipher lists are sets here: their   *)
(* order is CipherList's subject.                                          *)
(***************************************************************************)
EXTENDS Integers, FiniteSets

CONSTANTS
    Key,        \* access keys that may appear in the database
    Port,       \* port numbers
    PortOf,     \* Key.Port
    BadCipher,  \* the keys whose cipher NewCipher does not know
    LostRows    \* whether a query of the database may break off half way

ASSUME PortOfAssumption == PortOf \in [Key -> Port]
ASSUME BadCipherAssumption == BadCipher \subseteq Key
ASSUME KeyAssumption == IsFiniteSet(Key)
ASSUME LostRowsAssumption == LostRows \in BOOLEAN

VARIABLES
    remote,     \* the keys in the database
    node,       \* whether Init has learnt the node's ID
    pc,         \* where the goroutine that fetches and applies keys is
    booting,    \* whether it is still RunSSServer and not CheckUser
    users,      \* the keys last fetched
    hash,       \* CheckUser's map of the keys it has seen
    todo,       \* ports doRun has still to start, to remove or to update
    ports,      \* the keys of s.ports
    keysOf,     \* the cipher list of each port
    tcp,        \* state of the TCP listener of each port
    udp,        \* state of the UDP socket of each port
    failed,     \* history: whether the last doRun returned an error
    applied     \* history: the keys of the last doRun that did not

sockets == <<tcp, udp>>
outcome == <<failed, applied>>
vars == <<remote, node, pc, booting, users, hash, todo, ports, keysOf, tcp, udp,
          failed, applied>>

Wanted(U) == {PortOf[k] : k \in U}
KeysFor(U, p) == {k \in U : PortOf[k] = p}

-----------------------------------------------------------------------------

Init ==
    /\ remote = {}
    /\ pc = "down"
    /\ node = FALSE
    /\ booting = TRUE
    /\ users = {} /\ hash = {} /\ todo = {} /\ ports = {}
    /\ keysOf = [p \in Port |-> {}]
    /\ tcp = [p \in Port |-> "free"]
    /\ udp = [p \in Port |-> "free"]
    /\ failed = FALSE /\ applied = {}

\* The database changes under the server.
ChangeRemote(U) ==
    /\ remote' = U
    /\ UNCHANGED <<node, pc, booting, users, hash, todo, ports, keysOf, sockets,
                   outcome>>

\* The supervisor starts the process.  RunSSServer ignores an error of Init.
Start(known) ==
    /\ pc = "down"
    /\ pc' = "fetch"
    /\ node' = known
    /\ UNCHANGED <<remote, booting, users, hash, todo, ports, keysOf, sockets,
                   outcome>>

\* log.Fatal in GetUsers, logger.Fatal after a failed first doRun, or a signal:
\* the sockets go with the process.
Exit ==
    /\ pc # "down"
    /\ pc' = "down"
    /\ node' = FALSE
    /\ booting' = TRUE
    /\ users' = {} /\ hash' = {} /\ todo' = {} /\ ports' = {}
    /\ keysOf' = [p \in Port |-> {}]
    /\ tcp' = [p \in Port |-> "free"]
    /\ udp' = [p \in Port |-> "free"]
    /\ failed' = FALSE /\ applied' = {}
    /\ UNCHANGED remote

-----------------------------------------------------------------------------
(* Fetching.                                                               *)

\* The rows of this node; with an unknown node ID there are none.
Rows == IF node THEN remote ELSE {}

\* GetUsers returns the rows read before an error of the second query, which
\* nobody checks.
GetUsers(U) == IF LostRows THEN U \subseteq Rows ELSE U = Rows

\* RunSSServer applies what it gets.
FirstFetch(U) ==
    /\ pc = "fetch" /\ booting
    /\ GetUsers(U)
    /\ users' = U
    /\ pc' = "build"
    /\ UNCHANGED <<remote, node, booting, hash, todo, ports, keysOf, sockets,
                   outcome>>

\* What CheckUser's hash map makes of U.
Resized(U) == Cardinality(U) # Cardinality(hash)
Changed(U) == Resized(U) \/ ~(U \subseteq hash)

\* CheckUser clears the map if the number of keys differs, enters all keys, and
\* calls doRun if there was anything new.
CheckUser(U) ==
    /\ pc = "fetch" /\ ~booting
    /\ GetUsers(U)
    /\ users' = U
    /\ hash' = IF Resized(U) THEN U ELSE hash \cup U
    /\ pc' = IF Changed(U) THEN "build" ELSE "fetch"
    /\ UNCHANGED <<remote, node, booting, todo, ports, keysOf, sockets, outcome>>

-----------------------------------------------------------------------------
(* doRun.                                                                  *)

\* doRun returns an error: fatal at the start, ignored by CheckUser.
DoRunFails ==
    /\ pc' = IF booting THEN "exit" ELSE "fetch"
    /\ failed' = TRUE
    /\ UNCHANGED applied

\* "Failed to create cipher for key".
BuildFails ==
    /\ pc = "build"
    /\ users \cap BadCipher # {}
    /\ DoRunFails
    /\ UNCHANGED <<remote, node, booting, users, hash, todo, ports, keysOf,
                   sockets>>

\* Mutant of portChanges: every port is restarted.
portChangesAll == Wanted(users) \cup ports

\* A port that is both configured and open is left alone.
portChanges == (Wanted(users) \ ports) \cup (ports \ Wanted(users))

\* The new lists are built.
Build ==
    /\ pc = "build"
    /\ users \cap BadCipher = {}
    /\ todo' = portChanges
    /\ pc' = "ports"
    /\ UNCHANGED <<remote, node, booting, users, hash, ports, keysOf, sockets,
                   outcome>>

\* Stop of a service: a socket that Serve has adopted is closed at once, the
\* others when Serve comes to run.
AfterStop(state) == IF state = "serving" THEN "free" ELSE "stopping"

\* Both services are stopped and the entry is deleted, whatever Stop returns.
ClosePort(p) ==
    /\ pc = "ports" /\ p \in todo /\ p \in ports
    /\ ports' = ports \ {p}
    /\ tcp' = [tcp EXCEPT ![p] = AfterStop(@)]
    /\ udp' = [udp EXCEPT ![p] = AfterStop(@)]
    /\ keysOf' = [keysOf EXCEPT ![p] = {}]
    /\ UNCHANGED <<remote, node, booting, users, hash>>

removePort(p) ==
    /\ ClosePort(p)
    /\ todo' = todo \ {p}
    /\ UNCHANGED <<pc, outcome>>

\* The Close of a socket reports an error: doRun returns it, the port is gone.
RemoveFails(p) ==
    /\ "serving" \in {tcp[p], udp[p]}
    /\ ClosePort(p)
    /\ todo' = {}
    /\ DoRunFails

\* Mutant of FirstKeys: the port serves its new keys at once.
FirstKeysAll(p) == KeysFor(users, p)

\* A new port starts with an empty cipher list.
FirstKeys(p) == {}

startPort(p) ==
    /\ pc = "ports" /\ p \in todo /\ p \notin ports
    /\ tcp[p] = "free" /\ udp[p] = "free"
    /\ todo' = todo \ {p}
    /\ ports' = ports \cup {p}
    /\ tcp' = [tcp EXCEPT ![p] = "starting"]
    /\ udp' = [udp EXCEPT ![p] = "starting"]
    /\ keysOf' = [keysOf EXCEPT ![p] = FirstKeys(p)]
    /\ UNCHANGED <<remote, node, pc, booting, users, hash, outcome>>

\* ListenTCP fails: this process, or another, still has the port.
StartTCPFails(p) ==
    /\ pc = "ports" /\ p \in todo /\ p \notin ports
    /\ todo' = {}
    /\ DoRunFails
    /\ UNCHANGED <<remote, node, booting, users, hash, ports, keysOf, sockets>>

\* Mutant of HalfStarted: the port is entered before its sockets are open.
HalfStartedEntered(p) == ports \cup {p}

\* s.ports when startPort returns early.
HalfStarted(p) == ports

\* ListenUDP fails: startPort returns without closing the TCP listener.
StartUDPFails(p) ==
    /\ pc = "ports" /\ p \in todo /\ p \notin ports
    /\ tcp[p] = "free"
    /\ tcp' = [tcp EXCEPT ![p] = "orphan"]
    /\ todo' = {}
    /\ ports' = HalfStarted(p)
    /\ DoRunFails
    /\ UNCHANGED <<remote, node, booting, users, hash, keysOf, udp>>

\* Mutant of Updated: only the lists of the ports just started are set.
UpdatedNew == {p \in Wanted(users) : keysOf[p] = {}}

\* The ports that get their new list.
Updated == Wanted(users)

\* All ports are opened and closed: doRun turns to the lists.
PortsDone ==
    /\ pc = "ports" /\ todo = {}
    /\ todo' = Updated
    /\ pc' = "lists"
    /\ UNCHANGED <<remote, node, booting, users, hash, ports, keysOf, sockets,
                   outcome>>

\* One list is replaced, under its own lock: connections see it at once.
UpdateList(p) ==
    /\ pc = "lists" /\ p \in todo
    /\ keysOf' = [keysOf EXCEPT ![p] = KeysFor(users, p)]
    /\ todo' = todo \ {p}
    /\ UNCHANGED <<remote, node, pc, booting, users, hash, ports, sockets,
                   outcome>>

\* All lists are replaced: doRun succeeds.
DoRunReturns ==
    /\ pc = "lists" /\ todo = {}
    /\ pc' = "fetch"
    /\ booting' = FALSE
    /\ failed' = FALSE /\ applied' = users
    /\ UNCHANGED <<remote, node, users, hash, todo, ports, keysOf, sockets>>

-----------------------------------------------------------------------------
(* The Serve goroutines, and the garbage collector.                        *)

AfterServe(state) == IF state = "starting" THEN "serving" ELSE "free"

ServeTCP(p) ==
    /\ tcp[p] \in {"starting", "stopping"}
    /\ tcp' = [tcp EXCEPT ![p] = AfterServe(@)]
    /\ UNCHANGED <<remote, node, pc, booting, users, hash, todo, ports, keysOf,
                   udp, outcome>>

ServeUDP(p) ==
    /\ udp[p] \in {"starting", "stopping"}
    /\ udp' = [udp EXCEPT ![p] = AfterServe(@)]
    /\ UNCHANGED <<remote, node, pc, booting, users, hash, todo, ports, keysOf,
                   tcp, outcome>>

\* The finalizer of a listener nobody refers to closes it.
CollectListener(p) ==
    /\ tcp[p] = "orphan"
    /\ tcp' = [tcp EXCEPT ![p] = "free"]
    /\ UNCHANGED <<remote, node, pc, booting, users, hash, todo, ports, keysOf,
                   udp, outcome>>

-----------------------------------------------------------------------------

DoRun ==
    \/ BuildFails \/ Build \/ PortsDone \/ DoRunReturns
    \/ \E p \in Port : removePort(p) \/ RemoveFails(p)
    \/ \E p \in Port : startPort(p) \/ StartTCPFails(p) \/ StartUDPFails(p)
    \/ \E p \in Port : UpdateList(p)

Next ==
    \/ \E U \in SUBSET Key : ChangeRemote(U) \/ FirstFetch(U) \/ CheckUser(U)
    \/ \E known \in BOOLEAN : Start(known)
    \/ Exit
    \/ DoRun
    \/ \E p \in Port : ServeTCP(p) \/ ServeUDP(p) \/ CollectListener(p)

Spec == Init /\ [][Next]_vars

-----------------------------------------------------------------------------

TypeOK ==
    /\ remote \in SUBSET Key
    /\ node \in BOOLEAN /\ booting \in BOOLEAN /\ failed \in BOOLEAN
    /\ pc \in {"down", "fetch", "build", "ports", "lists", "exit"}
    /\ users \in SUBSET Key /\ hash \in SUBSET Key /\ applied \in SUBSET Key
    /\ todo \in SUBSET Port /\ ports \in SUBSET Port
    /\ keysOf \in [Port -> SUBSET Key]
    /\ tcp \in [Port -> {"free", "orphan", "starting", "serving", "stopping"}]
    /\ udp \in [Port -> {"free", "starting", "serving", "stopping"}]

\* After a doRun that succeeded, even if earlier ones failed half way, exactly
\* the configured ports are open and each has exactly its keys.
RunApplied ==
    pc = "fetch" /\ ~booting /\ ~failed =>
      /\ ports = Wanted(applied)
      /\ \A p \in Port : keysOf[p] = KeysFor(applied, p)

\* Handlers look at the lists at any time, also between the steps of doRun and
\* after one that failed.  A port accepts nothing, or all the keys of the last
\* successful doRun, or all the new ones; the new ones only once every port has
\* been opened and closed, when doRun can no longer fail.
NoHalfAppliedKeys ==
    \A p \in Port :
      \/ keysOf[p] \in {{}, KeysFor(applied, p)}
      \/ pc = "lists" /\ p \notin todo /\ keysOf[p] = KeysFor(users, p)

\* s.ports tells the truth about the sockets: an entry has both of its sockets,
\* and a port without entry has at most sockets that are on their way out or
\* were dropped by a startPort that failed.
SocketsMatchPorts ==
    \A p \in Port :
      IF p \in ports
        THEN tcp[p] \in {"starting", "serving"} /\ udp[p] \in {"starting", "serving"}
        ELSE /\ tcp[p] \in {"free", "stopping", "orphan"}
             /\ udp[p] \in {"free", "stopping"}

\* A key update does not disturb the ports it keeps: as long as the process
\* lives, a port that is open and configured is never closed.
KeptPortsStay ==
    [][\A p \in ports \cap Wanted(users') : pc' # "down" =>
         /\ p \in ports'
         /\ tcp[p] = "serving" => tcp'[p] = "serving"
         /\ udp[p] = "serving" => udp'[p] = "serving"]_vars

\* README.md: "Live updates via config change": between two fetches, and unless
\* doRun has failed, the server runs with the keys it fetched last.
UpdatesNotMissed ==
    pc = "fetch" /\ ~booting /\ ~failed => users = applied

=============================================================================
