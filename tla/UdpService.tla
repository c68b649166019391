----------------------------- MODULE UdpService -----------------------------
(***************************************************************************)
(* service/udp.go: the UDP relay of a port.  The Serve loop reads packets  *)
(* from clients and forwards each through the client's NAT entry, which it *)
(* creates on the first packet; a timedCopy goroutine per entry carries    *)
(* the answers back until the socket's read deadline passes, and then      *)
(* removes the entry.  The loop moves the deadline that the goroutine is   *)
(* waiting for, a DNS answer may bring it forward ("fast close"), and Stop *)
(* makes all deadlines pass.                                               *)
(*                                                                         *)
(* Time is counted in ticks.  Entry numbers stand for natconn pointers and *)
(* are used once each.  Keys and addresses are abstracted to whether a     *)
(* packet passes its checks.                                               *)
(***************************************************************************)
EXTENDS Integers, FiniteSets

CONSTANTS
    Client,        \* client addresses, the keys of the NAT map
    Stopper,       \* goroutines that call Stop or GracefulStop
    NoClient,      \* no packet at hand
    DnsTimeout,    \* 17 s, the timeout of RFC 5452
    NatTimeout,    \* natmap.timeout
    MaxEntries,    \* bound on the NAT entries created
    MaxTime        \* bound on the time at which clients send

ASSUME TimeoutAssumption ==
    /\ DnsTimeout \in Nat \ {0} /\ NatTimeout \in Nat \ {0}
    /\ DnsTimeout <= NatTimeout
ASSUME BoundsAssumption == MaxEntries \in Nat /\ MaxTime \in Nat

VARIABLES
    now,           \* the clock
    listening,     \* whether clientConn is open
    stopped,       \* s.stopped
    running,       \* the counter of the WaitGroup
    serve,         \* where the Serve loop is
    cur,           \* its targetConn (an entry, or 0 for nil)
    dns,           \* whether the packet at hand goes to port 53
    from,          \* the client the packet at hand came from
    keyConn,       \* the NAT map: an entry for each client, 0 if none
    entries,       \* number of entries created
    copier,        \* where the timedCopy goroutine of each entry is
    owner,         \* the client of each entry
    removed,       \* what the goroutine's m.del returned, 0 for nil
    socket,        \* whether the entry's socket is open
    readDeadline,  \* natconn.readDeadline, 0 for the zero time
    sockDeadline,  \* the deadline set on the socket, 0 for none
    fastClose,     \* whether the sync.Once has not been used yet
    due,           \* history: the latest deadline the entry's writes earned it
    writes,        \* what went through the entry: "none", one "dns" query, "other"
    stop           \* where each Stop or GracefulStop is

mapVars == <<keyConn, entries, owner, removed, socket>>
timeVars == <<readDeadline, sockDeadline, fastClose, due, writes>>
natVars == <<mapVars, copier, timeVars>>
loopVars == <<serve, cur, dns, from>>
lifeVars == <<listening, stopped, running, stop>>
vars == <<now, listening, stopped, running, serve, cur, dns, from, keyConn,
          entries, copier, owner, removed, socket, readDeadline,
          sockDeadline, fastClose, due, writes, stop>>

Entry == 1 .. MaxEntries
Alive(e) == copier[e] # "none" /\ copier[e] # "done"
Passed(e) == sockDeadline[e] # 0 /\ sockDeadline[e] <= now

-----------------------------------------------------------------------------

Init ==
    /\ now = 1
    /\ listening = TRUE
    /\ stopped = FALSE
    /\ running = 0
    /\ serve = "idle"
    /\ cur = 0
    /\ dns = FALSE
    /\ from = NoClient
    /\ keyConn = [c \in Client |-> 0]
    /\ entries = 0
    /\ copier = [e \in Entry |-> "none"]
    /\ owner = [e \in Entry |-> NoClient]
    /\ removed = [e \in Entry |-> 0]
    /\ socket = [e \in Entry |-> FALSE]
    /\ readDeadline = [e \in Entry |-> 0]
    /\ sockDeadline = [e \in Entry |-> 0]
    /\ fastClose = [e \in Entry |-> TRUE]
    /\ due = [e \in Entry |-> 0]
    /\ writes = [e \in Entry |-> "none"]
    /\ stop = [t \in Stopper |-> "idle"]

\* Time passes as long as clients may send or a deadline lies ahead.
Tick ==
    /\ now <= MaxTime \/ \E e \in Entry : Alive(e) /\ sockDeadline[e] > now
    /\ now' = now + 1
    /\ UNCHANGED <<natVars, loopVars, lifeVars>>

-----------------------------------------------------------------------------
(* The Serve loop.                                                         *)

\* Serve under s.mu.  After Stop it closes the connection and returns.
Serve ==
    /\ serve = "idle"
    /\ IF stopped
         THEN serve' = "returned" /\ listening' = FALSE /\ UNCHANGED running
         ELSE serve' = "read" /\ running' = running + 1 /\ UNCHANGED listening
    /\ UNCHANGED <<now, stopped, stop, natVars, cur, dns, from>>

\* The function that handles a packet returns; its variables are gone.
NextPacket ==
    /\ serve' = "read"
    /\ cur' = 0
    /\ dns' = FALSE
    /\ from' = NoClient

\* A packet is read and its client looked up: nm.Get.
Receive(c, toDns) ==
    /\ serve = "read" /\ listening
    /\ now <= MaxTime
    /\ from' = c
    /\ dns' = toDns
    /\ cur' = keyConn[c]
    /\ serve' = "lookedUp"
    /\ UNCHANGED <<now, natVars, lifeVars>>

\* ERR_CIPHER, ERR_READ_ADDRESS, ERR_RESOLVE_ADDRESS, an address the validator
\* rejects, or ERR_CREATE_SOCKET: the packet is dropped.
DropPacket ==
    /\ serve = "lookedUp"
    /\ NextPacket
    /\ UNCHANGED <<now, natVars, lifeVars>>

\* Mutant of Started: the goroutine is not counted.
StartedUncounted == running

\* running.Add(1).
Started == running + 1

\* nm.Add for a client without an entry: set, running.Add, go.
AddEntry ==
    /\ serve = "lookedUp" /\ cur = 0
    /\ entries < MaxEntries
    /\ LET e == entries + 1
       IN  /\ entries' = e
           /\ cur' = e
           /\ keyConn' = [keyConn EXCEPT ![from] = e]
           /\ owner' = [owner EXCEPT ![e] = from]
           /\ copier' = [copier EXCEPT ![e] = "read"]
           /\ socket' = [socket EXCEPT ![e] = TRUE]
    /\ running' = Started
    /\ serve' = "onWrite"
    /\ UNCHANGED <<now, dns, from, removed, timeVars, listening, stopped, stop>>

\* The packet decrypts with the cipher of the client's entry.
UseEntry ==
    /\ serve = "lookedUp" /\ cur # 0
    /\ serve' = "onWrite"
    /\ UNCHANGED <<now, natVars, lifeVars, cur, dns, from>>

\* onWrite: "Fast close is only allowed if there has been exactly one write, and
\* it was a DNS query."
OnWrite ==
    /\ serve = "onWrite"
    /\ fastClose' =
         [fastClose EXCEPT ![cur] = @ /\ dns /\ readDeadline[cur] = 0]
    /\ serve' = "setDeadline"
    /\ UNCHANGED <<now, lifeVars, cur, dns, from, mapVars, copier, readDeadline,
                   sockDeadline, due, writes>>

newDeadline == now + (IF dns THEN DnsTimeout ELSE NatTimeout)

\* History of the write.
Wrote ==
    /\ writes' = [writes EXCEPT ![cur] =
                    IF @ = "none" /\ dns THEN "dns" ELSE "other"]
    /\ due' = [due EXCEPT ![cur] = IF newDeadline > @ THEN newDeadline ELSE @]

\* Mutant of After: the deadline is set whether it is later or not.
AfterOrNot == TRUE

\* Two writes in one tick are still apart on the real clock, so an equal deadline
\* is a later one.
After == newDeadline >= readDeadline[cur]

\* Mutant of SetReadDeadline: the socket is not told of the deadline.
SetReadDeadlineNot == sockDeadline[cur]

SetReadDeadline == newDeadline

\* The rest of onWrite: the deadline is only ever moved back.
SetDeadline ==
    /\ serve = "setDeadline"
    /\ IF After
         THEN /\ readDeadline' = [readDeadline EXCEPT ![cur] = newDeadline]
              /\ sockDeadline' = [sockDeadline EXCEPT ![cur] = SetReadDeadline]
         ELSE UNCHANGED <<readDeadline, sockDeadline>>
    /\ Wrote
    /\ serve' = "send"
    /\ UNCHANGED <<now, lifeVars, cur, dns, from, mapVars, copier, fastClose>>

\* PacketConn.WriteTo, which fails if the entry was closed meanwhile.
WriteTo ==
    /\ serve = "send"
    /\ NextPacket
    /\ UNCHANGED <<now, natVars, lifeVars>>

\* ReadFrom fails.  Only a stopped service leaves the loop; otherwise the panic
\* on the nil address is recovered and the loop goes on.
ReadFails ==
    /\ serve = "read"
    /\ stopped
    /\ serve' = "close"
    /\ UNCHANGED <<now, natVars, lifeVars, cur, dns, from>>

\* Mutant of Mapped: the entries are left to their own deadlines.
MappedNot(e) == FALSE

\* The entries nm.Close ranges over.
Mapped(e) == \E c \in Client : keyConn[c] = e

\* The deferred nm.Close: every entry still in the map expires now.
NatClose ==
    /\ serve = "close"
    /\ sockDeadline' = [e \in Entry |-> IF Mapped(e) THEN now ELSE sockDeadline[e]]
    /\ serve' = "closed"
    /\ UNCHANGED <<now, lifeVars, cur, dns, from, mapVars, copier, readDeadline,
                   fastClose, due, writes>>

\* The deferred running.Done.
ServeReturns ==
    /\ serve = "closed"
    /\ serve' = "returned"
    /\ running' = running - 1
    /\ UNCHANGED <<now, natVars, cur, dns, from, listening, stopped, stop>>

-----------------------------------------------------------------------------
(* timedCopy and the rest of the entry's goroutine.                        *)

\* A packet arrives on the entry's socket, from port 53 or from another, and
\* onRead runs: the Once is used up, and closes if the sender is a DNS server.
\* Sending the packet on to the client changes nothing here.
ReadFrom(e, fromDns) ==
    /\ copier[e] = "read" /\ ~Passed(e)
    /\ writes[e] # "none"
    /\ fastClose' = [fastClose EXCEPT ![e] = FALSE]
    /\ sockDeadline' = [sockDeadline EXCEPT ![e] =
                          IF fastClose[e] /\ fromDns THEN now ELSE @]
    /\ UNCHANGED <<now, loopVars, lifeVars, mapVars, copier, readDeadline, due,
                   writes>>

\* The read times out: the copy is over.
CopyExpires(e) ==
    /\ copier[e] = "read" /\ Passed(e)
    /\ copier' = [copier EXCEPT ![e] = "expired"]
    /\ UNCHANGED <<now, loopVars, lifeVars, mapVars, timeVars>>

\* Mutant of Without: the entry stays in the map.
WithoutNothing(c) == keyConn

Without(c) == [keyConn EXCEPT ![c] = 0]

\* m.del removes whatever entry the map has for the client.
Del(e) ==
    /\ copier[e] = "expired"
    /\ copier' = [copier EXCEPT ![e] = "deleted"]
    /\ removed' = [removed EXCEPT ![e] = keyConn[owner[e]]]
    /\ keyConn' = Without(owner[e])
    /\ UNCHANGED <<now, loopVars, lifeVars, entries, owner, socket, timeVars>>

\* pc.Close of the entry that was removed, then running.Done.
CloseEntry(e) ==
    /\ copier[e] = "deleted"
    /\ copier' = [copier EXCEPT ![e] = "done"]
    /\ socket' = [f \in Entry |-> socket[f] /\ f # removed[e]]
    /\ running' = running - 1
    /\ UNCHANGED <<now, loopVars, listening, stopped, stop, keyConn, entries,
                   owner, removed, timeVars>>

-----------------------------------------------------------------------------
(* Stop and GracefulStop.                                                  *)

\* Stop closes clientConn if Serve has adopted it; GracefulStop goes on to wait.
CallStop(t, next) ==
    /\ stop[t] = "idle"
    /\ stopped' = TRUE
    /\ listening' = (listening /\ serve = "idle")
    /\ stop' = [stop EXCEPT ![t] = next]
    /\ UNCHANGED <<now, natVars, loopVars, running>>

WaitReturns(t) ==
    /\ stop[t] = "waiting"
    /\ running = 0
    /\ stop' = [stop EXCEPT ![t] = "done"]
    /\ UNCHANGED <<now, natVars, loopVars, listening, stopped, running>>

-----------------------------------------------------------------------------

Loop ==
    \/ DropPacket \/ AddEntry \/ UseEntry
    \/ OnWrite \/ SetDeadline \/ WriteTo
    \/ ReadFails \/ NatClose \/ ServeReturns

Copy(e) == CopyExpires(e) \/ Del(e) \/ CloseEntry(e)

Next ==
    \/ Tick
    \/ Serve
    \/ \E c \in Client, toDns \in BOOLEAN : Receive(c, toDns)
    \/ Loop
    \/ \E e \in Entry : Copy(e) \/ \E fromDns \in BOOLEAN : ReadFrom(e, fromDns)
    \/ \E t \in Stopper :
         (\E next \in {"stopped", "waiting"} : CallStop(t, next)) \/ WaitReturns(t)

Spec == Init /\ [][Next]_vars

\* The goroutines run.  Packets need not arrive, and time need not pass.
Fairness ==
    /\ WF_vars(Loop)
    /\ \A e \in Entry : WF_vars(Copy(e))
    /\ \A t \in Stopper : WF_vars(WaitReturns(t))

FairSpec == Spec /\ Fairness

-----------------------------------------------------------------------------

TypeOK ==
    /\ now \in Nat
    /\ listening \in BOOLEAN /\ stopped \in BOOLEAN /\ dns \in BOOLEAN
    /\ running \in Nat
    /\ serve \in {"idle", "read", "lookedUp", "onWrite", "setDeadline", "send",
                  "close", "closed", "returned"}
    /\ cur \in 0 .. MaxEntries
    /\ from \in Client \cup {NoClient}
    /\ keyConn \in [Client -> 0 .. MaxEntries]
    /\ entries \in 0 .. MaxEntries
    /\ copier \in [Entry -> {"none", "read", "expired", "deleted", "done"}]
    /\ owner \in [Entry -> Client \cup {NoClient}]
    /\ removed \in [Entry -> 0 .. MaxEntries]
    /\ socket \in [Entry -> BOOLEAN]
    /\ readDeadline \in [Entry -> Nat]
    /\ sockDeadline \in [Entry -> Nat]
    /\ fastClose \in [Entry -> BOOLEAN]
    /\ due \in [Entry -> Nat]
    /\ writes \in [Entry -> {"none", "dns", "other"}]
    /\ stop \in [Stopper -> {"idle", "stopped", "waiting", "done"}]

\* The map and the goroutines agree, although del takes a client address and not
\* an entry: an entry is in the map, under its own client, until its goroutine
\* removes it, so a client never has two entries and no goroutine removes
\* another one's.  Its socket is open as long as the goroutine is there to read
\* from it, and no longer.
MapMatchesCopiers ==
    \A e \in Entry :
      /\ copier[e] \in {"read", "expired"} => keyConn[owner[e]] = e
      /\ copier[e] \in {"deleted", "done"} => removed[e] = e
      /\ copier[e] \in {"none", "deleted", "done"} => \A c \in Client : keyConn[c] # e
      /\ socket[e] <=> Alive(e)

\* "GracefulStop calls Stop(), and then blocks until all resources have been
\* cleaned up".
GracefulStopCleansUp ==
    (\E t \in Stopper : stop[t] = "done") =>
      /\ serve \in {"idle", "returned"}
      /\ \A e \in Entry : ~socket[e]
      /\ \A c \in Client : keyConn[c] = 0

\* onWrite's promises: an entry expires early, before the deadline its writes
\* have earned it, only on a DNS answer after exactly one write that was a DNS
\* query, or because the service is being stopped.
NoEarlyExpiry ==
    [][\A e \in Entry : copier[e] = "read" /\ copier'[e] = "expired" =>
         \/ now >= due[e]
         \/ writes[e] = "dns" /\ ~fastClose[e]
         \/ stopped]_vars

\* GracefulStop returns without waiting for the NAT timeouts: even if the clock
\* stood still, the deadlines set by nm.Close let every goroutine go.
GracefulStopReturns ==
    \A t \in Stopper : stop[t] = "waiting" ~> stop[t] = "done"

\* If time passes, then once its client falls silent an entry is removed and its
\* socket closed.
EntriesExpire ==
    WF_vars(Tick) => \A e \in Entry : socket[e] ~> ~socket[e]

=============================================================================
