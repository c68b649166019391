-------------------------- MODULE UdpServiceProofs --------------------------
(***************************************************************************)
(* For any number of clients, NAT entries and callers of Stop and          *)
(* GracefulStop, and for any timeouts: the NAT map and the goroutines      *)
(* agree, nothing is left when GracefulStop returns, and no entry expires  *)
(* before its time unless onRead or Stop says so.                          *)
(***************************************************************************)
EXTENDS UdpService, FiniteSetTheorems, TLAPS

\* The entries are created in order, each for a client.
EntriesInOrder ==
    \A e \in Entry :
      /\ copier[e] = "none" <=> e > entries
      /\ copier[e] # "none" => owner[e] \in Client

\* An entry is only ever found under its own client.
MappedToOwner ==
    \A c \in Client, e \in Entry : keyConn[c] = e => owner[e] = c

\* What the Serve loop knows of the packet at hand.  The entry it has looked up
\* may be gone by now, but where it found none there is still none.
PacketAtHand ==
    /\ serve = "lookedUp" =>
         from \in Client /\ (cur = 0 => keyConn[from] = 0)
    /\ serve \in {"onWrite", "setDeadline", "send"} => cur # 0
    /\ cur # 0 => cur \in 1 .. entries

\* The goroutines, and the loop, that the WaitGroup counts.
Copying == {e \in Entry : Alive(e)}
Looping == IF serve \in {"idle", "returned"} THEN 0 ELSE 1

RunningCounts == running = Cardinality(Copying) + Looping

\* The loop ends only after Stop, and Wait returns only when nothing runs.
StopOrder ==
    /\ serve \in {"close", "closed"} => stopped
    /\ \A t \in Stopper : stop[t] # "idle" => stopped
    /\ \A t \in Stopper : stop[t] = "done" => running = 0

\* MapMatchesCopiers of one entry.
Matches(e) ==
    /\ copier[e] \in {"read", "expired"} => keyConn[owner[e]] = e
    /\ copier[e] \in {"deleted", "done"} => removed[e] = e
    /\ copier[e] \in {"none", "deleted", "done"} => \A c \in Client : keyConn[c] # e
    /\ socket[e] <=> Alive(e)

\* The invariant behind the two safety properties of the map.
MapInv ==
    /\ TypeOK
    /\ EntriesInOrder
    /\ MappedToOwner
    /\ MapMatchesCopiers
    /\ PacketAtHand
    /\ RunningCounts
    /\ StopOrder

\* readDeadline is what the writes have earned, and not zero once there was one.
\* A single DNS query cannot have earned more than the next write will.
DeadlineIsDue ==
    \A e \in Entry :
      /\ readDeadline[e] = due[e]
      /\ readDeadline[e] = 0 <=> writes[e] = "none"
      /\ writes[e] = "dns" => readDeadline[e] <= now + DnsTimeout

\* Fast close is still possible only before the first write is complete, or after
\* exactly one write that was a DNS query.
FastCloseAllowed ==
    /\ \A e \in Entry : fastClose[e] => writes[e] # "other"
    /\ serve = "setDeadline" /\ fastClose[cur] => dns /\ writes[cur] = "none"

\* The socket's deadline is the one earned unless it was brought forward.
DeadlineEarned ==
    \A e \in Entry :
      \/ sockDeadline[e] >= due[e]
      \/ writes[e] = "dns" /\ ~fastClose[e]
      \/ stopped

\* The invariant behind NoEarlyExpiry.
TimeInv == DeadlineIsDue /\ FastCloseAllowed /\ DeadlineEarned

\* The inductive invariant.
IInv == MapInv /\ TimeInv

-----------------------------------------------------------------------------
(* Counting.                                                               *)

\* The counted goroutines are finitely many.
LEMMA Counting ==
    /\ IsFiniteSet(Copying) /\ Cardinality(Copying) \in Nat
    /\ IsFiniteSet(Copying') /\ Cardinality(Copying') \in Nat
  <1>1. IsFiniteSet(Entry)
    BY BoundsAssumption, FS_Interval DEF Entry
  <1>2. Copying \in SUBSET Entry /\ Copying' \in SUBSET Entry
    BY DEF Copying
  <1>3. IsFiniteSet(Copying) /\ IsFiniteSet(Copying')
    BY <1>1, <1>2, FS_Subset
  <1> QED BY <1>3, FS_CardinalityType

\* When the counter is zero, nothing runs: what Wait relies on.
LEMMA ZeroMeansIdle ==
    ASSUME RunningCounts, running = 0
    PROVE  Copying = {} /\ serve \in {"idle", "returned"}
  <1>1. Cardinality(Copying) = 0 /\ Looping = 0
    BY Counting DEF RunningCounts, Looping
  <1> QED BY <1>1, Counting, FS_EmptySet DEF Looping

\* Steps that change neither what is counted nor the counter.
LEMMA SameCount ==
    ASSUME RunningCounts, Copying' = Copying, Looping' = Looping,
           running' = running
    PROVE  RunningCounts'
  BY DEF RunningCounts

-----------------------------------------------------------------------------
(* The map.                                                                *)

\* Steps that leave the map and the goroutines alone.
LEMMA SameMap ==
    ASSUME MapInv, UNCHANGED <<mapVars, copier>>
    PROVE  /\ EntriesInOrder' /\ MappedToOwner' /\ MapMatchesCopiers'
           /\ Copying' = Copying
  BY DEF MapInv, mapVars, EntriesInOrder, MappedToOwner, MapMatchesCopiers,
         Copying, Alive

\* The nil entry.
LEMMA ZeroIsNil == 0 \in 0 .. MaxEntries /\ 0 \notin Entry
  BY BoundsAssumption DEF Entry

\* The invariant holds at the start.
LEMMA InitMapInv == Init => MapInv
  <1> SUFFICES ASSUME Init PROVE MapInv
    OBVIOUS
  <1> USE DEF Init
  <1>1. TypeOK
    BY ZeroIsNil DEF TypeOK
  <1>2. EntriesInOrder /\ MappedToOwner /\ MapMatchesCopiers
    BY BoundsAssumption DEF EntriesInOrder, MappedToOwner, MapMatchesCopiers,
                            Entry, Alive
  <1>3. PacketAtHand /\ StopOrder
    BY DEF PacketAtHand, StopOrder
  <1>4. Copying = {}
    BY DEF Copying, Alive
  <1>5. RunningCounts
    BY <1>4, FS_EmptySet DEF RunningCounts, Looping
  <1> QED BY <1>1, <1>2, <1>3, <1>5 DEF MapInv

\* The steps of the Serve loop and of the clock that leave the map alone and keep
\* the loop running or not.
LEMMA LoopMapInv ==
    ASSUME MapInv,
           \/ Tick \/ DropPacket \/ UseEntry \/ OnWrite \/ WriteTo \/ ReadFails
           \/ SetDeadline \/ NatClose
           \/ \E c \in Client, toDns \in BOOLEAN : Receive(c, toDns)
    PROVE  MapInv'
  <1> USE DEF MapInv, natVars, loopVars, lifeVars, NextPacket
  <1>1. UNCHANGED <<mapVars, copier, running, stopped, stop>>
    BY DEF Tick, DropPacket, UseEntry, OnWrite, WriteTo, ReadFails, SetDeadline,
           NatClose, Receive
  <1>2. TypeOK'
    <2>1. CASE Tick
      BY <2>1 DEF Tick, TypeOK, mapVars, timeVars
    <2>6. CASE DropPacket \/ WriteTo
      BY <2>6, ZeroIsNil DEF DropPacket, WriteTo, TypeOK, mapVars, timeVars
    <2>7. CASE UseEntry \/ ReadFails
      BY <2>7 DEF UseEntry, ReadFails, TypeOK, mapVars, timeVars
    <2>2. CASE OnWrite
      BY <2>2, <1>1 DEF OnWrite, TypeOK, mapVars
    <2>3. CASE SetDeadline
      <3>1. newDeadline \in Nat
        BY TimeoutAssumption DEF newDeadline, TypeOK
      <3> QED BY <2>3, <3>1, <1>1 DEF SetDeadline, SetReadDeadline, Wrote, TypeOK, mapVars
    <2>4. CASE NatClose
      BY <2>4, <1>1 DEF NatClose, TypeOK, mapVars
    <2>5. CASE \E c \in Client, toDns \in BOOLEAN : Receive(c, toDns)
      BY <2>5 DEF Receive, TypeOK, mapVars, timeVars
    <2> QED BY <2>1, <2>2, <2>3, <2>4, <2>5, <2>6, <2>7
  <1>3. EntriesInOrder' /\ MappedToOwner' /\ MapMatchesCopiers' /\ Copying' = Copying
    BY <1>1, SameMap
  <1>4. PacketAtHand' /\ Looping' = Looping
    <2>1. CASE \/ Tick \/ DropPacket \/ UseEntry \/ OnWrite \/ WriteTo
               \/ ReadFails \/ SetDeadline \/ NatClose
      BY <2>1 DEF Tick, DropPacket, UseEntry, OnWrite, WriteTo, ReadFails,
                  SetDeadline, NatClose, PacketAtHand, Looping, mapVars
    <2>2. ASSUME NEW c \in Client, NEW toDns \in BOOLEAN, Receive(c, toDns)
          PROVE  PacketAtHand' /\ Looping' = Looping
      <3>1. keyConn[c] # 0 => keyConn[c] \in Entry /\ copier[keyConn[c]] # "none"
        BY BoundsAssumption DEF TypeOK, MapMatchesCopiers, Entry
      <3>2. keyConn[c] # 0 => keyConn[c] \in 1 .. entries
        BY <3>1, BoundsAssumption DEF TypeOK, EntriesInOrder, Entry
      <3> QED BY <2>2, <3>2 DEF Receive, PacketAtHand, Looping, mapVars, TypeOK
    <2> QED BY <2>1, <2>2
  <1>5. RunningCounts'
    BY <1>1, <1>3, <1>4, SameCount
  <1>6. StopOrder'
    BY <1>1 DEF Tick, DropPacket, UseEntry, OnWrite, WriteTo, ReadFails,
                SetDeadline, NatClose, Receive, StopOrder
  <1> QED BY <1>2, <1>3, <1>4, <1>5, <1>6

\* Serve is counted before its loop starts, and only if Stop did not come first.
LEMMA ServeMapInv ==
    ASSUME MapInv, Serve \/ ServeReturns
    PROVE  MapInv'
  <1> USE DEF MapInv, natVars
  <1>1. UNCHANGED <<mapVars, copier, stopped, stop, cur, from>>
    BY DEF Serve, ServeReturns
  <1>2. EntriesInOrder' /\ MappedToOwner' /\ MapMatchesCopiers' /\ Copying' = Copying
    BY <1>1, SameMap
  <1>3. PacketAtHand'
    BY <1>1 DEF Serve, ServeReturns, PacketAtHand, mapVars
  <1>4. RunningCounts' /\ running' \in Nat
    BY <1>2, Counting DEF Serve, ServeReturns, RunningCounts, Looping, TypeOK
  <1>5. TypeOK'
    BY <1>1, <1>4 DEF Serve, ServeReturns, TypeOK, mapVars, timeVars
  <1>6. StopOrder'
    <2>1. ASSUME NEW t \in Stopper, stop[t] = "done" PROVE running' = 0
      BY <2>1, ZeroMeansIdle DEF Serve, ServeReturns, StopOrder
    <2> QED BY <1>1, <2>1 DEF Serve, ServeReturns, StopOrder
  <1> QED BY <1>2, <1>3, <1>4, <1>5, <1>6

\* A new entry takes a number nobody has used, under a client that has none.
LEMMA AddMapInv ==
    ASSUME MapInv, AddEntry
    PROVE  MapInv'
  <1> DEFINE e == entries + 1
  <1> USE DEF MapInv
  <1>1. /\ e \in Entry /\ e \in 0 .. MaxEntries /\ from \in Client
        /\ copier[e] = "none" /\ keyConn[from] = 0
        /\ \A c \in Client : keyConn[c] # e
    BY BoundsAssumption DEF AddEntry, TypeOK, Entry, EntriesInOrder, PacketAtHand,
                            MapMatchesCopiers
  <1>2. /\ entries' = e /\ cur' = e /\ serve' = "onWrite" /\ running' = running + 1
        /\ keyConn' = [keyConn EXCEPT ![from] = e]
        /\ owner' = [owner EXCEPT ![e] = from]
        /\ copier' = [copier EXCEPT ![e] = "read"]
        /\ socket' = [socket EXCEPT ![e] = TRUE]
        /\ UNCHANGED <<now, dns, from, removed, timeVars, listening, stopped, stop>>
    BY DEF AddEntry, Started
  <1> HIDE DEF e
  <1>3. TypeOK'
    BY <1>1, <1>2 DEF TypeOK, timeVars
  <1>4. EntriesInOrder'
    <2> SUFFICES ASSUME NEW f \in Entry
                 PROVE  /\ copier'[f] = "none" <=> f > e
                        /\ copier'[f] # "none" => owner'[f] \in Client
      BY <1>2 DEF EntriesInOrder
    <2>1. CASE f = e
      BY <2>1, <1>1, <1>2 DEF TypeOK, Entry
    <2>2. CASE f # e
      BY <2>2, <1>1, <1>2 DEF TypeOK, Entry, EntriesInOrder, e
    <2> QED BY <2>1, <2>2
  <1>5. MappedToOwner'
    BY <1>1, <1>2 DEF TypeOK, MappedToOwner
  <1>6. MapMatchesCopiers'
    <2> SUFFICES ASSUME NEW f \in Entry
                 PROVE  Matches(f)'
      BY DEF MapMatchesCopiers, Matches
    <2>0. Matches(f)
      BY DEF MapMatchesCopiers, Matches
    <2>1. CASE f = e
      BY <2>1, <1>1, <1>2 DEF TypeOK, Matches, Alive
    <2>2. CASE f # e
      <3>1. copier'[f] = copier[f] /\ owner'[f] = owner[f] /\ socket'[f] = socket[f]
        BY <2>2, <1>1, <1>2 DEF TypeOK
      <3>2. \A c \in Client : keyConn'[c] = f <=> keyConn[c] = f
        BY <2>2, <1>1, <1>2, ZeroIsNil DEF TypeOK
      <3>3. copier[f] # "none" => owner[f] \in Client
        BY DEF EntriesInOrder
      <3> QED BY <2>0, <3>1, <3>2, <3>3, <1>2 DEF Matches, Alive
    <2> QED BY <2>1, <2>2
  <1>7. PacketAtHand'
    BY <1>1, <1>2, BoundsAssumption DEF TypeOK, PacketAtHand, Entry
  <1>8. RunningCounts'
    <2>1. e \notin Copying /\ Copying' = Copying \cup {e}
      BY <1>1, <1>2 DEF TypeOK, Copying, Alive
    <2>2. Cardinality(Copying') = Cardinality(Copying) + 1
      BY <2>1, Counting, FS_AddElement
    <2> QED BY <2>2, <1>2, Counting DEF AddEntry, RunningCounts, Looping
  <1>9. StopOrder'
    BY <1>2, ZeroMeansIdle DEF AddEntry, StopOrder
  <1> QED BY <1>3, <1>4, <1>5, <1>6, <1>7, <1>8, <1>9

\* A goroutine stays counted until its last step.
LEMMA ReadMapInv ==
    ASSUME MapInv, NEW e \in Entry,
           CopyExpires(e) \/ \E fromDns \in BOOLEAN : ReadFrom(e, fromDns)
    PROVE  MapInv'
  <1> USE DEF MapInv, loopVars, lifeVars
  <1>1. /\ UNCHANGED <<mapVars, serve, cur, from, running, stopped, stop>>
        /\ copier' \in [Entry -> {"none", "read", "expired", "deleted", "done"}]
        /\ \A f \in Entry : \/ copier'[f] = copier[f]
                            \/ copier[f] = "read" /\ copier'[f] = "expired"
    BY DEF CopyExpires, ReadFrom, TypeOK
  <1>2. TypeOK'
    <2>1. CASE CopyExpires(e)
      BY <1>1, <2>1 DEF CopyExpires, TypeOK, mapVars, timeVars
    <2>2. ASSUME NEW fromDns \in BOOLEAN, ReadFrom(e, fromDns) PROVE TypeOK'
      BY <1>1, <2>2 DEF ReadFrom, TypeOK, mapVars
    <2> QED BY <2>1, <2>2
  <1>3. EntriesInOrder' /\ MappedToOwner'
    BY <1>1 DEF EntriesInOrder, MappedToOwner, mapVars
  <1>4. MapMatchesCopiers'
    BY <1>1 DEF MapMatchesCopiers, mapVars, Alive
  <1>5. PacketAtHand' /\ StopOrder'
    BY <1>1 DEF PacketAtHand, StopOrder, mapVars
  <1>6. Copying' = Copying /\ Looping' = Looping
    BY <1>1 DEF Copying, Looping, Alive
  <1> QED BY <1>1, <1>2, <1>3, <1>4, <1>5, <1>6, SameCount

\* What a goroutine removes under its client's address is its own entry.
LEMMA DelMapInv ==
    ASSUME MapInv, NEW e \in Entry, Del(e)
    PROVE  MapInv'
  <1> USE DEF MapInv, loopVars, lifeVars
  <1>1. owner[e] \in Client /\ keyConn[owner[e]] = e
    BY DEF Del, EntriesInOrder, MapMatchesCopiers
  <1>2. /\ copier' = [copier EXCEPT ![e] = "deleted"]
        /\ removed' = [removed EXCEPT ![e] = e]
        /\ keyConn' = [keyConn EXCEPT ![owner[e]] = 0]
        /\ UNCHANGED <<now, loopVars, lifeVars, entries, owner, socket, timeVars>>
    BY <1>1 DEF Del, Without
  <1>3. TypeOK'
    BY <1>1, <1>2, ZeroIsNil DEF Entry, TypeOK, timeVars
  <1>4. EntriesInOrder'
    BY <1>2 DEF Del, TypeOK, EntriesInOrder
  <1>5. MappedToOwner'
    BY <1>1, <1>2, ZeroIsNil DEF TypeOK, MappedToOwner
  <1>6. MapMatchesCopiers'
    BY <1>1, <1>2, ZeroIsNil DEF Del, TypeOK, MappedToOwner, MapMatchesCopiers,
                                 Alive
  <1>7. PacketAtHand' /\ StopOrder'
    BY <1>1, <1>2 DEF TypeOK, PacketAtHand, StopOrder
  <1>8. Copying' = Copying /\ Looping' = Looping
    BY <1>2 DEF Del, TypeOK, Copying, Looping, Alive
  <1> QED BY <1>2, <1>3, <1>4, <1>5, <1>6, <1>7, <1>8, SameCount

\* It closes its own socket, and Done takes it out of the count.
LEMMA CloseMapInv ==
    ASSUME MapInv, NEW e \in Entry, CloseEntry(e)
    PROVE  MapInv'
  <1> USE DEF MapInv, loopVars
  <1>1. /\ copier[e] = "deleted"
        /\ copier' = [copier EXCEPT ![e] = "done"]
        /\ socket' = [f \in Entry |-> socket[f] /\ f # e]
        /\ UNCHANGED <<now, loopVars, listening, stopped, stop, keyConn, entries,
                       owner, removed, timeVars>>
    BY DEF CloseEntry, MapMatchesCopiers
  <1>2. e \in Copying /\ Copying' = Copying \ {e}
    BY <1>1 DEF TypeOK, Copying, Alive
  <1>3. RunningCounts' /\ running' \in Nat /\ running # 0
    <2>1. Cardinality(Copying') = Cardinality(Copying) - 1
      BY <1>2, Counting, FS_RemoveElement
    <2> QED BY <1>1, <2>1, Counting DEF CloseEntry, RunningCounts, Looping
  <1>4. TypeOK'
    BY <1>1, <1>3 DEF TypeOK, timeVars
  <1>5. EntriesInOrder' /\ MappedToOwner'
    BY <1>1 DEF TypeOK, EntriesInOrder, MappedToOwner
  <1>6. MapMatchesCopiers'
    <2> SUFFICES ASSUME NEW f \in Entry
                 PROVE  Matches(f)'
      BY DEF MapMatchesCopiers, Matches
    <2>0. Matches(f)
      BY DEF MapMatchesCopiers, Matches
    <2>1. CASE f = e
      BY <2>0, <2>1, <1>1 DEF TypeOK, Matches, Alive
    <2>2. CASE f # e
      BY <2>0, <2>2, <1>1 DEF TypeOK, Matches, Alive
    <2> QED BY <2>1, <2>2
  <1>7. PacketAtHand' /\ StopOrder'
    BY <1>1, <1>3 DEF PacketAtHand, StopOrder
  <1> QED BY <1>3, <1>4, <1>5, <1>6, <1>7

\* Stop, and the return of Wait.
LEMMA StopMapInv ==
    ASSUME MapInv, NEW t \in Stopper,
           WaitReturns(t) \/ \E next \in {"stopped", "waiting"} : CallStop(t, next)
    PROVE  MapInv'
  <1> USE DEF MapInv, natVars, loopVars
  <1>1. UNCHANGED <<mapVars, copier, timeVars, loopVars, running, now>>
    BY DEF WaitReturns, CallStop
  <1>2. EntriesInOrder' /\ MappedToOwner' /\ MapMatchesCopiers' /\ Copying' = Copying
    BY <1>1, SameMap
  <1>3. TypeOK'
    <2>1. CASE WaitReturns(t)
      BY <1>1, <2>1 DEF WaitReturns, TypeOK, mapVars, timeVars
    <2>2. ASSUME NEW next \in {"stopped", "waiting"}, CallStop(t, next) PROVE TypeOK'
      BY <1>1, <2>2 DEF CallStop, TypeOK, mapVars, timeVars
    <2> QED BY <2>1, <2>2
  <1>4. PacketAtHand' /\ Looping' = Looping
    BY <1>1 DEF PacketAtHand, Looping, mapVars
  <1>5. RunningCounts'
    BY <1>1, <1>2, <1>4, SameCount
  <1>6. StopOrder'
    BY <1>1 DEF WaitReturns, CallStop, StopOrder, TypeOK
  <1> QED BY <1>2, <1>3, <1>4, <1>5, <1>6

\* Every step preserves the invariant of the map.
LEMMA NextMapInv ==
    ASSUME MapInv, [Next]_vars
    PROVE  MapInv'
  <1>1. CASE UNCHANGED vars
    <2>1. UNCHANGED <<mapVars, copier>> /\ Looping' = Looping /\ running' = running
      BY <1>1 DEF vars, mapVars, Looping
    <2>2. TypeOK' /\ PacketAtHand' /\ StopOrder'
      BY <1>1 DEF vars, MapInv, TypeOK, PacketAtHand, StopOrder
    <2> QED BY <2>1, <2>2, SameMap, SameCount DEF MapInv
  <1>2. CASE Next
    BY <1>2, LoopMapInv, ServeMapInv, AddMapInv, ReadMapInv, DelMapInv,
       CloseMapInv, StopMapInv DEF Next, Loop, Copy
  <1> QED BY <1>1, <1>2

-----------------------------------------------------------------------------
(* The deadlines.                                                          *)

\* Steps that move no deadline.
LEMMA SameTimes ==
    ASSUME MapInv, TimeInv, UNCHANGED timeVars,
           now' \in Nat, now' >= now, stopped => stopped',
           serve' = "setDeadline" => UNCHANGED <<serve, cur, dns>>
    PROVE  TimeInv'
  <1> USE DEF TimeInv, timeVars
  <1>1. DeadlineIsDue'
    BY TimeoutAssumption DEF MapInv, TypeOK, DeadlineIsDue
  <1>2. FastCloseAllowed' /\ DeadlineEarned'
    BY DEF FastCloseAllowed, DeadlineEarned
  <1> QED BY <1>1, <1>2

\* The first half of onWrite rules fast close out unless this is the first write
\* and a DNS query.
LEMMA OnWriteTimeInv ==
    ASSUME MapInv, TimeInv, OnWrite
    PROVE  TimeInv'
  <1> USE DEF MapInv, TimeInv, OnWrite, lifeVars
  <1>1. cur \in Entry
    BY BoundsAssumption DEF TypeOK, PacketAtHand, Entry
  <1>2. DeadlineIsDue'
    BY DEF DeadlineIsDue
  <1>3. FastCloseAllowed' /\ DeadlineEarned'
    BY <1>1 DEF TypeOK, DeadlineIsDue, FastCloseAllowed, DeadlineEarned
  <1> QED BY <1>2, <1>3

\* The second half moves the deadline back, and from then on it is the one
\* earned: after a fast close the next write is never the one with the earlier
\* deadline.
LEMMA SetDeadlineTimeInv ==
    ASSUME MapInv, TimeInv, SetDeadline
    PROVE  TimeInv'
  <1> USE DEF MapInv, TimeInv, SetDeadline, lifeVars
  <1>1. cur \in Entry
    BY BoundsAssumption DEF TypeOK, PacketAtHand, Entry
  <1>2. newDeadline \in Nat /\ newDeadline > 0 /\ newDeadline >= now + DnsTimeout
    BY TimeoutAssumption DEF newDeadline, TypeOK
  <1>3. /\ readDeadline[cur] \in Nat /\ due[cur] = readDeadline[cur]
        /\ readDeadline[cur] = 0 <=> writes[cur] = "none"
    BY <1>1 DEF DeadlineIsDue, TypeOK
  <1>4. \A f \in Entry : f # cur =>
          /\ readDeadline'[f] = readDeadline[f] /\ sockDeadline'[f] = sockDeadline[f]
          /\ writes'[f] = writes[f] /\ due'[f] = due[f]
    BY DEF Wrote, TypeOK
  <1>5. /\ writes'[cur] = IF writes[cur] = "none" /\ dns THEN "dns" ELSE "other"
        /\ due'[cur] = IF newDeadline > due[cur] THEN newDeadline ELSE due[cur]
    BY <1>1 DEF Wrote, TypeOK
  <1>6. DeadlineIsDue'
    <2>1. CASE After
      BY <2>1, <1>1, <1>2, <1>3, <1>4, <1>5,
         TimeoutAssumption
         DEF After, TypeOK, DeadlineIsDue, newDeadline
    <2>2. CASE ~After
      BY <2>2, <1>1, <1>2, <1>3, <1>4, <1>5,
         TimeoutAssumption
         DEF After, TypeOK, DeadlineIsDue, newDeadline
    <2> QED BY <2>1, <2>2
  <1>7. FastCloseAllowed'
    BY <1>1, <1>4, <1>5 DEF FastCloseAllowed
  <1>8. DeadlineEarned'
    <2>1. CASE After
      BY <2>1, <1>1, <1>2, <1>3, <1>4, <1>5 DEF After, SetReadDeadline, TypeOK, DeadlineEarned
    <2>2. CASE ~After
      <3>1. newDeadline < readDeadline[cur]
        BY <2>2, <1>2, <1>3 DEF After
      <3>2. writes[cur] = "other"
        BY <3>1, <1>1, <1>2, <1>3, TimeoutAssumption DEF TypeOK, DeadlineIsDue
      <3>3. sockDeadline[cur] >= due[cur] \/ stopped
        BY <3>2, <1>1 DEF DeadlineEarned
      <3>4. due'[cur] = due[cur] /\ sockDeadline'[cur] = sockDeadline[cur]
        BY <2>2, <3>1, <1>2, <1>3, <1>5
      <3> QED BY <3>3, <3>4, <1>4 DEF DeadlineEarned
    <2> QED BY <2>1, <2>2
  <1> QED BY <1>6, <1>7, <1>8

\* onRead brings the deadline forward only where fast close is allowed.
LEMMA ReadTimeInv ==
    ASSUME MapInv, TimeInv, NEW e \in Entry, NEW fromDns \in BOOLEAN,
           ReadFrom(e, fromDns)
    PROVE  TimeInv'
  <1> USE DEF MapInv, TimeInv, ReadFrom, loopVars, lifeVars
  <1>1. DeadlineIsDue'
    BY DEF DeadlineIsDue
  <1>2. FastCloseAllowed'
    BY DEF TypeOK, FastCloseAllowed
  <1>3. DeadlineEarned'
    BY DEF TypeOK, FastCloseAllowed, DeadlineEarned
  <1> QED BY <1>1, <1>2, <1>3

\* nm.Close comes after Stop.
LEMMA NatCloseTimeInv ==
    ASSUME MapInv, TimeInv, NatClose
    PROVE  TimeInv'
  BY DEF MapInv, TimeInv, NatClose, lifeVars, StopOrder, DeadlineIsDue,
         FastCloseAllowed, DeadlineEarned

\* Every step preserves the invariant of the deadlines.
LEMMA NextTimeInv ==
    ASSUME MapInv, TimeInv, [Next]_vars
    PROVE  TimeInv'
  <1> USE DEF natVars, loopVars, lifeVars
  <1>1. CASE \/ Tick \/ DropPacket \/ AddEntry \/ UseEntry \/ WriteTo
             \/ ReadFails \/ Serve \/ ServeReturns
    <2>1. UNCHANGED timeVars /\ (stopped => stopped')
      BY <1>1 DEF Tick, DropPacket, AddEntry, UseEntry, WriteTo, ReadFails,
                  Serve, ServeReturns
    <2>2. serve' = "setDeadline" => UNCHANGED <<serve, cur, dns>>
      BY <1>1 DEF Tick, DropPacket, AddEntry, UseEntry, WriteTo, ReadFails,
                  Serve, ServeReturns, NextPacket
    <2>3. now' \in Nat /\ now' >= now
      BY <1>1 DEF Tick, DropPacket, AddEntry, UseEntry, WriteTo, ReadFails,
                  Serve, ServeReturns, MapInv, TypeOK
    <2> QED BY <2>1, <2>2, <2>3, SameTimes
  <1>2. ASSUME NEW c \in Client, NEW toDns \in BOOLEAN, Receive(c, toDns)
        PROVE  TimeInv'
    BY <1>2, SameTimes DEF Receive, MapInv, TypeOK
  <1>3. ASSUME NEW e \in Entry, Copy(e) PROVE TimeInv'
    BY <1>3, SameTimes DEF Copy, CopyExpires, Del, CloseEntry, MapInv, TypeOK
  <1>4. ASSUME NEW t \in Stopper,
               WaitReturns(t) \/ \E next \in {"stopped", "waiting"} : CallStop(t, next)
        PROVE  TimeInv'
    BY <1>4, SameTimes DEF WaitReturns, CallStop, MapInv, TypeOK
  <1>5. CASE UNCHANGED vars
    BY <1>5 DEF vars, TimeInv, DeadlineIsDue, FastCloseAllowed, DeadlineEarned
  <1> QED BY <1>1, <1>2, <1>3, <1>4, <1>5, OnWriteTimeInv, SetDeadlineTimeInv,
             ReadTimeInv, NatCloseTimeInv DEF Next, Loop

-----------------------------------------------------------------------------

\* The deadlines at the start.
LEMMA InitTimeInv == Init => TimeInv
  BY DEF Init, TimeInv, DeadlineIsDue, FastCloseAllowed, DeadlineEarned

\* The inductive invariant holds of every behaviour.
THEOREM Invariant == Spec => []IInv
  <1>1. Init => IInv
    BY InitMapInv, InitTimeInv DEF IInv
  <1>2. IInv /\ [Next]_vars => IInv'
    BY NextMapInv, NextTimeInv DEF IInv
  <1> QED BY <1>1, <1>2, PTL DEF Spec

\* The variables have their types.
THEOREM TypeCorrect == Spec => []TypeOK
  BY Invariant, PTL DEF IInv, MapInv

\* Although del takes a client address, no goroutine removes another one's entry
\* and none leaves its own behind.
THEOREM MapAgrees == Spec => []MapMatchesCopiers
  BY Invariant, PTL DEF IInv, MapInv

\* When GracefulStop has returned, the loop is over and every entry is gone and
\* its socket closed.
THEOREM StopCleansUp == Spec => []GracefulStopCleansUp
  <1>1. IInv => GracefulStopCleansUp
    <2> SUFFICES ASSUME IInv, NEW t \in Stopper, stop[t] = "done"
                 PROVE  /\ serve \in {"idle", "returned"}
                        /\ \A e \in Entry : ~socket[e]
                        /\ \A c \in Client : keyConn[c] = 0
      BY DEF GracefulStopCleansUp
    <2> USE DEF IInv, MapInv
    <2>1. Copying = {} /\ serve \in {"idle", "returned"}
      BY ZeroMeansIdle DEF StopOrder
    <2>2. \A e \in Entry : ~Alive(e) /\ ~socket[e]
      BY <2>1 DEF Copying, MapMatchesCopiers
    <2>3. \A c \in Client, e \in Entry : keyConn[c] # e
      BY <2>2 DEF MapMatchesCopiers, Alive
    <2>4. \A c \in Client : keyConn[c] \in Entry \/ keyConn[c] = 0
      BY BoundsAssumption DEF TypeOK, Entry
    <2> QED BY <2>1, <2>2, <2>3, <2>4
  <1> QED BY <1>1, Invariant, PTL

\* A goroutine that gives up has reached the deadline its entry earned, unless it
\* was told to earlier.
LEMMA ExpiryStep ==
    ASSUME IInv, [Next]_vars, NEW e \in Entry,
           copier[e] = "read", copier'[e] = "expired"
    PROVE  \/ now >= due[e]
           \/ writes[e] = "dns" /\ ~fastClose[e]
           \/ stopped
  <1>1. Passed(e)
    <2>1. ASSUME NEW f \in Entry, Copy(f) PROVE f = e /\ Passed(e)
      BY <2>1 DEF Copy, CopyExpires, Del, CloseEntry, IInv, MapInv, TypeOK
    <2>2. CASE AddEntry
      BY <2>2 DEF AddEntry, IInv, MapInv, TypeOK
    <2>3. ASSUME UNCHANGED copier PROVE FALSE
      BY <2>3
    <2>4. ~(\E f \in Entry : Copy(f)) /\ ~AddEntry => UNCHANGED copier
      BY DEF Next, Loop, Tick, Serve, Receive, DropPacket, UseEntry, OnWrite,
             SetDeadline, WriteTo, ReadFails, NatClose, ServeReturns, ReadFrom,
             CallStop, WaitReturns, natVars, vars
    <2> QED BY <2>1, <2>2, <2>3, <2>4
  <1> QED BY <1>1 DEF Passed, IInv, MapInv, TypeOK, TimeInv, DeadlineEarned

\* No entry expires before the deadline its writes have earned it, except on a
\* DNS answer to its only write or when the service is being stopped.
THEOREM ExpiresInTime == Spec => NoEarlyExpiry
  <1>1. IInv /\ [Next]_vars =>
          [\A e \in Entry : copier[e] = "read" /\ copier'[e] = "expired" =>
             \/ now >= due[e]
             \/ writes[e] = "dns" /\ ~fastClose[e]
             \/ stopped]_vars
    BY ExpiryStep
  <1> QED BY <1>1, Invariant, PTL DEF Spec, NoEarlyExpiry

=============================================================================
