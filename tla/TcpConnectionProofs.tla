------------------------- MODULE TcpConnectionProofs -------------------------
(***************************************************************************)
(* For any number of connections, of clients that behave in any way and of *)
(* key updates: what each handler promises of its own connection, and what *)
(* the handlers together promise of replayed handshakes.                   *)
(***************************************************************************)
EXTENDS TcpConnection, FiniteSetTheorems, SequenceTheorems, WellFoundedInduction,
        TLAPS

\* The status tells how far a handler got, its second goroutine and the target
\* connection exist while it relays, and the deadline is gone by then.
Phase(c) ==
    /\ pc[c] \in {"new", "hello", "replay", "address", "dial"} => status[c] = "OK"
    /\ pc[c] = "probe" => status[c] \in Probe
    /\ pc[c] = "drain" => status[c] = "ERR_READ_ADDRESS"
    /\ pc[c] \in {"relay", "await"} \/ target[c] = "closed" =>
         status[c] \in {"OK", "ERR_RELAY_CLIENT", "ERR_RELAY_TARGET"}
    /\ pc[c] \in {"drain", "dial", "relay", "await"} => deadline[c] = "none"
    /\ pc[c] \in {"relay", "await"} <=> up[c] # "none"
    /\ pc[c] \in {"relay", "await"} <=> target[c] \in {"open", "eof", "error"}
    /\ target[c] = "closed" => pc[c] \in {"finish", "closed"}

\* The client has ended by the time its handler closes anything.
Ended(c) ==
    /\ up[c] \in {"shut", "send"} \/ target[c] = "closed" => client[c] # "open"
    /\ fin[c] => up[c] = "send" \/ target[c] = "closed"
    /\ pc[c] \in {"finish", "closed"} =>
         /\ status[c] \in Probe => client[c] # "open" \/ deadline[c] = "passed"
         /\ status[c] = "ERR_READ_ADDRESS" => client[c] # "open"

\* The reports for one direction.
Bills(c, what) == {b \in billed[c] : b[1] = what}

\* Each direction is billed once, when its copy has returned.
Billing(c) ==
    /\ Bills(c, "U") = IF up[c] = "send" \/ target[c] = "closed"
                         THEN {<<"U", written[c].U>>} ELSE {}
    /\ Bills(c, "D") = IF pc[c] = "await" \/ target[c] = "closed"
                         THEN {<<"D", written[c].D>>} ELSE {}
    /\ <<"host", 1>> \in billed[c] <=>
         \/ pc[c] \in {"dial", "relay", "await"}
         \/ /\ pc[c] \in {"finish", "closed"}
            /\ status[c] \notin Probe \cup {"ERR_READ_ADDRESS"}

\* What is counted in several places, at every moment.
Metering(c) ==
    /\ written[c].U = proxyMetrics[c].ProxyTarget
    /\ written[c].D = proxyMetrics[c].TargetProxy
    /\ proxyMetrics[c].ClientProxy <= sent[c]
    /\ up[c] \in {"shut", "send"} \/ target[c] = "closed" =>
         (client[c] = "eof" => proxyMetrics[c].ClientProxy = sent[c])
    /\ probe[c] # None <=> pc[c] \in {"finish", "closed"} /\ status[c] \in Probe
    /\ probe[c] # None => probe[c][3] = proxyMetrics[c].ClientProxy
    /\ pc[c] = "closed" => closing[c] = proxyMetrics[c]

\* The inductive invariant of one connection.
ConnInv(c) == Phase(c) /\ Ended(c) /\ Billing(c) /\ Metering(c)

\* The inductive invariant of the connections one by one.
IInv == TypeOK /\ \A c \in Conn : ConnInv(c)

\* The handlers that are through with the replay check.
Checked == {c \in Conn : pc[c] \notin {"new", "hello", "replay"}}

\* What a handler that has found its key knows of the hello.
HelloKnown(c) ==
    /\ pc[c] \notin {"new", "hello"} /\ status[c] # "ERR_CIPHER" =>
         sent[c] >= 1 /\ hello[c] \in Handshake
    /\ Passed(c) => hello[c] \notin ServerSalts

\* With no more than Capacity + 1 connections the active map is full for the last
\* of them at the earliest, so nothing that passed is ever forgotten.
CacheHolds ==
    Capacity # 0 /\ Cardinality(Conn) <= Capacity + 1 =>
      /\ IsFiniteSet(active)
      /\ archive = {} => /\ Cardinality(active) <= Cardinality(Checked)
                         /\ \A c \in Conn : Passed(c) => HashOf[hello[c]] \in active
      /\ archive # {} => Checked = Conn

\* The inductive invariant of the connections together.
ReplayInv ==
    /\ \A c \in Conn : HelloKnown(c)
    /\ CacheHolds
    /\ NoReplay

-----------------------------------------------------------------------------
(* A step of one connection leaves the others alone.                       *)

\* What belongs to connection d alone.
Own(d) == <<pc[d], up[d], hello[d], sent[d], client[d], target[d], fin[d],
            deadline[d], status[d], proxyMetrics[d], written[d], billed[d],
            probe[d], closing[d]>>

\* The steps of connection c: of its two goroutines, its peers and its timer.
Step(c) ==
    \/ Accept(c) \/ Authenticate(c) \/ Dial(c) \/ UpCopy(c)
    \/ Upstream(c) \/ Downstream(c) \/ Expire(c) \/ Environment(c)

\* The invariant of a connection speaks of what is its own.
LEMMA SameConnInv ==
    ASSUME NEW d \in Conn, ConnInv(d), Own(d)' = Own(d)
    PROVE  ConnInv(d)'
  BY DEF Own, ConnInv, Phase, Ended, Billing, Bills, Metering

\* The names of the counters.
LEMMA Counters ==
    DOMAIN ProxyMetrics = {"ClientProxy", "ProxyTarget", "TargetProxy", "ProxyClient"}
  BY DEF ProxyMetrics

\* No step of a connection touches what is another one's.
LEMMA OthersAlone ==
    ASSUME TypeOK, NEW c \in Conn, Step(c), NEW d \in Conn, d # c
    PROVE  Own(d)' = Own(d)
  <1> USE DEF TypeOK, Own, sharedVars, peerVars, clientVars, targetVars, countVars,
              reportVars, authVars
  <1>1. CASE Accept(c) \/ Expire(c) \/ Dial(c)
    BY <1>1 DEF Accept, Expire, Dial, dialTarget, DialFails
  <1>2. CASE Authenticate(c)
    <2>1. CASE ReadHelloFails(c)
      BY <2>1 DEF ReadHelloFails, Suspect
    <2>2. CASE FindAccessKey(c)
      BY <2>2 DEF FindAccessKey, Suspect, CountClientProxy
    <2>3. CASE CheckReplay(c)
      BY <2>3 DEF CheckReplay, Suspect
    <2>4. CASE absorbProbe(c)
      BY <2>4 DEF absorbProbe, CountClientProxy, AddTCPProbe
    <2>5. CASE ReadAddr(c)
      BY <2>5 DEF ReadAddr, CountClientProxy
    <2>6. CASE DrainAddress(c)
      BY <2>6 DEF DrainAddress, CountClientProxy
    <2> QED BY <1>2, <2>1, <2>2, <2>3, <2>4, <2>5, <2>6 DEF Authenticate
  <1>3. CASE UpCopy(c) \/ Upstream(c)
    BY <1>3 DEF UpCopy, Upstream, UpChunk, UpCopyEnds, UpCopyFails, UpDrain, UpShut,
                CountClientProxy, Transfer
  <1>4. CASE Downstream(c)
    BY <1>4 DEF Downstream, DownChunk, DownCopyEnds, DownFlushFails, DownEnds,
                ReceiveFromClientErr, Finish, AddClosedTCPConnection, Transfer
  <1>5. CASE Environment(c)
    BY <1>5 DEF Environment, SendHello, SendAddress, SendChunk, ClientEnds,
                TargetSends, TargetEnds
  <1> QED BY <1>1, <1>2, <1>3, <1>4, <1>5 DEF Step

-----------------------------------------------------------------------------
(* What each step does to its own connection.                              *)

\* Nothing has happened to any connection at first.
LEMMA InitIInv == Init => IInv
  <1> SUFFICES ASSUME Init PROVE IInv
    OBVIOUS
  <1> USE DEF Init
  <1>1. TypeOK
    <2>1. 0 \in 0 .. MaxChunks + 2 /\ 0 \in 0 .. MaxChunks
      BY MaxChunksAssumption
    <2>2. ProxyMetrics \in [DOMAIN ProxyMetrics -> Nat]
      BY DEF ProxyMetrics
    <2> QED BY <2>1, <2>2 DEF TypeOK
  <1>2. ASSUME NEW c \in Conn PROVE ConnInv(c)
    BY DEF ConnInv, Phase, Ended, Billing, Bills, Metering, Probe, ProxyMetrics
  <1> QED BY <1>1, <1>2 DEF IInv

\* The client and the target.
LEMMA EnvironmentConnInv ==
    ASSUME TypeOK, NEW c \in Conn, ConnInv(c), Environment(c) \/ Expire(c)
    PROVE  TypeOK' /\ ConnInv(c)'
  <1> USE DEF sharedVars, peerVars, clientVars, targetVars, countVars, reportVars,
              authVars
  <1>1. TypeOK'
    <2>1. /\ 1 \in 0 .. MaxChunks + 2 /\ 2 \in 0 .. MaxChunks + 2
          /\ \A n \in 2 .. MaxChunks + 1 : n + 1 \in 0 .. MaxChunks + 2
          /\ \A n \in 0 .. MaxChunks : n < MaxChunks => n + 1 \in 0 .. MaxChunks
      BY MaxChunksAssumption
    <2>2. ASSUME NEW h \in Handshake \cup {Garbage}, SendHello(c, h) PROVE TypeOK'
      BY <2>1, <2>2 DEF SendHello, TypeOK
    <2>3. ASSUME NEW good \in BOOLEAN, SendAddress(c, good) PROVE TypeOK'
      BY <2>1, <2>3 DEF SendAddress, TypeOK
    <2>4. CASE SendChunk(c)
      BY <2>1, <2>4 DEF SendChunk, TypeOK
    <2>5. CASE TargetSends(c)
      BY <2>1, <2>5 DEF TargetSends, TypeOK
    <2>6. ASSUME NEW how \in {"eof", "reset"}, ClientEnds(c, how) PROVE TypeOK'
      BY <2>6 DEF ClientEnds, TypeOK
    <2>7. ASSUME NEW how \in {"eof", "error"}, TargetEnds(c, how) PROVE TypeOK'
      BY <2>7 DEF TargetEnds, TypeOK
    <2>8. CASE Expire(c)
      BY <2>8 DEF Expire, TypeOK
    <2> QED BY <2>2, <2>3, <2>4, <2>5, <2>6, <2>7, <2>8 DEF Environment
  <1>2. Phase(c)'
    BY DEF ConnInv, Environment, SendHello, SendAddress, SendChunk,
           ClientEnds, TargetSends, TargetEnds, Expire, TypeOK, Phase
  <1>3. Ended(c)'
    BY DEF ConnInv, Environment, SendHello, SendAddress, SendChunk,
           ClientEnds, TargetSends, TargetEnds, Expire, TypeOK, Ended
  <1>4. Billing(c)'
    BY DEF ConnInv, Environment, SendHello, SendAddress, SendChunk,
           ClientEnds, TargetSends, TargetEnds, Expire, TypeOK, Phase, Billing, Bills
  <1>5. Metering(c)'
    <2> USE DEF ConnInv
    <2>1. sent[c] \in Nat /\ proxyMetrics[c].ClientProxy \in Nat
      BY Counters, MaxChunksAssumption DEF TypeOK
    <2>2. ASSUME sent'[c] \in Nat, sent'[c] >= sent[c], client[c] = "open",
                 UNCHANGED <<pc, up, client, target, status, proxyMetrics, written,
                             probe, closing>>
          PROVE  Metering(c)'
      BY <2>1, <2>2 DEF Ended, Metering
    <2>3. CASE \/ \E h \in Handshake \cup {Garbage} : SendHello(c, h)
               \/ \E good \in BOOLEAN : SendAddress(c, good)
               \/ SendChunk(c)
      BY <2>1, <2>2, <2>3 DEF SendHello, SendAddress, SendChunk, Alive, TypeOK
    <2>4. ASSUME NEW how \in {"eof", "reset"}, ClientEnds(c, how)
          PROVE  Metering(c)'
      BY <2>4 DEF ClientEnds, Alive, TypeOK, Ended, Metering
    <2>5. CASE Expire(c) \/ TargetSends(c)
      BY <2>5 DEF Expire, TargetSends, Metering
    <2>6. ASSUME NEW how \in {"eof", "error"}, TargetEnds(c, how)
          PROVE  Metering(c)'
      BY <2>6 DEF TargetEnds, TypeOK, Metering
    <2> QED BY <2>3, <2>4, <2>5, <2>6 DEF Environment
  <1> QED BY <1>1, <1>2, <1>3, <1>4, <1>5 DEF ConnInv

\* Drain returns when the client has ended, or when a deadline has passed.
LEMMA DrainFacts ==
    ASSUME TypeOK, NEW c \in Conn, proxyMetrics[c].ClientProxy <= sent[c],
           NEW d \in Drain(c)
    PROVE  /\ d[1] \in {"eof", "timeout", "other"}
           /\ d[2] \in Nat /\ d[2] <= sent[c]
           /\ client[c] # "open" \/ deadline[c] = "passed"
           /\ client[c] = "eof" /\ deadline[c] # "passed" => d[2] = sent[c]
  <1>1. sent[c] \in Nat /\ proxyMetrics[c].ClientProxy \in Nat
    BY Counters, MaxChunksAssumption DEF TypeOK
  <1> QED BY <1>1 DEF Drain

\* The two ways the counters change.
LEMMA CountFacts ==
    ASSUME TypeOK, NEW c \in Conn
    PROVE  /\ sent[c] \in Nat
           /\ proxyMetrics[c].ClientProxy \in Nat /\ proxyMetrics[c].ProxyTarget \in Nat
           /\ proxyMetrics[c].TargetProxy \in Nat /\ proxyMetrics[c].ProxyClient \in Nat
           /\ written[c].U \in Nat /\ written[c].D \in Nat
  BY Counters, MaxChunksAssumption DEF TypeOK

\* What a read from the client does to the counters.
LEMMA CountType ==
    ASSUME TypeOK, NEW c \in Conn, NEW n \in Nat, CountClientProxy(c, n)
    PROVE  /\ proxyMetrics' \in [Conn -> [DOMAIN ProxyMetrics -> Nat]]
           /\ proxyMetrics'[c].ClientProxy = n
           /\ proxyMetrics'[c].ProxyTarget = proxyMetrics[c].ProxyTarget
           /\ proxyMetrics'[c].TargetProxy = proxyMetrics[c].TargetProxy
  BY Counters DEF TypeOK, CountClientProxy

\* What a read from the target does to the counters.
LEMMA ReadType ==
    ASSUME TypeOK, NEW c \in Conn, NEW n \in Nat,
           proxyMetrics' = [proxyMetrics EXCEPT ![c].TargetProxy = n]
    PROVE  /\ proxyMetrics' \in [Conn -> [DOMAIN ProxyMetrics -> Nat]]
           /\ proxyMetrics'[c].TargetProxy = n
           /\ proxyMetrics'[c].ClientProxy = proxyMetrics[c].ClientProxy
           /\ proxyMetrics'[c].ProxyTarget = proxyMetrics[c].ProxyTarget
  BY Counters DEF TypeOK

\* What a copy does to its own count.
LEMMA WrittenType ==
    ASSUME TypeOK, NEW c \in Conn, NEW n \in Nat
    PROVE  /\ written' = [written EXCEPT ![c].U = n] =>
                /\ written' \in [Conn -> [U : Nat, D : Nat]]
                /\ written'[c].U = n /\ written'[c].D = written[c].D
           /\ written' = [written EXCEPT ![c].D = n] =>
                /\ written' \in [Conn -> [U : Nat, D : Nat]]
                /\ written'[c].D = n /\ written'[c].U = written[c].U
  <1>0. written \in [Conn -> [U : Nat, D : Nat]]
    BY DEF TypeOK
  <1>1. ASSUME written' = [written EXCEPT ![c].U = n]
        PROVE  written' \in [Conn -> [U : Nat, D : Nat]]
    BY <1>0, <1>1
  <1>2. ASSUME written' = [written EXCEPT ![c].U = n]
        PROVE  written'[c].U = n /\ written'[c].D = written[c].D
    BY <1>0, <1>2
  <1>3. ASSUME written' = [written EXCEPT ![c].D = n]
        PROVE  written' \in [Conn -> [U : Nat, D : Nat]]
    BY <1>0, <1>3
  <1>4. ASSUME written' = [written EXCEPT ![c].D = n]
        PROVE  written'[c].D = n /\ written'[c].U = written[c].U
    BY <1>0, <1>4
  <1> QED BY <1>1, <1>2, <1>3, <1>4

\* What a relayed chunk does to the counters.
LEMMA TransferType ==
    ASSUME TypeOK, NEW c \in Conn,
           NEW in \in DOMAIN ProxyMetrics, NEW out \in DOMAIN ProxyMetrics, in # out,
           Transfer(c, in, out)
    PROVE  /\ proxyMetrics' \in [Conn -> [DOMAIN ProxyMetrics -> Nat]]
           /\ proxyMetrics'[c][in] = proxyMetrics[c][in] + 1
           /\ proxyMetrics'[c][out] = proxyMetrics[c][out] + 1
           /\ \A other \in DOMAIN ProxyMetrics \ {in, out} :
                proxyMetrics'[c][other] = proxyMetrics[c][other]
  BY DEF TypeOK, Transfer

\* Steps before the handler relays, from which nobody has been billed.
LEMMA AcceptConnInv ==
    ASSUME TypeOK, NEW c \in Conn, ConnInv(c), Accept(c) \/ ReadHelloFails(c)
    PROVE  TypeOK' /\ ConnInv(c)'
  <1> USE DEF sharedVars, peerVars, clientVars, targetVars, countVars, reportVars,
              ConnInv, Accept, ReadHelloFails, Suspect, readDeadline
  <1>1. TypeOK'
    <2>1. CASE Accept(c)
      BY <2>1 DEF TypeOK
    <2>2. CASE ReadHelloFails(c)
      BY <2>2 DEF TypeOK, Probe
    <2> QED BY <2>1, <2>2
  <1>2. Phase(c)'
    BY DEF TypeOK, Phase, Probe
  <1>3. Ended(c)' /\ Billing(c)'
    BY DEF TypeOK, Phase, Ended, Billing, Bills, Probe
  <1>4. Metering(c)'
    BY DEF TypeOK, Phase, Metering, Probe
  <1> QED BY <1>1, <1>2, <1>3, <1>4

\* The hello has been read, and counted.
LEMMA FindConnInv ==
    ASSUME TypeOK, NEW c \in Conn, ConnInv(c), FindAccessKey(c)
    PROVE  TypeOK' /\ ConnInv(c)'
  <1> USE DEF peerVars, clientVars, targetVars, reportVars, ConnInv
  <1>0. /\ proxyMetrics' \in [Conn -> [DOMAIN ProxyMetrics -> Nat]]
        /\ proxyMetrics'[c].ClientProxy = 1 /\ sent[c] >= 1
        /\ proxyMetrics'[c].ProxyTarget = proxyMetrics[c].ProxyTarget
        /\ proxyMetrics'[c].TargetProxy = proxyMetrics[c].TargetProxy
    BY CountType DEF Arrived, FindAccessKey
  <1>a. /\ UNCHANGED <<peerVars, written, reportVars, up, deadline>>
        /\ pc[c] = "hello"
        /\ \/ pc' = [pc EXCEPT ![c] = "replay"] /\ UNCHANGED status
           \/ /\ pc' = [pc EXCEPT ![c] = "probe"]
              /\ status' = [status EXCEPT ![c] = "ERR_CIPHER"]
    BY DEF FindAccessKey, Suspect
  <1>1. TypeOK'
    <2>1. CASE pc' = [pc EXCEPT ![c] = "replay"] /\ UNCHANGED status
      BY <1>0, <1>a, <2>1 DEF TypeOK
    <2>2. CASE /\ pc' = [pc EXCEPT ![c] = "probe"]
               /\ status' = [status EXCEPT ![c] = "ERR_CIPHER"]
      BY <1>0, <1>a, <2>2 DEF TypeOK, Probe
    <2> QED BY <1>a, <2>1, <2>2
  <1>2. Phase(c)'
    BY <1>a DEF TypeOK, Phase, Probe
  <1>3. Ended(c)' /\ Billing(c)'
    BY <1>a DEF TypeOK, Phase, Ended, Billing, Bills, Probe
  <1>4. Metering(c)'
    BY <1>0, <1>a DEF TypeOK, Phase, Metering, Probe
  <1> QED BY <1>1, <1>2, <1>3, <1>4

\* The replay check reads nothing.
LEMMA ReplayConnInv ==
    ASSUME TypeOK, NEW c \in Conn, ConnInv(c), CheckReplay(c)
    PROVE  TypeOK' /\ ConnInv(c)'
  <1> USE DEF peerVars, clientVars, targetVars, countVars, reportVars, authVars, ConnInv
  <1>0. /\ UNCHANGED <<peerVars, countVars, reportVars, up, deadline>>
        /\ \/ Suspect(c, "ERR_REPLAY_SERVER") \/ Suspect(c, "ERR_REPLAY_CLIENT")
           \/ pc' = [pc EXCEPT ![c] = "address"] /\ UNCHANGED status
        /\ pc[c] = "replay"
    BY DEF CheckReplay
  <1> USE DEF Suspect
  <1>1. TypeOK'
    <2>1. CASE Suspect(c, "ERR_REPLAY_SERVER")
      BY <1>0, <2>1 DEF TypeOK, Probe
    <2>2. CASE Suspect(c, "ERR_REPLAY_CLIENT")
      BY <1>0, <2>2 DEF TypeOK, Probe
    <2>3. CASE pc' = [pc EXCEPT ![c] = "address"] /\ UNCHANGED status
      BY <1>0, <2>3 DEF TypeOK
    <2> QED BY <1>0, <2>1, <2>2, <2>3
  <1>2. Phase(c)'
    BY <1>0 DEF TypeOK, Phase, Probe
  <1>3. Ended(c)' /\ Billing(c)'
    BY <1>0 DEF TypeOK, Phase, Ended, Billing, Bills, Probe
  <1>4. Metering(c)'
    BY <1>0 DEF TypeOK, Phase, Metering, Probe
  <1> QED BY <1>1, <1>2, <1>3, <1>4

\* The probe is reported with what the drain has counted.
LEMMA ProbeConnInv ==
    ASSUME TypeOK, NEW c \in Conn, ConnInv(c), absorbProbe(c)
    PROVE  TypeOK' /\ ConnInv(c)'
  <1> USE DEF sharedVars, peerVars, clientVars, targetVars, authVars, ConnInv
  <1>0. PICK d \in Drain(c) : CountClientProxy(c, d[2]) /\ AddTCPProbe(c, d[1])
    BY DEF absorbProbe, Drains
  <1>1. /\ d[1] \in {"eof", "timeout", "other"} /\ d[2] \in Nat /\ d[2] <= sent[c]
        /\ client[c] # "open" \/ deadline[c] = "passed"
    BY DrainFacts DEF Metering
  <1>2. /\ proxyMetrics' \in [Conn -> [DOMAIN ProxyMetrics -> Nat]]
        /\ proxyMetrics'[c].ClientProxy = d[2]
        /\ proxyMetrics'[c].ProxyTarget = proxyMetrics[c].ProxyTarget
        /\ proxyMetrics'[c].TargetProxy = proxyMetrics[c].TargetProxy
    BY <1>0, <1>1, CountType
  <1>3. /\ pc[c] = "probe" /\ pc' = [pc EXCEPT ![c] = "finish"]
        /\ UNCHANGED <<sharedVars, peerVars, written, billed, closing, up, deadline,
                       status>>
    BY DEF absorbProbe
  <1>4. /\ <<status[c], d[1], d[2]>> \in ProbeReport
        /\ probe' = [probe EXCEPT ![c] = <<status[c], d[1], d[2]>>]
    BY <1>0, <1>1, <1>2, <1>3 DEF AddTCPProbe, Observed, Phase, ProbeReport
  <1>5. TypeOK'
    BY <1>2, <1>3, <1>4 DEF TypeOK
  <1>6. Phase(c)' /\ Ended(c)'
    BY <1>1, <1>3 DEF TypeOK, Phase, Ended, Probe
  <1>7. Billing(c)'
    BY <1>3 DEF TypeOK, Phase, Billing, Bills, Probe
  <1>8. probe'[c] # None /\ probe'[c][3] = d[2]
    BY <1>4, NoneAssumption DEF TypeOK
  <1>9. Metering(c)'
    BY <1>1, <1>2, <1>3, <1>8 DEF TypeOK, Phase, Metering
  <1> QED BY <1>5, <1>6, <1>7, <1>9

\* ReadAddr returns: the host is reported, or the handler turns to the drain.
LEMMA AddressConnInv ==
    ASSUME TypeOK, NEW c \in Conn, ConnInv(c), ReadAddr(c)
    PROVE  TypeOK' /\ ConnInv(c)'
  <1> USE DEF sharedVars, peerVars, clientVars, targetVars, ConnInv
  <1>0. /\ proxyMetrics' \in [Conn -> [DOMAIN ProxyMetrics -> Nat]]
        /\ proxyMetrics'[c].ClientProxy <= sent[c]
        /\ proxyMetrics'[c].ProxyTarget = proxyMetrics[c].ProxyTarget
        /\ proxyMetrics'[c].TargetProxy = proxyMetrics[c].TargetProxy
    <2>1. CASE Arrived(c, 2) /\ CountClientProxy(c, 2)
      BY <2>1, CountType, CountFacts DEF Arrived
    <2>2. CASE UNCHANGED proxyMetrics
      BY <2>2 DEF TypeOK, Metering
    <2> QED BY <2>1, <2>2 DEF ReadAddr
  <1>1. /\ pc[c] = "address" /\ status[c] = "OK"
        /\ deadline' = [deadline EXCEPT ![c] = "none"]
        /\ \/ /\ pc' = [pc EXCEPT ![c] = "dial"]
              /\ billed' = [billed EXCEPT ![c] = @ \cup {<<"host", 1>>}]
              /\ UNCHANGED status
           \/ /\ pc' = [pc EXCEPT ![c] = "drain"]
              /\ status' = [status EXCEPT ![c] = "ERR_READ_ADDRESS"]
              /\ UNCHANGED billed
        /\ UNCHANGED <<sharedVars, peerVars, written, probe, closing, up>>
    BY DEF ReadAddr, noDeadline, Phase
  <1>2. TypeOK'
    <2>1. <<"host", 1>> \in {"host", "U", "D"} \X Nat
      OBVIOUS
    <2>2. billed' \in [Conn -> SUBSET ({"host", "U", "D"} \X Nat)]
      <3>1. CASE UNCHANGED billed
        BY <3>1 DEF TypeOK
      <3>2. CASE billed' = [billed EXCEPT ![c] = @ \cup {<<"host", 1>>}]
        BY <2>1, <3>2 DEF TypeOK
      <3> QED BY <1>1, <3>1, <3>2
    <2>3. CASE pc' = [pc EXCEPT ![c] = "dial"] /\ UNCHANGED status
      BY <1>0, <1>1, <2>2, <2>3 DEF TypeOK
    <2>4. CASE /\ pc' = [pc EXCEPT ![c] = "drain"]
               /\ status' = [status EXCEPT ![c] = "ERR_READ_ADDRESS"]
      BY <1>0, <1>1, <2>2, <2>4 DEF TypeOK
    <2> QED BY <1>1, <2>3, <2>4
  <1>3. Phase(c)' /\ Ended(c)'
    BY <1>1 DEF TypeOK, Phase, Ended, Probe
  <1>4. Billing(c)'
    BY <1>1 DEF TypeOK, Phase, Billing, Bills, Probe
  <1>5. Metering(c)'
    BY <1>0, <1>1 DEF TypeOK, Phase, Metering, Probe
  <1> QED BY <1>2, <1>3, <1>4, <1>5

\* With the deadline cleared, only the client ends the drain.
LEMMA DrainConnInv ==
    ASSUME TypeOK, NEW c \in Conn, ConnInv(c), DrainAddress(c)
    PROVE  TypeOK' /\ ConnInv(c)'
  <1> USE DEF sharedVars, peerVars, clientVars, targetVars, reportVars, authVars,
              ConnInv
  <1>0. PICK d \in Drain(c) : CountClientProxy(c, d[2])
    BY DEF DrainAddress
  <1>1. d[2] \in Nat /\ d[2] <= sent[c] /\ client[c] # "open"
    BY DrainFacts DEF Metering, DrainAddress, Phase
  <1>2. /\ proxyMetrics' \in [Conn -> [DOMAIN ProxyMetrics -> Nat]]
        /\ proxyMetrics'[c].ClientProxy = d[2]
        /\ proxyMetrics'[c].ProxyTarget = proxyMetrics[c].ProxyTarget
        /\ proxyMetrics'[c].TargetProxy = proxyMetrics[c].TargetProxy
    BY <1>0, <1>1, CountType
  <1>3. /\ pc[c] = "drain" /\ pc' = [pc EXCEPT ![c] = "finish"]
        /\ UNCHANGED <<sharedVars, peerVars, written, reportVars, up, authVars,
                       status>>
    BY DEF DrainAddress
  <1>4. TypeOK'
    BY <1>2, <1>3 DEF TypeOK
  <1>5. Phase(c)' /\ Ended(c)'
    BY <1>1, <1>3 DEF TypeOK, Phase, Ended, Probe
  <1>6. Billing(c)'
    BY <1>3 DEF TypeOK, Phase, Billing, Bills, Probe
  <1>7. Metering(c)'
    BY <1>1, <1>2, <1>3 DEF TypeOK, Phase, Metering, Probe
  <1> QED BY <1>4, <1>5, <1>6, <1>7

\* The second goroutine starts with the connection to the target.
LEMMA DialConnInv ==
    ASSUME TypeOK, NEW c \in Conn, ConnInv(c), Dial(c)
    PROVE  TypeOK' /\ ConnInv(c)'
  <1> USE DEF sharedVars, peerVars, clientVars, targetVars, reportVars, authVars,
              countVars, ConnInv, Dial, dialTarget, DialFails
  <1>1. TypeOK'
    <2>1. CASE dialTarget(c)
      BY <2>1 DEF TypeOK
    <2>2. ASSUME NEW err \in {"ERR_CONNECT", "ERR_ADDRESS"}, DialFails(c, err)
          PROVE  TypeOK'
      BY <2>2 DEF TypeOK
    <2> QED BY <2>1, <2>2
  <1>2. Phase(c)'
    BY DEF TypeOK, Phase, Probe
  <1>3. Ended(c)'
    BY DEF TypeOK, Phase, Ended, Probe
  <1>4. Billing(c)'
    BY DEF TypeOK, Phase, Billing, Bills, Probe
  <1>5. Metering(c)'
    BY DEF TypeOK, Phase, Metering, Probe
  <1> QED BY <1>1, <1>2, <1>3, <1>4, <1>5

-----------------------------------------------------------------------------
(* The goroutine that copies from the client to the target.                *)

\* Steps of this goroutine leave the main one where it is.
LEMMA UpCopyConnInv ==
    ASSUME TypeOK, NEW c \in Conn, ConnInv(c), UpCopy(c)
    PROVE  TypeOK' /\ ConnInv(c)'
  <1> USE DEF sharedVars, peerVars, clientVars, targetVars, reportVars, authVars,
              ConnInv
  <1>1. CASE UpChunk(c)
    <2>1. /\ proxyMetrics' \in [Conn -> [DOMAIN ProxyMetrics -> Nat]]
          /\ proxyMetrics'[c].ClientProxy = proxyMetrics[c].ClientProxy + 1
          /\ proxyMetrics'[c].ProxyTarget = proxyMetrics[c].ProxyTarget + 1
          /\ proxyMetrics'[c].TargetProxy = proxyMetrics[c].TargetProxy
      BY <1>1, TransferType, Counters DEF UpChunk
    <2>2. /\ written' \in [Conn -> [U : Nat, D : Nat]]
          /\ written'[c].U = written[c].U + 1 /\ written'[c].D = written[c].D
      <3>1. written' = [written EXCEPT ![c].U = written[c].U + 1]
        BY <1>1 DEF UpChunk
      <3>2. written[c].U + 1 \in Nat
        BY CountFacts
      <3> QED BY <3>1, <3>2, WrittenType
    <2>3. /\ up[c] = "copy" /\ proxyMetrics[c].ClientProxy < sent[c]
          /\ UNCHANGED <<sharedVars, peerVars, reportVars, pc, up, authVars, status>>
      BY <1>1 DEF UpChunk, ChunkArrived
    <2>4. TypeOK'
      BY <2>1, <2>2, <2>3 DEF TypeOK
    <2>5. Phase(c)' /\ Ended(c)'
      BY <2>3 DEF Phase, Ended
    <2>6. Billing(c)'
      BY <2>2, <2>3 DEF Phase, Billing, Bills
    <2>7. Metering(c)'
      BY <2>1, <2>2, <2>3, CountFacts DEF Phase, Metering
    <2> QED BY <2>4, <2>5, <2>6, <2>7
  <1>2. CASE UpCopyEnds(c)
    <2>1. proxyMetrics[c].ClientProxy = sent[c] /\ client[c] = "eof"
      <3>1. client[c] = "eof" /\ ~(proxyMetrics[c].ClientProxy < sent[c])
        BY <1>2 DEF UpCopyEnds, ChunkArrived
      <3>2. proxyMetrics[c].ClientProxy <= sent[c]
        BY DEF Metering
      <3> QED BY <3>1, <3>2, CountFacts
    <2> USE DEF UpCopyEnds, countVars
    <2>2. TypeOK'
      BY <1>2 DEF TypeOK
    <2>3. Phase(c)' /\ Ended(c)'
      BY <1>2, <2>1 DEF TypeOK, Phase, Ended
    <2>4. Billing(c)'
      BY <1>2 DEF TypeOK, Phase, Billing, Bills
    <2>5. Metering(c)'
      BY <1>2, <2>1 DEF TypeOK, Metering
    <2> QED BY <2>2, <2>3, <2>4, <2>5
  <1>3. CASE UpCopyFails(c)
    <2>1. /\ proxyMetrics' \in [Conn -> [DOMAIN ProxyMetrics -> Nat]]
          /\ proxyMetrics'[c].ClientProxy <= sent[c]
          /\ proxyMetrics'[c].ProxyTarget = proxyMetrics[c].ProxyTarget
          /\ proxyMetrics'[c].TargetProxy = proxyMetrics[c].TargetProxy
      <3>1. CASE /\ ChunkArrived(c)
                 /\ CountClientProxy(c, proxyMetrics[c].ClientProxy + 1)
        BY <3>1, CountType, CountFacts DEF ChunkArrived
      <3>2. CASE UNCHANGED proxyMetrics
        BY <3>2 DEF TypeOK, Metering
      <3> QED BY <1>3, <3>1, <3>2 DEF UpCopyFails
    <2>2. /\ up[c] = "copy" /\ up' = [up EXCEPT ![c] = "drain"]
          /\ status' = [status EXCEPT ![c] = "ERR_RELAY_CLIENT"]
          /\ UNCHANGED <<sharedVars, peerVars, written, reportVars, pc, authVars>>
      BY <1>3 DEF UpCopyFails
    <2>3. TypeOK'
      BY <2>1, <2>2 DEF TypeOK
    <2>4. Phase(c)' /\ Ended(c)'
      BY <2>2 DEF TypeOK, Phase, Ended, Probe
    <2>5. Billing(c)'
      BY <2>2 DEF TypeOK, Phase, Billing, Bills, Probe
    <2>6. Metering(c)'
      BY <2>1, <2>2 DEF TypeOK, Phase, Metering, Probe
    <2> QED BY <2>3, <2>4, <2>5, <2>6
  <1> QED BY <1>1, <1>2, <1>3 DEF UpCopy

\* The drain, and then the report and the FIN.
LEMMA UpstreamConnInv ==
    ASSUME TypeOK, NEW c \in Conn, ConnInv(c), Upstream(c)
    PROVE  TypeOK' /\ ConnInv(c)'
  <1> USE DEF sharedVars, peerVars, clientVars, targetVars, reportVars, authVars,
              ConnInv
  <1>1. CASE UpDrain(c)
    <2>0. PICK d \in Drain(c) : CountClientProxy(c, d[2])
      BY <1>1 DEF UpDrain
    <2>1. /\ d[2] \in Nat /\ d[2] <= sent[c] /\ client[c] # "open"
          /\ client[c] = "eof" => d[2] = sent[c]
      BY <1>1, DrainFacts DEF Metering, UpDrain, Phase
    <2>2. /\ proxyMetrics' \in [Conn -> [DOMAIN ProxyMetrics -> Nat]]
          /\ proxyMetrics'[c].ClientProxy = d[2]
          /\ proxyMetrics'[c].ProxyTarget = proxyMetrics[c].ProxyTarget
          /\ proxyMetrics'[c].TargetProxy = proxyMetrics[c].TargetProxy
      BY <2>0, <2>1, CountType
    <2>3. /\ up[c] = "drain" /\ up' = [up EXCEPT ![c] = "shut"]
          /\ UNCHANGED <<sharedVars, peerVars, written, reportVars, pc, authVars,
                         status>>
      BY <1>1 DEF UpDrain
    <2>4. TypeOK'
      BY <2>2, <2>3 DEF TypeOK
    <2>5. Phase(c)' /\ Ended(c)'
      BY <2>1, <2>3 DEF TypeOK, Phase, Ended
    <2>6. Billing(c)'
      BY <2>3 DEF TypeOK, Phase, Billing, Bills
    <2>7. Metering(c)'
      BY <2>1, <2>2, <2>3 DEF TypeOK, Phase, Metering, Probe
    <2> QED BY <2>4, <2>5, <2>6, <2>7
  <1>2. CASE UpShut(c)
    <2> DEFINE bill == <<"U", written[c].U>>
    <2>0. /\ up[c] = "shut" /\ up' = [up EXCEPT ![c] = "send"]
          /\ fin' = [fin EXCEPT ![c] = TRUE]
          /\ billed' = [billed EXCEPT ![c] = @ \cup {bill}]
          /\ UNCHANGED <<sharedVars, clientVars, target, replied, countVars, probe,
                         closing, pc, authVars, status>>
      BY <1>2 DEF UpShut, upSends
    <2>1. bill \in {"host", "U", "D"} \X Nat /\ bill[1] = "U"
      BY CountFacts
    <2>2. /\ billed' \in [Conn -> SUBSET ({"host", "U", "D"} \X Nat)]
          /\ billed'[c] = billed[c] \cup {bill}
      BY <2>0, <2>1 DEF TypeOK
    <2>3. Bills(c, "U")' = Bills(c, "U") \cup {bill} /\ Bills(c, "D")' = Bills(c, "D")
      BY <2>1, <2>2 DEF Bills
    <2>4. <<"host", 1>> \in billed'[c] <=> <<"host", 1>> \in billed[c]
      BY <2>2
    <2> HIDE DEF bill
    <2>5. TypeOK'
      BY <2>0, <2>2 DEF TypeOK, countVars
    <2>6. Phase(c)' /\ Ended(c)'
      BY <2>0 DEF TypeOK, Phase, Ended
    <2>7. Billing(c)'
      BY <2>0, <2>3, <2>4 DEF TypeOK, Phase, Billing, countVars, bill
    <2>8. Metering(c)'
      BY <2>0 DEF TypeOK, Metering, countVars
    <2> QED BY <2>5, <2>6, <2>7, <2>8
  <1> QED BY <1>1, <1>2 DEF Upstream

-----------------------------------------------------------------------------
(* The main goroutine, while it relays and after.                          *)

\* A bill for one direction changes nothing about the other.
LEMMA BillDown ==
    ASSUME TypeOK, NEW c \in Conn, NEW n \in Nat,
           billed' = [billed EXCEPT ![c] = @ \cup {<<"D", n>>}]
    PROVE  /\ billed' \in [Conn -> SUBSET ({"host", "U", "D"} \X Nat)]
           /\ Bills(c, "D")' = Bills(c, "D") \cup {<<"D", n>>}
           /\ Bills(c, "U")' = Bills(c, "U")
           /\ <<"host", 1>> \in billed'[c] <=> <<"host", 1>> \in billed[c]
  <1>1. <<"D", n>> \in {"host", "U", "D"} \X Nat
    OBVIOUS
  <1>2. /\ billed' \in [Conn -> SUBSET ({"host", "U", "D"} \X Nat)]
        /\ billed'[c] = billed[c] \cup {<<"D", n>>}
    BY <1>1 DEF TypeOK
  <1>3. /\ Bills(c, "D")' = Bills(c, "D") \cup {<<"D", n>>}
        /\ Bills(c, "U")' = Bills(c, "U")
    BY <1>2 DEF Bills
  <1> QED BY <1>2, <1>3

\* The copy from the target ends: the goroutine's status wins over a later error.
LEMMA DownEndsConnInv ==
    ASSUME TypeOK, NEW c \in Conn, ConnInv(c), pc[c] = "relay",
           NEW err \in BOOLEAN, DownEnds(c, err),
           proxyMetrics' \in [Conn -> [DOMAIN ProxyMetrics -> Nat]],
           written' \in [Conn -> [U : Nat, D : Nat]],
           proxyMetrics'[c].ClientProxy = proxyMetrics[c].ClientProxy,
           proxyMetrics'[c].ProxyTarget = proxyMetrics[c].ProxyTarget,
           written'[c].U = written[c].U,
           written'[c].D = proxyMetrics'[c].TargetProxy
    PROVE  TypeOK' /\ ConnInv(c)'
  <1> USE DEF sharedVars, peerVars, clientVars, targetVars, authVars, ConnInv
  <1>1. /\ pc' = [pc EXCEPT ![c] = "await"]
        /\ billed' = [billed EXCEPT ![c] = @ \cup {<<"D", written'[c].D>>}]
        /\ status' \in [Conn -> Probe \cup
                     {"OK", "ERR_READ_ADDRESS", "ERR_CONNECT", "ERR_ADDRESS",
                      "ERR_RELAY_CLIENT", "ERR_RELAY_TARGET"}]
        /\ status'[c] \in {"OK", "ERR_RELAY_CLIENT", "ERR_RELAY_TARGET"}
        /\ UNCHANGED <<sharedVars, peerVars, probe, closing, up, authVars>>
    BY DEF DownEnds, TypeOK, Phase
  <1>2. written'[c].D \in Nat
    OBVIOUS
  <1>3. /\ billed' \in [Conn -> SUBSET ({"host", "U", "D"} \X Nat)]
        /\ Bills(c, "D")' = Bills(c, "D") \cup {<<"D", written'[c].D>>}
        /\ Bills(c, "U")' = Bills(c, "U")
        /\ <<"host", 1>> \in billed'[c] <=> <<"host", 1>> \in billed[c]
    BY <1>1, <1>2, BillDown
  <1>4. TypeOK'
    BY <1>1, <1>3 DEF TypeOK
  <1>5. Phase(c)' /\ Ended(c)'
    BY <1>1 DEF TypeOK, Phase, Ended, Probe
  <1>6. Billing(c)'
    BY <1>1, <1>3 DEF TypeOK, Phase, Billing
  <1>7. Metering(c)'
    BY <1>1 DEF TypeOK, Phase, Metering, Probe
  <1> QED BY <1>4, <1>5, <1>6, <1>7

\* The steps of the main goroutine while it relays, and its end.
LEMMA DownstreamConnInv ==
    ASSUME TypeOK, NEW c \in Conn, ConnInv(c), Downstream(c)
    PROVE  TypeOK' /\ ConnInv(c)'
  <1> USE DEF sharedVars, peerVars, clientVars, targetVars, reportVars, authVars,
              ConnInv
  <1>1. CASE DownChunk(c)
    <2>1. /\ proxyMetrics' \in [Conn -> [DOMAIN ProxyMetrics -> Nat]]
          /\ proxyMetrics'[c].ClientProxy = proxyMetrics[c].ClientProxy
          /\ proxyMetrics'[c].ProxyTarget = proxyMetrics[c].ProxyTarget
          /\ proxyMetrics'[c].TargetProxy = proxyMetrics[c].TargetProxy + 1
      BY <1>1, TransferType, Counters DEF DownChunk
    <2>2. /\ written' \in [Conn -> [U : Nat, D : Nat]]
          /\ written'[c].U = written[c].U /\ written'[c].D = written[c].D + 1
      <3>1. written' = [written EXCEPT ![c].D = written[c].D + 1]
        BY <1>1 DEF DownChunk
      <3>2. written[c].D + 1 \in Nat
        BY CountFacts
      <3> QED BY <3>1, <3>2, WrittenType
    <2>3. /\ pc[c] = "relay"
          /\ UNCHANGED <<sharedVars, peerVars, reportVars, pc, up, authVars, status>>
      BY <1>1 DEF DownChunk
    <2>4. TypeOK'
      BY <2>1, <2>2, <2>3 DEF TypeOK
    <2>5. Phase(c)' /\ Ended(c)'
      BY <2>3 DEF Phase, Ended
    <2>6. Billing(c)'
      BY <2>2, <2>3 DEF Phase, Billing, Bills
    <2>7. Metering(c)'
      BY <2>1, <2>2, <2>3 DEF Phase, Metering
    <2> QED BY <2>4, <2>5, <2>6, <2>7
  <1>2. CASE DownCopyEnds(c)
    BY <1>2, DownEndsConnInv DEF DownCopyEnds, TypeOK, countVars, Metering
  <1>3. CASE DownFlushFails(c)
    <2>1. /\ proxyMetrics' \in [Conn -> [DOMAIN ProxyMetrics -> Nat]]
          /\ proxyMetrics'[c].ClientProxy = proxyMetrics[c].ClientProxy
          /\ proxyMetrics'[c].ProxyTarget = proxyMetrics[c].ProxyTarget
          /\ proxyMetrics'[c].TargetProxy = proxyMetrics[c].TargetProxy + 1
      <3>1. proxyMetrics' =
              [proxyMetrics EXCEPT ![c].TargetProxy = proxyMetrics[c].TargetProxy + 1]
        BY <1>3 DEF DownFlushFails
      <3>2. proxyMetrics[c].TargetProxy + 1 \in Nat
        BY CountFacts
      <3> QED BY <3>1, <3>2, ReadType
    <2>2. /\ written' \in [Conn -> [U : Nat, D : Nat]]
          /\ written'[c].U = written[c].U /\ written'[c].D = written[c].D + 1
      <3>1. written' = [written EXCEPT ![c].D = written[c].D + 1]
        BY <1>3 DEF DownFlushFails, ReadCount
      <3>2. written[c].D + 1 \in Nat
        BY CountFacts
      <3> QED BY <3>1, <3>2, WrittenType
    <2>3. written'[c].D = proxyMetrics'[c].TargetProxy
      BY <2>1, <2>2 DEF Metering
    <2>4. pc[c] = "relay" /\ DownEnds(c, TRUE)
      BY <1>3 DEF DownFlushFails
    <2> HIDE DEF ConnInv
    <2> QED BY <2>1, <2>2, <2>3, <2>4, DownEndsConnInv
  <1>4. CASE ReceiveFromClientErr(c)
    <2> USE DEF ReceiveFromClientErr, Sending, countVars
    <2>1. TypeOK'
      BY <1>4 DEF TypeOK
    <2>2. Phase(c)'
      BY <1>4 DEF TypeOK, Phase, Probe
    <2>3. Ended(c)'
      BY <1>4 DEF TypeOK, Phase, Ended, Probe
    <2>4. Billing(c)'
      BY <1>4 DEF TypeOK, Phase, Billing, Bills, Probe
    <2>5. Metering(c)'
      BY <1>4 DEF TypeOK, Phase, Metering, Probe
    <2> QED BY <2>1, <2>2, <2>3, <2>4, <2>5
  <1>5. CASE Finish(c)
    <2> USE DEF Finish, AddClosedTCPConnection, countVars
    <2>1. TypeOK'
      BY <1>5 DEF TypeOK
    <2>2. Phase(c)' /\ Ended(c)'
      BY <1>5 DEF TypeOK, Phase, Ended
    <2>3. Billing(c)'
      BY <1>5 DEF TypeOK, Phase, Billing, Bills
    <2>4. Metering(c)'
      BY <1>5 DEF TypeOK, Phase, Metering
    <2> QED BY <2>1, <2>2, <2>3, <2>4
  <1> QED BY <1>1, <1>2, <1>3, <1>4, <1>5 DEF Downstream

-----------------------------------------------------------------------------
(* Each connection by itself.                                              *)

\* Every step preserves the inductive invariant.
LEMMA NextIInv ==
    ASSUME IInv, [Next]_vars
    PROVE  IInv'
  <1> USE DEF IInv
  <1>1. ASSUME NEW c \in Conn, Step(c) PROVE IInv'
    <2>1. TypeOK' /\ ConnInv(c)'
      BY <1>1, EnvironmentConnInv, AcceptConnInv, FindConnInv, ReplayConnInv,
         ProbeConnInv, AddressConnInv, DrainConnInv, DialConnInv, UpCopyConnInv,
         UpstreamConnInv, DownstreamConnInv DEF Step, Authenticate
    <2>2. ASSUME NEW d \in Conn, d # c PROVE ConnInv(d)'
      <3>1. Own(d)' = Own(d)
        BY <1>1, <2>2, OthersAlone
      <3> QED BY <3>1, SameConnInv
    <2> QED BY <2>1, <2>2
  <1>2. ASSUME UNCHANGED <<pc, up, hello, sent, address, client, target, replied, fin,
                           deadline, status, proxyMetrics, written, billed, probe,
                           closing>>
        PROVE  IInv'
    <2>1. TypeOK'
      BY <1>2 DEF TypeOK
    <2>2. ASSUME NEW d \in Conn PROVE ConnInv(d)'
      BY <1>2, SameConnInv DEF Own
    <2> QED BY <2>1, <2>2
  <1>3. ASSUME NEW keys \in Ciphers!Contents, UpdateKeys(keys) PROVE IInv'
    BY <1>2, <1>3 DEF UpdateKeys, peerVars, clientVars, targetVars, countVars,
                      reportVars, authVars
  <1>4. CASE UNCHANGED vars
    BY <1>2, <1>4 DEF vars
  <1> QED BY <1>1, <1>3, <1>4 DEF Next, Step

\* The inductive invariant holds of every behaviour.
THEOREM Invariant == Spec => []IInv
  BY InitIInv, NextIInv, PTL DEF Spec

\* The variables have their types.
THEOREM TypeCorrect == Spec => []TypeOK
  BY Invariant, PTL DEF IInv

\* Whoever fails to authenticate learns nothing from the close.
THEOREM ClosesSilently == Spec => []SilentClose
  <1>1. IInv => SilentClose
    BY DEF IInv, ConnInv, Ended, SilentClose
  <1> QED BY <1>1, Invariant, PTL

\* The FIN to the target and the close come after the client has ended.
THEOREM DrainsFirst == Spec => []FinAfterDrain
  <1>1. IInv => FinAfterDrain
    BY DEF IInv, ConnInv, Ended, FinAfterDrain
  <1> QED BY <1>1, Invariant, PTL

\* When the handler is through, its goroutine is too, and what reached its target
\* was billed once in each direction.
THEOREM LeavesNothingBehind == Spec => []NothingLeftBehind
  <1>1. ASSUME IInv PROVE NothingLeftBehind
    <2> SUFFICES ASSUME NEW c \in Conn, pc[c] \in {"finish", "closed"}
                 PROVE  /\ up[c] = "none"
                        /\ target[c] \in {"none", "closed"}
                        /\ \A what \in {"U", "D"} :
                             Cardinality({b \in billed[c] : b[1] = what}) =
                               IF target[c] = "closed" THEN 1 ELSE 0
                        /\ <<"host", 1>> \in billed[c] <=>
                             status[c] \notin Probe \cup {"ERR_READ_ADDRESS"}
      BY DEF NothingLeftBehind
    <2> USE <1>1 DEF IInv, ConnInv
    <2>1. up[c] = "none" /\ target[c] \in {"none", "closed"}
      BY DEF TypeOK, Phase
    <2>2. <<"host", 1>> \in billed[c] <=>
            status[c] \notin Probe \cup {"ERR_READ_ADDRESS"}
      BY DEF Billing
    <2>3. /\ Bills(c, "U") = IF target[c] = "closed" THEN {<<"U", written[c].U>>} ELSE {}
          /\ Bills(c, "D") = IF target[c] = "closed" THEN {<<"D", written[c].D>>} ELSE {}
      BY <2>1 DEF Billing
    <2>4. ASSUME NEW what \in {"U", "D"}
          PROVE  Cardinality(Bills(c, what)) = IF target[c] = "closed" THEN 1 ELSE 0
      BY <2>3, FS_EmptySet, FS_Singleton
    <2> QED BY <2>1, <2>2, <2>4 DEF Bills
  <1> QED BY <1>1, Invariant, PTL

\* What is billed, what the probe report says and what AddClosedTCPConnection is
\* told agree.
THEOREM ThreeMetersAgree == Spec => []MetersAgree
  <1>1. ASSUME IInv, NEW c \in Conn, pc[c] = "closed"
        PROVE  /\ closing[c] = proxyMetrics[c]
               /\ status[c] \in Probe <=> probe[c] # None
               /\ probe[c] # None => probe[c][3] = closing[c].ClientProxy
               /\ target[c] = "closed" =>
                    /\ {<<"U", closing[c].ProxyTarget>>, <<"D", closing[c].TargetProxy>>}
                         \subseteq billed[c]
                    /\ client[c] = "eof" => closing[c].ClientProxy = sent[c]
    <2> USE <1>1 DEF IInv, ConnInv
    <2>1. /\ closing[c] = proxyMetrics[c]
          /\ status[c] \in Probe <=> probe[c] # None
          /\ probe[c] # None => probe[c][3] = closing[c].ClientProxy
      BY DEF Metering
    <2>2. CASE target[c] = "closed"
      <3>1. <<"U", written[c].U>> \in Bills(c, "U") /\ <<"D", written[c].D>> \in Bills(c, "D")
        BY <2>2 DEF Billing
      <3>2. <<"U", closing[c].ProxyTarget>> \in billed[c]
        BY <2>1, <3>1 DEF Bills, Metering
      <3>3. <<"D", closing[c].TargetProxy>> \in billed[c]
        BY <2>1, <3>1 DEF Bills, Metering
      <3>4. client[c] = "eof" => closing[c].ClientProxy = sent[c]
        BY <2>1, <2>2 DEF Metering
      <3> QED BY <2>1, <3>2, <3>3, <3>4
    <2> QED BY <2>1, <2>2
  <1>2. IInv => MetersAgree
    BY <1>1 DEF MetersAgree
  <1> QED BY <1>2, Invariant, PTL

-----------------------------------------------------------------------------
(* All connections together: replayed handshakes.                          *)

\* What every step but the replay check does to its connection.
Quiet(c) ==
    /\ c \in Checked => c \in Checked'
    /\ HelloKnown(c)'
    /\ Passed(c)' => Passed(c) /\ hello'[c] = hello[c]

\* The handlers that are through with the check are finitely many.
LEMMA CheckedFacts ==
    /\ Checked \in SUBSET Conn /\ IsFiniteSet(Checked) /\ Cardinality(Checked) \in Nat
    /\ Checked' \in SUBSET Conn /\ IsFiniteSet(Checked') /\ Cardinality(Checked') \in Nat
    /\ IsFiniteSet(Conn) /\ Cardinality(Conn) \in Nat
  <1>1. Checked \in SUBSET Conn /\ Checked' \in SUBSET Conn
    BY DEF Checked
  <1>2. IsFiniteSet(Checked) /\ IsFiniteSet(Checked')
    BY <1>1, ConnAssumption, FS_Subset
  <1> QED BY <1>1, <1>2, ConnAssumption, FS_CardinalityType

\* Who has passed stays passed, and nobody else does: the invariant stays.
LEMMA QuietReplayInv ==
    ASSUME ReplayInv, UNCHANGED <<active, archive>>, \A c \in Conn : Quiet(c)
    PROVE  ReplayInv'
  <1> USE DEF ReplayInv
  <1>1. \A c \in Conn : HelloKnown(c)'
    BY DEF Quiet
  <1>2. CacheHolds'
    <2>1. Checked \subseteq Checked'
      BY DEF Quiet, Checked
    <2>2. Cardinality(Checked) <= Cardinality(Checked')
      BY <2>1, CheckedFacts, FS_Subset
    <2>3. ASSUME IsFiniteSet(active), Cardinality(active) <= Cardinality(Checked)
          PROVE  Cardinality(active) <= Cardinality(Checked')
      BY <2>2, <2>3, CheckedFacts, FS_CardinalityType
    <2>4. Checked = Conn => Checked' = Conn
      BY <2>1, CheckedFacts
    <2> QED BY <2>3, <2>4 DEF CacheHolds, Quiet
  <1>3. NoReplay'
    BY DEF NoReplay, Quiet
  <1> QED BY <1>1, <1>2, <1>3

\* A connection that does not move.
LEMMA StillQuiet ==
    ASSUME NEW d \in Conn, HelloKnown(d), Own(d)' = Own(d)
    PROVE  Quiet(d)
  BY DEF Own, Quiet, HelloKnown, Passed, Checked

\* Steps that keep the handler on the side of the check where it is.
LEMMA QuietStep ==
    ASSUME IInv, NEW c \in Conn, HelloKnown(c), Step(c), ~CheckReplay(c)
    PROVE  Quiet(c)
  <1> USE DEF Quiet, Checked, HelloKnown, Passed
  <1> USE DEF sharedVars, peerVars, clientVars, targetVars, countVars, reportVars,
              authVars
  <1>0. TypeOK /\ Phase(c)
    BY DEF IInv, ConnInv
  <1>1. CASE Accept(c) \/ ReadHelloFails(c)
    BY <1>0, <1>1 DEF Accept, ReadHelloFails, Suspect, TypeOK, Probe
  <1>2. CASE FindAccessKey(c)
    <2>1. sent[c] >= 1 /\ pc[c] = "hello"
      BY <1>2 DEF FindAccessKey, Arrived
    <2>2. CASE pc' = [pc EXCEPT ![c] = "replay"] /\ Decrypting(c) # {}
      <3>1. hello[c] \in Handshake
        BY <1>0, <2>2 DEF Decrypting, TypeOK
      <3> QED BY <1>0, <1>2, <2>1, <2>2, <3>1 DEF FindAccessKey, TypeOK
    <2>3. CASE Suspect(c, "ERR_CIPHER")
      BY <1>0, <1>2, <2>1, <2>3 DEF FindAccessKey, Suspect, TypeOK, Probe
    <2> QED BY <1>2, <2>2, <2>3 DEF FindAccessKey
  <1>3. CASE absorbProbe(c) \/ DrainAddress(c)
    BY <1>0, <1>3 DEF absorbProbe, DrainAddress, TypeOK, Phase, Probe
  <1>4. CASE ReadAddr(c)
    BY <1>0, <1>4 DEF ReadAddr, TypeOK, Phase, Probe
  <1>5. CASE Dial(c)
    BY <1>0, <1>5 DEF Dial, dialTarget, DialFails, TypeOK, Phase, Probe
  <1>6. CASE UpCopy(c) \/ Upstream(c)
    BY <1>0, <1>6 DEF UpCopy, Upstream, UpChunk, UpCopyEnds, UpCopyFails, UpDrain,
                      UpShut, TypeOK, Phase, Probe
  <1>7. CASE Downstream(c)
    BY <1>0, <1>7 DEF Downstream, DownChunk, DownCopyEnds, DownFlushFails, DownEnds,
                      ReceiveFromClientErr, Finish, TypeOK, Phase, Probe
  <1>8. ASSUME NEW h \in Handshake \cup {Garbage}, SendHello(c, h) PROVE Quiet(c)
    BY <1>0, <1>8 DEF SendHello, TypeOK, Phase, Probe
  <1>9. CASE SendChunk(c) \/ \E good \in BOOLEAN : SendAddress(c, good)
    BY <1>0, <1>9, CountFacts DEF SendChunk, SendAddress, TypeOK
  <1>10. CASE \/ TargetSends(c) \/ Expire(c)
              \/ \E how \in {"eof", "reset"} : ClientEnds(c, how)
              \/ \E how \in {"eof", "error"} : TargetEnds(c, how)
    BY <1>0, <1>10 DEF TargetSends, Expire, ClientEnds, TargetEnds, TypeOK
  <1> QED BY <1>1, <1>2, <1>3, <1>4, <1>5, <1>6, <1>7, <1>8, <1>9, <1>10
          DEF Step, Authenticate, Environment

\* Only the replay check touches the cache.
LEMMA CacheUntouched ==
    ASSUME NEW c \in Conn, Step(c), ~CheckReplay(c)
    PROVE  UNCHANGED <<active, archive>>
  <1> USE DEF sharedVars, replayVars
  <1>1. CASE Accept(c) \/ Expire(c) \/ Dial(c) \/ Authenticate(c)
    BY <1>1 DEF Accept, Expire, Dial, dialTarget, DialFails, Authenticate,
                ReadHelloFails, FindAccessKey, absorbProbe, ReadAddr, DrainAddress
  <1>2. CASE UpCopy(c) \/ Upstream(c) \/ Downstream(c)
    BY <1>2 DEF UpCopy, Upstream, UpChunk, UpCopyEnds, UpCopyFails, UpDrain, UpShut,
                Downstream, DownChunk, DownCopyEnds, DownFlushFails, DownEnds,
                ReceiveFromClientErr, Finish
  <1>3. CASE Environment(c)
    BY <1>3 DEF Environment, SendHello, SendAddress, SendChunk, ClientEnds,
                TargetSends, TargetEnds
  <1> QED BY <1>1, <1>2, <1>3 DEF Step

\* A handshake that the check refuses passes nobody.
LEMMA RefusedQuiet ==
    ASSUME IInv, NEW c \in Conn, HelloKnown(c), CheckReplay(c),
           Suspect(c, "ERR_REPLAY_SERVER") \/ Suspect(c, "ERR_REPLAY_CLIENT")
    PROVE  Quiet(c)
  <1>1. TypeOK /\ status[c] = "OK" /\ pc[c] = "replay"
    BY DEF IInv, ConnInv, Phase, CheckReplay
  <1>2. UNCHANGED <<hello, sent>>
    BY DEF CheckReplay, peerVars, clientVars
  <1> QED BY <1>1, <1>2 DEF Quiet, Checked, HelloKnown, Passed, Suspect, TypeOK, Probe

\* len of the cache's map is the cardinality of its keys here, too.
LEMMA SameCardinality == \A S : Cache!Cardinality(S) = Cardinality(S)
  BY Zenon DEF Cache!Cardinality, Cardinality, Cache!IsFiniteSet, IsFiniteSet

\* The check counts its connection.
LEMMA CheckCounts ==
    ASSUME IInv, NEW c \in Conn, CheckReplay(c)
    PROVE  /\ c \notin Checked /\ Checked' = Checked \cup {c}
           /\ Cardinality(Checked') = Cardinality(Checked) + 1
  <1>1. c \notin Checked /\ TypeOK
    BY DEF CheckReplay, Checked, IInv
  <1>2. \/ pc' = [pc EXCEPT ![c] = "probe"] \/ pc' = [pc EXCEPT ![c] = "address"]
    BY DEF CheckReplay, Suspect
  <1>3. Checked' = Checked \cup {c}
    BY <1>1, <1>2 DEF Checked, TypeOK
  <1> QED BY <1>1, <1>3, CheckedFacts, FS_AddElement

\* The step that may let a handshake pass.
LEMMA CheckReplayInv ==
    ASSUME IInv, ReplayInv, NEW c \in Conn, CheckReplay(c)
    PROVE  ReplayInv'
  <1>0. /\ TypeOK /\ pc[c] = "replay" /\ HelloKnown(c) /\ status[c] = "OK"
        /\ sent[c] >= 1 /\ hello[c] \in Handshake /\ UNCHANGED <<hello, sent>>
    BY DEF IInv, ConnInv, Phase, ReplayInv, HelloKnown, CheckReplay, peerVars,
           clientVars
  <1>1. ASSUME NEW d \in Conn, d # c PROVE Own(d)' = Own(d) /\ Quiet(d)
    <2>1. Step(c)
      BY DEF Step, Authenticate
    <2>2. Own(d)' = Own(d)
      BY <1>0, <1>1, <2>1, OthersAlone
    <2> QED BY <2>2, StillQuiet DEF ReplayInv
  <1>2. CASE /\ UNCHANGED <<active, archive>>
             /\ Suspect(c, "ERR_REPLAY_SERVER") \/ Suspect(c, "ERR_REPLAY_CLIENT")
    BY <1>0, <1>1, <1>2, RefusedQuiet, QuietReplayInv
  <1>3. ASSUME Cache!AddToActive(hello[c]) \/ Cache!AddDisabled(hello[c]),
               ~IsServerSalt(hello[c])
        PROVE  ReplayInv'
    <2>1. \A d \in Conn : HelloKnown(d)'
      <3>1. HelloKnown(c)'
        BY <1>0, <1>3 DEF HelloKnown, IsServerSalt
      <3> QED BY <1>1, <3>1 DEF Quiet
    <2>2. \A d \in Conn : d # c /\ Passed(d)' => Passed(d) /\ hello'[d] = hello[d]
      BY <1>1 DEF Quiet
    <2>3. ASSUME Capacity # 0, Cardinality(Conn) <= Capacity + 1
          PROVE  /\ archive = {} /\ Cache!AddToActive(hello[c])
                 /\ IsFiniteSet(active) /\ Cardinality(active) \in Nat
                 /\ Cardinality(active) <= Cardinality(Checked)
                 /\ \A d \in Conn : Passed(d) => HashOf[hello[d]] \in active
                 /\ HashOf[hello[c]] \notin active
      <3>1. archive = {} /\ IsFiniteSet(active)
        BY <2>3, CheckCounts DEF ReplayInv, CacheHolds
      <3>2. Cardinality(active) \in Nat
        BY <3>1, FS_CardinalityType
      <3>3. Cache!AddToActive(hello[c]) /\ HashOf[hello[c]] \notin active
        BY <1>3, <2>3 DEF Cache!AddToActive, Cache!AddDisabled
      <3> QED BY <2>3, <3>1, <3>2, <3>3 DEF ReplayInv, CacheHolds
    <2>4. ASSUME Capacity # 0, Cardinality(Conn) <= Capacity + 1
          PROVE  /\ IsFiniteSet(active')
                 /\ archive' = {} =>
                      /\ Cardinality(active') <= Cardinality(Checked')
                      /\ \A d \in Conn : Passed(d)' => HashOf[hello'[d]] \in active'
                 /\ archive' # {} => Checked' = Conn
      <3>1. CASE Cardinality(active) = Capacity
        <4>1. archive' = active /\ active' = {HashOf[hello[c]]}
          BY <2>3, <2>4, <3>1, SameCardinality DEF Cache!AddToActive
        <4>2. archive' # {} /\ IsFiniteSet(active')
          BY <2>4, <3>1, <4>1, FS_EmptySet, FS_Singleton
        <4>3. Cardinality(Checked') >= Cardinality(Conn)
          BY <2>3, <2>4, <3>1, CheckCounts, CheckedFacts
        <4>4. Checked' = Conn
          BY <4>3, CheckedFacts, FS_Subset
        <4> QED BY <4>2, <4>4
      <3>2. CASE Cardinality(active) # Capacity
        <4>1. archive' = {} /\ active' = active \cup {HashOf[hello[c]]}
          BY <2>3, <2>4, <3>2, SameCardinality DEF Cache!AddToActive
        <4>2. IsFiniteSet(active') /\ Cardinality(active') = Cardinality(active) + 1
          BY <2>3, <2>4, <4>1, FS_AddElement
        <4>3. Cardinality(active') <= Cardinality(Checked')
          BY <2>3, <2>4, <4>2, CheckCounts, CheckedFacts
        <4>4. \A d \in Conn : Passed(d)' => HashOf[hello'[d]] \in active'
          BY <1>0, <2>2, <2>3, <2>4, <4>1
        <4> QED BY <4>1, <4>2, <4>3, <4>4
      <3> QED BY <3>1, <3>2
    <2>5. CacheHolds'
      BY <2>4 DEF CacheHolds
    <2>6. ASSUME NEW d \in Conn, d # c, Passed(d), Cardinality(Conn) <= Capacity + 1
          PROVE  hello[c] # hello[d]
      <3>1. Capacity # 0
        <4>1. IsFiniteSet({c}) /\ Cardinality({c}) = 1 /\ d \notin {c}
          BY <2>6, FS_Singleton
        <4>2. IsFiniteSet({c} \cup {d}) /\ Cardinality({c} \cup {d}) = 2
          BY <4>1, FS_AddElement
        <4>3. {c} \cup {d} \subseteq Conn
          BY <2>6
        <4>4. Cardinality(Conn) >= 2
          BY <4>2, <4>3, CheckedFacts, FS_Subset
        <4> QED BY <2>6, <4>4, CheckedFacts, CapacityAssumption
      <3> QED BY <2>3, <2>6, <3>1
    <2>7. NoReplay'
      <3> SUFFICES ASSUME NEW a \in Conn, Passed(a)'
                   PROVE  /\ hello'[a] \in Handshake \ ServerSalts
                          /\ Cardinality(Conn) <= Capacity + 1 =>
                               \A b \in Conn \ {a} : Passed(b)' => hello'[a] # hello'[b]
        BY DEF NoReplay
      <3>1. hello'[a] \in Handshake \ ServerSalts
        BY <1>0, <1>3, <2>2 DEF ReplayInv, NoReplay, IsServerSalt
      <3>2. ASSUME Cardinality(Conn) <= Capacity + 1, NEW b \in Conn \ {a}, Passed(b)'
            PROVE  hello'[a] # hello'[b]
        <4>1. CASE a # c /\ b # c
          BY <2>2, <3>2, <4>1 DEF ReplayInv, NoReplay
        <4>2. CASE a = c
          BY <1>0, <2>2, <2>6, <3>2, <4>2
        <4>3. CASE b = c
          BY <1>0, <2>2, <2>6, <3>2, <4>3
        <4> QED BY <4>1, <4>2, <4>3
      <3> QED BY <3>1, <3>2
    <2> QED BY <2>1, <2>5, <2>7 DEF ReplayInv
  <1>4. CASE IsServerSalt(hello[c])
    BY <1>2, <1>4 DEF CheckReplay, replayVars
  <1>5. CASE ~IsServerSalt(hello[c]) /\ Cache!AddFastReplay(hello[c])
    <2>1. UNCHANGED <<active, archive>> /\ ~accepted'
      BY <1>5 DEF Cache!AddFastReplay, Cache!cacheVars
    <2>2. Suspect(c, "ERR_REPLAY_CLIENT")
      BY <1>5, <2>1 DEF CheckReplay, Unseen
    <2> QED BY <1>2, <2>1, <2>2
  <1> QED BY <1>3, <1>4, <1>5 DEF CheckReplay, Cache!Add

\* No handshake is accepted twice.
LEMMA NextReplayInv ==
    ASSUME IInv, ReplayInv, [Next]_vars
    PROVE  ReplayInv'
  <1> USE DEF ReplayInv
  <1>1. ASSUME NEW c \in Conn, Step(c), ~CheckReplay(c) PROVE ReplayInv'
    <2>1. Quiet(c)
      BY <1>1, QuietStep
    <2>2. ASSUME NEW d \in Conn, d # c PROVE Quiet(d)
      BY <1>1, <2>2, OthersAlone, StillQuiet DEF IInv
    <2> QED BY <1>1, <2>1, <2>2, CacheUntouched, QuietReplayInv
  <1>2. ASSUME UNCHANGED <<active, archive, pc, up, hello, sent, client, target, fin,
                           deadline, status, proxyMetrics, written, billed, probe,
                           closing>>
        PROVE  ReplayInv'
    <2>1. ASSUME NEW d \in Conn PROVE Quiet(d)
      BY <1>2, StillQuiet DEF Own
    <2> QED BY <1>2, <2>1, QuietReplayInv
  <1>3. ASSUME NEW keys \in Ciphers!Contents, UpdateKeys(keys) PROVE ReplayInv'
    BY <1>2, <1>3 DEF UpdateKeys, replayVars, peerVars, clientVars, targetVars,
                      countVars, reportVars, authVars
  <1>4. CASE UNCHANGED vars
    BY <1>2, <1>4 DEF vars
  <1> QED BY <1>1, <1>3, <1>4, CheckReplayInv DEF Next, Step, Authenticate

\* Nobody has passed the check and the cache is empty at first.
LEMMA InitReplayInv == Init => ReplayInv
  <1> SUFFICES ASSUME Init PROVE ReplayInv
    OBVIOUS
  <1>1. Checked = {} /\ \A c \in Conn : ~Passed(c)
    BY DEF Init, Checked, Passed
  <1>2. active = {} /\ archive = {}
    BY DEF Init, Cache!NewReplayCache
  <1>3. \A c \in Conn : HelloKnown(c)
    BY <1>1 DEF Init, HelloKnown
  <1>4. CacheHolds
    BY <1>1, <1>2, FS_EmptySet DEF CacheHolds
  <1> QED BY <1>1, <1>3, <1>4 DEF ReplayInv, NoReplay

\* In every interleaving of the handlers, of the connections that present one
\* handshake at most one gets past the replay check, and none with a salt of the
\* server.
THEOREM ReplaysAreRefused == Spec => []NoReplay
  <1>1. Init => IInv /\ ReplayInv
    BY InitIInv, InitReplayInv
  <1>2. IInv /\ ReplayInv /\ [Next]_vars => IInv' /\ ReplayInv'
    BY NextIInv, NextReplayInv
  <1>3. ReplayInv => NoReplay
    BY DEF ReplayInv
  <1> QED BY <1>1, <1>2, <1>3, PTL DEF Spec

-----------------------------------------------------------------------------
(* The keys a handshake is judged by.  Here, too, the function that Only   *)
(* defines is shown to exist by a least counterexample.                    *)

\* A set of numbers that is not empty has a least one.
LEMMA Minimum ==
    ASSUME NEW S \in SUBSET Nat, S # {}
    PROVE  \E i \in S : \A j \in S : i <= j
  <1>1. PICK i \in S : \A j \in S : ~ (<<j, i>> \in OpToRel(<, Nat))
    BY NatLessThanWellFounded, WFMin
  <1>2. \A j \in S : ~ (j < i)
    BY <1>1 DEF OpToRel
  <1> QED BY <1>2

\* One step of a pass.
Take(r, x, S) == IF x \in S THEN Append(r, x) ELSE r

\* f records what a pass over s has taken after each of its first m elements.
Passes(f, s, S, m) ==
    f[0] = <<>> /\ \A n \in 1 .. m : f[n] = Take(f[n - 1], s[n], S)

\* A pass of any length exists.
LEMMA PassExists ==
    ASSUME NEW s, NEW S
    PROVE  \A m \in Nat : \E f : Passes(f, s, S, m)
  <1> SUFFICES ASSUME NEW m0 \in Nat, ~ \E f : Passes(f, s, S, m0) PROVE FALSE
    OBVIOUS
  <1> DEFINE Bad == {m \in Nat : ~ \E f : Passes(f, s, S, m)}
  <1>1. PICK m \in Bad : \A j \in Bad : m <= j
    <2> HIDE DEF Bad
    <2>1. Bad \in SUBSET Nat /\ Bad # {}
      BY DEF Bad
    <2> QED BY <2>1, Minimum
  <1>2. CASE m = 0
    <2>1. Passes([n \in {0} |-> <<>>], s, S, 0)
      BY DEF Passes
    <2> QED BY <1>1, <1>2, <2>1
  <1>3. CASE m # 0
    <2>1. m \in Nat /\ m - 1 \in Nat /\ m - 1 \notin Bad
      BY <1>1, <1>3
    <2>2. PICK f : Passes(f, s, S, m - 1)
      BY <2>1
    <2> DEFINE last == Take(f[m - 1], s[m], S)
               g == [n \in 0 .. m |-> IF n = m THEN last ELSE f[n]]
    <2>3. \A n \in 0 .. m : g[n] = IF n = m THEN last ELSE f[n]
      OBVIOUS
    <2> HIDE DEF g
    <2>4. g[0] = <<>>
      BY <1>3, <2>1, <2>2, <2>3 DEF Passes
    <2>5. g[m] = Take(g[m - 1], s[m], S)
      <3>1. m \in 0 .. m /\ m - 1 \in 0 .. m /\ m - 1 # m
        BY <1>3, <2>1
      <3> QED BY <2>3, <3>1
    <2>6. ASSUME NEW n \in 1 .. m, n # m PROVE g[n] = Take(g[n - 1], s[n], S)
      <3>1. /\ n \in 0 .. m /\ n - 1 \in 0 .. m
            /\ n # m /\ n - 1 # m /\ n \in 1 .. (m - 1)
        BY <2>1, <2>6
      <3>2. f[n] = Take(f[n - 1], s[n], S)
        BY <2>2, <3>1 DEF Passes
      <3> QED BY <2>3, <3>1, <3>2
    <2>7. Passes(g, s, S, m)
      BY <2>4, <2>5, <2>6 DEF Passes
    <2> QED BY <1>1, <2>7
  <1> QED BY <1>2, <1>3

\* Only is the end of a pass.
LEMMA OnlyPasses ==
    ASSUME NEW T, NEW s \in Seq(T), NEW S
    PROVE  \E F : Passes(F, s, S, Len(s)) /\ Ciphers!Only(s, S) = F[Len(s)]
  <1> DEFINE N == Len(s)
             F == CHOOSE f : f = [n \in 0 .. N |-> IF n = 0 THEN <<>>
                                                   ELSE Take(f[n - 1], s[n], S)]
  <1>0. N \in Nat
    BY LenProperties
  <1>1. Ciphers!Only(s, S) = F[N]
    BY DEF Ciphers!Only, Take
  <1> HIDE DEF N
  <1>2. PICK f : Passes(f, s, S, N)
    BY <1>0, PassExists
  <1> DEFINE h == [n \in 0 .. N |-> f[n]]
  <1>3. h = [n \in 0 .. N |-> IF n = 0 THEN <<>> ELSE Take(h[n - 1], s[n], S)]
    <2>1. ASSUME NEW n \in 0 .. N
          PROVE  h[n] = IF n = 0 THEN <<>> ELSE Take(h[n - 1], s[n], S)
      <3>1. CASE n = 0
        BY <1>2, <3>1 DEF Passes
      <3>2. CASE n # 0
        <4>1. n \in 1 .. N /\ n - 1 \in 0 .. N
          BY <1>0, <3>2
        <4>2. f[n] = Take(f[n - 1], s[n], S)
          BY <1>2, <4>1 DEF Passes
        <4>3. h[n] = f[n] /\ h[n - 1] = f[n - 1]
          BY <4>1
        <4> QED BY <3>2, <4>2, <4>3
      <3> QED BY <3>1, <3>2
    <2> HIDE DEF h
    <2>2. h = [n \in 0 .. N |-> h[n]]
      BY DEF h
    <2> QED BY <2>1, <2>2
  <1> HIDE DEF h
  <1>4. F = [n \in 0 .. N |-> IF n = 0 THEN <<>> ELSE Take(F[n - 1], s[n], S)]
    BY <1>3
  <1> HIDE DEF F
  <1>5. ASSUME NEW n \in 1 .. N PROVE F[n] = Take(F[n - 1], s[n], S)
    BY <1>0, <1>4
  <1>6. F[0] = <<>>
    BY <1>0, <1>4
  <1>7. Passes(F, s, S, N)
    BY <1>5, <1>6 DEF Passes
  <1> QED BY <1>1, <1>7 DEF N

\* Appending adds one element.
LEMMA ElementsOfAppend ==
    ASSUME NEW T, NEW s \in Seq(T), NEW x \in T
    PROVE  /\ Append(s, x) \in Seq(T)
           /\ Ciphers!Elements(Append(s, x)) = Ciphers!Elements(s) \cup {x}
  <1> DEFINE t == Append(s, x)
             N == Len(s)
  <1>1. /\ t \in Seq(T) /\ N \in Nat /\ DOMAIN t = 1 .. N + 1 /\ DOMAIN s = 1 .. N
        /\ (\A i \in 1 .. N : t[i] = s[i]) /\ t[N + 1] = x
    BY AppendProperties, LenProperties
  <1> HIDE DEF t, N
  <1>2. /\ \A i \in 1 .. N + 1 : i \in 1 .. N \/ i = N + 1
        /\ \A i \in 1 .. N : i \in 1 .. N + 1
        /\ N + 1 \in 1 .. N + 1
    BY <1>1
  <1>3. Ciphers!Elements(t) \subseteq Ciphers!Elements(s) \cup {x}
    BY <1>1, <1>2 DEF Ciphers!Elements
  <1>4. Ciphers!Elements(s) \subseteq Ciphers!Elements(t)
    BY <1>1, <1>2 DEF Ciphers!Elements
  <1>5. x \in Ciphers!Elements(t)
    BY <1>1, <1>2 DEF Ciphers!Elements
  <1> QED BY <1>1, <1>3, <1>4, <1>5 DEF t

\* A pass takes what it is to take.
LEMMA OnlyElements ==
    ASSUME NEW T, NEW s \in Seq(T), NEW S
    PROVE  /\ Ciphers!Only(s, S) \in Seq(T)
           /\ Ciphers!Elements(Ciphers!Only(s, S)) = Ciphers!Elements(s) \cap S
  <1> DEFINE N == Len(s)
             First(n) == {s[i] : i \in 1 .. n} \cap S
  <1>1. PICK F : Passes(F, s, S, N) /\ Ciphers!Only(s, S) = F[N]
    BY OnlyPasses
  <1>2. N \in Nat /\ DOMAIN s = 1 .. N /\ \A i \in 1 .. N : s[i] \in T
    BY LenProperties
  <1> HIDE DEF N
  <1> DEFINE Good(n) == F[n] \in Seq(T) /\ Ciphers!Elements(F[n]) = First(n)
             Bad == {n \in 0 .. N : ~Good(n)}
  <1>3. CASE Bad # {}
    <2>1. PICK n \in Bad : \A j \in Bad : n <= j
      <3> HIDE DEF Good
      <3>1. Bad \in SUBSET Nat
        BY <1>2
      <3> QED BY <1>3, <3>1, Minimum
    <2>2. n \in 0 .. N /\ ~Good(n)
      BY <2>1
    <2>3. n # 0
      <3>1. Good(0)
        <4>1. F[0] = <<>> /\ First(0) = {}
          BY <1>1 DEF Passes
        <4> QED BY <4>1 DEF Ciphers!Elements
      <3> HIDE DEF Good
      <3> QED BY <2>2, <3>1
    <2>4. n - 1 \in 0 .. N /\ n - 1 \notin Bad /\ n \in 1 .. N
      <3> HIDE DEF Bad
      <3> QED BY <1>2, <2>1, <2>2, <2>3
    <2>5. Good(n - 1)
      <3> HIDE DEF Good
      <3> QED BY <2>4
    <2>6. F[n] = Take(F[n - 1], s[n], S) /\ s[n] \in T
      BY <1>1, <1>2, <2>4 DEF Passes
    <2>7. First(n) = First(n - 1) \cup ({s[n]} \cap S)
      <3>1. \A i \in 1 .. n : i \in 1 .. n - 1 \/ i = n
        BY <2>4
      <3>2. n \in 1 .. n /\ \A i \in 1 .. n - 1 : i \in 1 .. n
        BY <2>4
      <3> QED BY <3>1, <3>2
    <2> HIDE DEF First
    <2>8. CASE s[n] \in S
      <3>1. F[n] = Append(F[n - 1], s[n])
        BY <2>6, <2>8 DEF Take
      <3>2. /\ F[n] \in Seq(T)
            /\ Ciphers!Elements(F[n]) = Ciphers!Elements(F[n - 1]) \cup {s[n]}
        BY <2>5, <2>6, <3>1, ElementsOfAppend
      <3> QED BY <2>2, <2>5, <2>7, <2>8, <3>2
    <2>9. CASE s[n] \notin S
      <3>1. F[n] = F[n - 1]
        BY <2>6, <2>9 DEF Take
      <3> QED BY <2>2, <2>5, <2>7, <2>9, <3>1
    <2> QED BY <2>8, <2>9
  <1>4. CASE Bad = {}
    <2>1. Good(N)
      <3> HIDE DEF Good
      <3> QED BY <1>2, <1>4
    <2>2. First(N) = Ciphers!Elements(s) \cap S
      BY <1>2 DEF Ciphers!Elements
    <2> QED BY <1>1, <2>1, <2>2
  <1> QED BY <1>3, <1>4

\* Two lists together have the elements of both.
LEMMA ElementsOfConcat ==
    ASSUME NEW T, NEW s \in Seq(T), NEW t \in Seq(T)
    PROVE  /\ s \o t \in Seq(T)
           /\ Ciphers!Elements(s \o t) = Ciphers!Elements(s) \cup Ciphers!Elements(t)
  <1> DEFINE w == s \o t
             M == Len(s)
             N == Len(t)
  <1>1. /\ w \in Seq(T) /\ M \in Nat /\ N \in Nat
        /\ DOMAIN w = 1 .. M + N /\ DOMAIN s = 1 .. M /\ DOMAIN t = 1 .. N
        /\ \A i \in 1 .. M + N : w[i] = IF i <= M THEN s[i] ELSE t[i - M]
    BY ConcatProperties, LenProperties
  <1> HIDE DEF w, M, N
  <1>2. ASSUME NEW i \in 1 .. M + N
        PROVE  w[i] \in Ciphers!Elements(s) \cup Ciphers!Elements(t)
    <2>1. CASE i <= M
      <3>1. i \in 1 .. M
        BY <1>1, <2>1
      <3> QED BY <1>1, <2>1, <3>1 DEF Ciphers!Elements
    <2>2. CASE ~ (i <= M)
      <3>1. i - M \in 1 .. N
        BY <1>1, <2>2
      <3> QED BY <1>1, <2>2, <3>1 DEF Ciphers!Elements
    <2> QED BY <2>1, <2>2
  <1>3. ASSUME NEW i \in 1 .. M PROVE s[i] \in Ciphers!Elements(w)
    <2>1. i \in 1 .. M + N /\ i <= M
      BY <1>1
    <2> QED BY <1>1, <2>1 DEF Ciphers!Elements
  <1>4. ASSUME NEW i \in 1 .. N PROVE t[i] \in Ciphers!Elements(w)
    <2>1. M + i \in 1 .. M + N /\ ~ (M + i <= M) /\ (M + i) - M = i
      BY <1>1
    <2> QED BY <1>1, <2>1 DEF Ciphers!Elements
  <1>5. Ciphers!Elements(w) \subseteq Ciphers!Elements(s) \cup Ciphers!Elements(t)
    BY <1>1, <1>2 DEF Ciphers!Elements
  <1>6. /\ Ciphers!Elements(s) \subseteq Ciphers!Elements(w)
        /\ Ciphers!Elements(t) \subseteq Ciphers!Elements(w)
    BY <1>1, <1>3, <1>4 DEF Ciphers!Elements
  <1> QED BY <1>1, <1>5, <1>6 DEF w

\* The two passes of SnapshotForClientIP together take every entry of the list.
LEMMA SnapshotIsComplete ==
    ASSUME NEW T, list \in Seq(T), NEW ip
    PROVE  /\ Ciphers!SnapshotForClientIP(ip) \in Seq(T)
           /\ Ciphers!Elements(Ciphers!SnapshotForClientIP(ip)) = Ciphers!Elements(list)
  <1> DEFINE E == Ciphers!Elements(list)
             M == {e \in E : Ciphers!matchesIP(e, ip)}
             P == Ciphers!Only(list, M)
             Q == Ciphers!Only(list, E \ M)
  <1>1. Ciphers!SnapshotForClientIP(ip) = P \o Q
    BY DEF Ciphers!SnapshotForClientIP
  <1>2. /\ P \in Seq(T) /\ Ciphers!Elements(P) = E \cap M
        /\ Q \in Seq(T) /\ Ciphers!Elements(Q) = E \cap (E \ M)
    BY OnlyElements
  <1> HIDE DEF P, Q
  <1>3. P \o Q \in Seq(T)
        /\ Ciphers!Elements(P \o Q) = Ciphers!Elements(P) \cup Ciphers!Elements(Q)
    BY <1>2, ElementsOfConcat
  <1> QED BY <1>1, <1>2, <1>3

\* A mark, also one through an old snapshot, leaves the entries as they are.
LEMMA MarkKeepsEntries ==
    ASSUME NEW T, NEW s \in Seq(T), NEW e
    PROVE  /\ Ciphers!MoveToFront(s, e) \in Seq(T)
           /\ Ciphers!Elements(Ciphers!MoveToFront(s, e)) = Ciphers!Elements(s)
  <1>1. CASE e \notin Ciphers!Elements(s)
    BY <1>1 DEF Ciphers!MoveToFront
  <1>2. CASE e \in Ciphers!Elements(s)
    <2> DEFINE k == CHOOSE i \in DOMAIN s : s[i] = e
               N == Len(s)
               t == [i \in 1 .. N |->
                       IF i = 1 THEN e ELSE IF i <= k THEN s[i - 1] ELSE s[i]]
    <2>1. Ciphers!MoveToFront(s, e) = t
      BY <1>2 DEF Ciphers!MoveToFront
    <2>2. k \in DOMAIN s /\ s[k] = e
      BY <1>2 DEF Ciphers!Elements
    <2>3. /\ DOMAIN s = 1 .. N /\ N \in Nat /\ k \in 1 .. N
          /\ \A i \in 1 .. N : s[i] \in T
      BY <2>2
    <2> HIDE DEF k, N
    <2>4. \A i \in 1 .. N : t[i] \in T
      BY <2>2, <2>3
    <2>5. t \in Seq(T) /\ DOMAIN t = 1 .. N
      BY <2>3, <2>4
    <2>6. ASSUME NEW i \in 1 .. N PROVE s[i] \in Ciphers!Elements(t)
      <3>1. CASE i < k
        <4>1. i + 1 \in 1 .. N /\ t[i + 1] = s[i]
          BY <2>3, <3>1
        <4> QED BY <2>5, <4>1 DEF Ciphers!Elements
      <3>2. CASE i = k
        <4>1. 1 \in 1 .. N /\ t[1] = e
          BY <2>3
        <4> QED BY <2>2, <2>5, <3>2, <4>1 DEF Ciphers!Elements
      <3>3. CASE i > k
        <4>1. t[i] = s[i]
          BY <2>3, <3>3
        <4> QED BY <2>5, <4>1 DEF Ciphers!Elements
      <3> QED BY <2>3, <3>1, <3>2, <3>3
    <2>7. ASSUME NEW i \in 1 .. N PROVE t[i] \in Ciphers!Elements(s)
      <3>1. CASE i = 1
        BY <1>2, <3>1
      <3>2. CASE i # 1 /\ i <= k
        <4>1. i - 1 \in 1 .. N /\ t[i] = s[i - 1]
          BY <2>3, <3>2
        <4> QED BY <2>3, <4>1 DEF Ciphers!Elements
      <3>3. CASE i # 1 /\ ~ (i <= k)
        <4>1. t[i] = s[i]
          BY <3>3
        <4> QED BY <2>3, <4>1 DEF Ciphers!Elements
      <3> QED BY <3>1, <3>2, <3>3
    <2>8. Ciphers!Elements(t) = Ciphers!Elements(s)
      <3> HIDE DEF t
      <3>1. Ciphers!Elements(t) \subseteq Ciphers!Elements(s)
        BY <2>5, <2>7 DEF Ciphers!Elements
      <3>2. Ciphers!Elements(s) \subseteq Ciphers!Elements(t)
        BY <2>3, <2>6 DEF Ciphers!Elements
      <3> QED BY <3>1, <3>2
    <2> QED BY <2>1, <2>5, <2>8
  <1> QED BY <1>1, <1>2

-----------------------------------------------------------------------------
(* The keys that handshakes are judged by.                                 *)

\* The keys of a list of entries.
KeysOf(s) == {e[2] : e \in Ciphers!Elements(s)}

\* What findAccessKey has decided, or would decide once the hello is there, and
\* that the hello it has decided on does not change.
Judged(c) ==
    /\ pc[c] = "hello" => offered[c] = KeysOf(snapshot[c])
    /\ pc[c] \notin {"new", "hello"} =>
         IF status[c] = "ERR_CIPHER"
           THEN \/ Drained(c)
                \/ /\ sent[c] >= 1
                   /\ hello[c] # Garbage => KeyOf(hello[c]) \notin offered[c]
           ELSE /\ sent[c] >= 1
                /\ hello[c] # Garbage /\ KeyOf(hello[c]) \in offered[c]

\* The inductive invariant of the keys: those of the list are those of the last
\* Update, and every connection is judged by the ones it was offered.
KeysInv ==
    /\ list \in Seq(Nat \X Key) /\ updates \in Nat
    /\ config = KeysOf(list)
    /\ snapshot \in [Conn -> Seq(Nat \X Key)]
    /\ offered \in [Conn -> SUBSET Key]
    /\ \A c \in Conn : Judged(c)

\* The handlers find keys in what they have, never in the list itself.
Searching(c) == Accept(c) \/ ReadHelloFails(c) \/ FindAccessKey(c)

\* The other steps touch neither the list nor a snapshot.
LEMMA KeysUntouched ==
    ASSUME NEW c \in Conn, Step(c), ~Searching(c)
    PROVE  UNCHANGED <<list, updates, config, snapshot, offered>>
  <1> USE DEF sharedVars, cipherVars, authVars
  <1>1. CASE Expire(c) \/ Dial(c) \/ Authenticate(c)
    BY <1>1 DEF Expire, Dial, dialTarget, DialFails, Authenticate, Searching,
                CheckReplay, absorbProbe, ReadAddr, DrainAddress
  <1>2. CASE UpCopy(c) \/ Upstream(c) \/ Downstream(c)
    BY <1>2 DEF UpCopy, Upstream, UpChunk, UpCopyEnds, UpCopyFails, UpDrain, UpShut,
                Downstream, DownChunk, DownCopyEnds, DownFlushFails, DownEnds,
                ReceiveFromClientErr, Finish
  <1>3. CASE Environment(c)
    BY <1>3 DEF Environment, SendHello, SendAddress, SendChunk, ClientEnds,
                TargetSends, TargetEnds
  <1> QED BY <1>1, <1>2, <1>3 DEF Step, Searching

\* Once judged, a connection stays so: its hello is there, or it is over.
LEMMA JudgedStep ==
    ASSUME IInv, NEW c \in Conn, Judged(c), Step(c), ~Searching(c)
    PROVE  Judged(c)'
  <1> USE DEF Judged, Drained
  <1> USE DEF sharedVars, peerVars, clientVars, targetVars, countVars, reportVars,
              authVars
  <1>0. TypeOK /\ Phase(c) /\ UNCHANGED <<snapshot, offered>>
    BY KeysUntouched DEF IInv, ConnInv
  <1>k. KeysOf(snapshot[c])' = KeysOf(snapshot[c])
    BY <1>0 DEF KeysOf, Ciphers!Elements
  <1>1. CASE CheckReplay(c)
    BY <1>0, <1>k, <1>1 DEF CheckReplay, Suspect, TypeOK, Phase
  <1>3. CASE absorbProbe(c) \/ DrainAddress(c)
    BY <1>0, <1>k, <1>3 DEF absorbProbe, DrainAddress, TypeOK
  <1>4. CASE ReadAddr(c)
    BY <1>0, <1>k, <1>4 DEF ReadAddr, TypeOK, Phase
  <1>5. CASE Dial(c)
    BY <1>0, <1>k, <1>5 DEF Dial, dialTarget, DialFails, TypeOK, Phase
  <1>6. CASE UpCopy(c) \/ Upstream(c)
    BY <1>0, <1>k, <1>6 DEF UpCopy, Upstream, UpChunk, UpCopyEnds, UpCopyFails,
                            UpDrain, UpShut, TypeOK, Phase
  <1>7. CASE Downstream(c)
    BY <1>0, <1>k, <1>7 DEF Downstream, DownChunk, DownCopyEnds, DownFlushFails,
                            DownEnds, ReceiveFromClientErr, Finish, TypeOK, Phase, Probe
  <1>8. ASSUME NEW h \in Handshake \cup {Garbage}, SendHello(c, h) PROVE Judged(c)'
    BY <1>0, <1>k, <1>8 DEF SendHello, TypeOK
  <1>9. CASE SendChunk(c) \/ \E good \in BOOLEAN : SendAddress(c, good)
    BY <1>0, <1>k, <1>9, CountFacts DEF SendChunk, SendAddress, TypeOK
  <1>10. CASE \/ TargetSends(c) \/ Expire(c)
              \/ \E how \in {"eof", "reset"} : ClientEnds(c, how)
              \/ \E how \in {"eof", "error"} : TargetEnds(c, how)
    BY <1>0, <1>k, <1>10 DEF TargetSends, Expire, ClientEnds, TargetEnds, TypeOK
  <1> QED BY <1>1, <1>3, <1>4, <1>5, <1>6, <1>7, <1>8, <1>9, <1>10
          DEF Step, Authenticate, Environment, Searching

\* A connection that does not move.
LEMMA StillJudged ==
    ASSUME NEW d \in Conn, Judged(d), Own(d)' = Own(d),
           snapshot'[d] = snapshot[d], offered'[d] = offered[d]
    PROVE  Judged(d)'
  BY DEF Own, Judged, Drained, KeysOf, Ciphers!Elements

\* The snapshot has every key of the list, and the list those of the last Update.
LEMMA AcceptKeysInv ==
    ASSUME IInv, KeysInv, NEW c \in Conn, Accept(c)
    PROVE  KeysInv'
  <1> DEFINE S == Ciphers!SnapshotForClientIP(ClientIP[c])
  <1>0. TypeOK
    BY DEF IInv
  <1>1. /\ UNCHANGED <<list, lastClientIP, updates, config>>
        /\ snapshot' = [snapshot EXCEPT ![c] = S]
        /\ offered' = [offered EXCEPT ![c] = config]
        /\ pc' = [pc EXCEPT ![c] = "hello"]
    BY DEF Accept, sharedVars, cipherVars
  <1>2. S \in Seq(Nat \X Key) /\ Ciphers!Elements(S) = Ciphers!Elements(list)
    BY SnapshotIsComplete DEF KeysInv
  <1> HIDE DEF S
  <1>3. \A e \in Nat \X Key : e[2] \in Key
    OBVIOUS
  <1>4. config \in SUBSET Key
    <2>1. Ciphers!Elements(list) \subseteq Nat \X Key
      BY DEF KeysInv, Ciphers!Elements
    <2> QED BY <1>3, <2>1 DEF KeysInv, KeysOf
  <1>5. KeysOf(list)' = KeysOf(list)
    BY <1>1 DEF KeysOf, Ciphers!Elements
  <1>6. Judged(c)'
    <2>1. pc'[c] = "hello" /\ snapshot'[c] = S /\ offered'[c] = config
      BY <1>0, <1>1 DEF TypeOK, KeysInv
    <2>2. KeysOf(snapshot[c])' = KeysOf(S)
      BY <2>1 DEF KeysOf, Ciphers!Elements
    <2>3. KeysOf(S) = config
      BY <1>2 DEF KeysOf, KeysInv
    <2> QED BY <2>1, <2>2, <2>3 DEF Judged
  <1>7. ASSUME NEW d \in Conn, d # c PROVE Judged(d)'
    <2>1. snapshot'[d] = snapshot[d] /\ offered'[d] = offered[d]
      BY <1>1, <1>7 DEF KeysInv
    <2>2. Own(d)' = Own(d)
      BY <1>0, <1>7, OthersAlone DEF Step
    <2> QED BY <2>1, <2>2, StillJudged DEF KeysInv
  <1>8. snapshot' \in [Conn -> Seq(Nat \X Key)]
    BY <1>1, <1>2 DEF KeysInv
  <1>9. offered' \in [Conn -> SUBSET Key]
    BY <1>1, <1>4 DEF KeysInv
  <1> QED BY <1>1, <1>5, <1>6, <1>7, <1>8, <1>9 DEF KeysInv

\* findAccessKey ends: without a hello only if the client is gone or too late,
\* otherwise with the first entry whose key decrypts the hello, or with none.
LEMMA SearchKeysInv ==
    ASSUME IInv, KeysInv, NEW c \in Conn, ReadHelloFails(c) \/ FindAccessKey(c)
    PROVE  KeysInv'
  <1>0. TypeOK /\ Phase(c)
    BY DEF IInv, ConnInv
  <1>1. /\ UNCHANGED <<updates, config, offered, hello, sent, client, deadline>>
        /\ snapshot' = [snapshot EXCEPT ![c] = <<>>]
        /\ pc[c] = "hello"
    BY DEF ReadHelloFails, FindAccessKey, sharedVars, cipherVars, peerVars, clientVars,
           Ciphers!MarkUsedByClientIP
  <1>2. /\ list' \in Seq(Nat \X Key)
        /\ Ciphers!Elements(list') = Ciphers!Elements(list)
    <2>1. CASE UNCHANGED list
      BY <2>1 DEF KeysInv
    <2>2. CASE list' = Ciphers!MoveToFront(list, findEntry(c))
      BY <2>2, MarkKeepsEntries DEF KeysInv
    <2> QED BY <2>1, <2>2 DEF ReadHelloFails, FindAccessKey, sharedVars, cipherVars,
                              Ciphers!MarkUsedByClientIP
  <1>3. config' = KeysOf(list)'
    <2>1. KeysOf(list)' = {e[2] : e \in Ciphers!Elements(list')}
      BY DEF KeysOf, Ciphers!Elements
    <2>2. KeysOf(list)' = KeysOf(list)
      BY <1>2, <2>1 DEF KeysOf
    <2> QED BY <1>1, <2>2 DEF KeysInv
  <1>4. snapshot' \in [Conn -> Seq(Nat \X Key)]
    <2>1. <<>> \in Seq(Nat \X Key)
      OBVIOUS
    <2> QED BY <1>1, <2>1 DEF KeysInv
  <1>5. offered[c] = KeysOf(snapshot[c])
    BY <1>1 DEF KeysInv, Judged
  <1>6. KeysOf(snapshot[c]) = {snapshot[c][i][2] : i \in DOMAIN snapshot[c]}
    BY DEF KeysOf, Ciphers!Elements
  <1>7. Judged(c)'
    <2>1. CASE ReadHelloFails(c)
      <3>1. Drained(c)
        BY <2>1 DEF ReadHelloFails, ReadFails, Drained
      <3>2. Drained(c)'
        BY <1>1, <3>1 DEF Drained
      <3>3. pc'[c] = "probe" /\ status'[c] = "ERR_CIPHER"
        BY <1>0, <2>1 DEF ReadHelloFails, Suspect, TypeOK
      <3> QED BY <3>2, <3>3 DEF Judged
    <2>2. CASE FindAccessKey(c) /\ Decrypting(c) # {}
      <3>1. PICK i \in DOMAIN snapshot[c] :
                   hello[c] # Garbage /\ snapshot[c][i][2] = KeyOf(hello[c])
        BY <2>2 DEF Decrypting, Tried
      <3>2. KeyOf(hello[c]) \in offered[c]
        BY <1>5, <1>6, <3>1
      <3>3. pc'[c] = "replay" /\ status'[c] = "OK" /\ sent[c] >= 1
        BY <1>0, <1>1, <2>2 DEF FindAccessKey, Arrived, TypeOK, Phase
      <3> QED BY <1>1, <3>1, <3>2, <3>3 DEF Judged, KeyOf
    <2>3. CASE FindAccessKey(c) /\ Decrypting(c) = {}
      <3>1. hello[c] # Garbage =>
              \A i \in DOMAIN snapshot[c] : snapshot[c][i][2] # KeyOf(hello[c])
        BY <2>3 DEF Decrypting, Tried
      <3>2. hello[c] # Garbage => KeyOf(hello[c]) \notin offered[c]
        BY <1>5, <1>6, <3>1
      <3>3. pc'[c] = "probe" /\ status'[c] = "ERR_CIPHER" /\ sent[c] >= 1
        BY <1>0, <1>1, <2>3 DEF FindAccessKey, Suspect, Arrived, TypeOK
      <3> QED BY <1>1, <3>2, <3>3 DEF Judged, KeyOf
    <2> QED BY <2>1, <2>2, <2>3
  <1>8. ASSUME NEW d \in Conn, d # c PROVE Judged(d)'
    <2>1. snapshot'[d] = snapshot[d] /\ offered'[d] = offered[d]
      BY <1>1, <1>8 DEF KeysInv
    <2>2. Own(d)' = Own(d)
      BY <1>0, <1>8, OthersAlone DEF Step, Authenticate
    <2> QED BY <2>1, <2>2, StillJudged DEF KeysInv
  <1> QED BY <1>1, <1>2, <1>3, <1>4, <1>7, <1>8 DEF KeysInv

\* An Update concerns the connections still to come.
LEMMA UpdateKeysInv ==
    ASSUME KeysInv, NEW keys \in Ciphers!Contents, UpdateKeys(keys)
    PROVE  KeysInv'
  <1>1. PICK n \in Nat : keys \in [1 .. n -> Key]
    <2>1. PICK n \in 0 .. Ciphers!Cardinality(Key) : keys \in [1 .. n -> Key]
      BY DEF Ciphers!Contents
    <2> QED BY <2>1
  <1> DEFINE new == [i \in 1 .. n |-> <<updates + 1, keys[i]>>]
  <1>2. Len(keys) = n /\ DOMAIN keys = 1 .. n
    BY <1>1
  <1>3. list' = new /\ updates' = updates + 1 /\ config' = Ciphers!Elements(keys)
    BY <1>2 DEF UpdateKeys, Ciphers!Update
  <1>4. new \in Seq(Nat \X Key) /\ DOMAIN new = 1 .. n
    BY <1>1 DEF KeysInv
  <1>5. \A i \in 1 .. n : new[i][2] = keys[i]
    OBVIOUS
  <1> HIDE DEF new
  <1>6. KeysOf(list)' = {new[i][2] : i \in 1 .. n}
    BY <1>3, <1>4 DEF KeysOf, Ciphers!Elements
  <1>7. Ciphers!Elements(keys) = {keys[i] : i \in 1 .. n}
    BY <1>2 DEF Ciphers!Elements
  <1>8. config' = KeysOf(list)'
    BY <1>3, <1>5, <1>6, <1>7
  <1>9. ASSUME NEW d \in Conn PROVE Judged(d)'
    <2>1. Own(d)' = Own(d) /\ UNCHANGED <<snapshot, offered>>
      BY DEF UpdateKeys, Own, peerVars, clientVars, targetVars, countVars, reportVars,
             authVars
    <2> QED BY <2>1, StillJudged DEF KeysInv
  <1>10. UNCHANGED <<snapshot, offered>> /\ updates' \in Nat
    BY <1>3 DEF UpdateKeys, authVars, KeysInv
  <1> QED BY <1>3, <1>4, <1>8, <1>9, <1>10 DEF KeysInv

\* Every step preserves it.
LEMMA NextKeysInv ==
    ASSUME IInv, KeysInv, [Next]_vars
    PROVE  KeysInv'
  <1>0. TypeOK
    BY DEF IInv
  <1>1. ASSUME NEW c \in Conn, Step(c), ~Searching(c) PROVE KeysInv'
    <2>1. UNCHANGED <<list, updates, config, snapshot, offered>>
      BY <1>1, KeysUntouched
    <2>2. Judged(c)'
      BY <1>1, JudgedStep DEF KeysInv
    <2>3. ASSUME NEW d \in Conn, d # c PROVE Judged(d)'
      <3>1. Own(d)' = Own(d)
        BY <1>0, <1>1, <2>3, OthersAlone
      <3> QED BY <2>1, <3>1, StillJudged DEF KeysInv
    <2>4. KeysOf(list)' = KeysOf(list)
      BY <2>1 DEF KeysOf, Ciphers!Elements
    <2> QED BY <2>1, <2>2, <2>3, <2>4 DEF KeysInv
  <1>2. ASSUME NEW c \in Conn, Searching(c) PROVE KeysInv'
    BY <1>2, AcceptKeysInv, SearchKeysInv DEF Searching
  <1>3. ASSUME NEW keys \in Ciphers!Contents, UpdateKeys(keys) PROVE KeysInv'
    BY <1>3, UpdateKeysInv
  <1>4. CASE UNCHANGED vars
    <2>1. ASSUME NEW d \in Conn PROVE Judged(d)'
      BY <1>4, StillJudged DEF vars, Own, KeysInv
    <2>2. KeysOf(list)' = KeysOf(list)
      BY <1>4 DEF vars, KeysOf, Ciphers!Elements
    <2> QED BY <1>4, <2>1, <2>2 DEF vars, KeysInv
  <1> QED BY <1>1, <1>2, <1>3, <1>4 DEF Next, Step

\* A port starts without keys and without connections.
LEMMA InitKeysInv == Init => KeysInv
  <1> SUFFICES ASSUME Init PROVE KeysInv
    OBVIOUS
  <1>1. list = <<>> /\ updates = 0 /\ config = {}
    BY DEF Init, Ciphers!NewCipherList
  <1>2. KeysOf(list) = {}
    BY <1>1 DEF KeysOf, Ciphers!Elements
  <1>3. \A c \in Conn : Judged(c)
    BY DEF Init, Judged
  <1>4. /\ snapshot \in [Conn -> Seq(Nat \X Key)]
        /\ offered \in [Conn -> SUBSET Key]
    BY DEF Init
  <1> QED BY <1>1, <1>2, <1>3, <1>4 DEF KeysInv

\* Whatever marks reorder the list and whatever updates replace it meanwhile,
\* findAccessKey accepts a handshake only with a key that was installed when the
\* connection was accepted, and refuses one with such a key only if its client
\* is gone or too late.
THEOREM JudgedByItsKeys == Spec => []JudgedByOfferedKeys
  <1>1. Init => IInv /\ KeysInv
    BY InitIInv, InitKeysInv
  <1>2. IInv /\ KeysInv /\ [Next]_vars => IInv' /\ KeysInv'
    BY NextIInv, NextKeysInv
  <1>3. KeysInv => JudgedByOfferedKeys
    BY DEF KeysInv, Judged, JudgedByOfferedKeys
  <1> QED BY <1>1, <1>2, <1>3, PTL DEF Spec

=============================================================================
