---------------------------- MODULE TcpConnection ----------------------------
(***************************************************************************)
(* service/tcp.go, handleConnection: what happens to an accepted           *)
(* connection.  The handlers of all connections share the port's           *)
(* CipherList and the server's ReplayCache; each handler is a main         *)
(* goroutine and, while it relays, a second one that copies from the       *)
(* client to the target.                                                   *)
(*                                                                         *)
(* A client sends its first bytes (a hello), then the target address, then *)
(* the chunks of a stream; it may stop, end the stream or reset at any     *)
(* point, and it may repeat a hello that another connection used.  Traffic *)
(* is counted in these units.                                              *)
(***************************************************************************)
EXTENDS Integers, Sequences, FiniteSets

CONSTANTS
    Conn,          \* connections
    Key,           \* access keys
    Salt,          \* salts a client may use
    ServerSalts,   \* handshakes IsServerSalt recognises as the server's own
    Garbage,       \* first bytes that no key decrypts
    Hash, HashOf, Capacity,      \* of the ReplayCache
    IP, NoIP, ClientIP,          \* addresses, and the address of each client
    MaxUpdates,    \* bound on cipher list updates
    MaxChunks,     \* bound on the chunks of each direction
    None           \* no report

Handshake == Key \X Salt
KeyOf(h) == h[1]

\* The statuses that absorbProbe is called with, and the arguments of AddTCPProbe.
Probe == {"ERR_CIPHER", "ERR_REPLAY_SERVER", "ERR_REPLAY_CLIENT"}
ProbeReport == Probe \X {"eof", "timeout", "other"} \X Nat

ASSUME GarbageAssumption == Garbage \notin Handshake
ASSUME ServerSaltsAssumption == ServerSalts \subseteq Handshake
ASSUME ClientIPAssumption == ClientIP \in [Conn -> IP]
ASSUME MaxChunksAssumption == MaxChunks \in Nat
ASSUME ConnAssumption == IsFiniteSet(Conn)
ASSUME NoneAssumption == None \notin ProbeReport
ASSUME CapacityAssumption == Capacity \in Nat

VARIABLES
    list, lastClientIP, updates,   \* the port's CipherList
    active, archive, accepted,     \* the ReplayCache
    pc,          \* where the main goroutine of each handler is
    up,          \* where its client-to-target goroutine is
    snapshot,    \* findAccessKey's ciphers
    hello,       \* first bytes the client sends
    sent,        \* what has arrived: 1 the hello, 2 the address too, then chunks
    address,     \* whether the address is well formed
    client,      \* state of the client's side of its connection
    target,      \* state of the target's side of the second connection
    replied,     \* chunks the target has sent
    fin,         \* whether the target was sent a FIN
    deadline,    \* the read deadline of the client connection
    status,      \* what the handler reports
    proxyMetrics,  \* the counters of the two measured connections
    written,     \* what the two copies have counted, as they will return it
    billed,      \* the AddRepo and AddWwwRepo calls made for the connection
    probe,       \* the AddTCPProbe call
    closing,     \* the data of the AddClosedTCPConnection call
    config,      \* history: the keys of the last Update
    offered      \* history: config when the connection was accepted

cipherVars == <<list, lastClientIP, updates, config>>
replayVars == <<active, archive, accepted>>
clientVars == <<hello, sent, address, client>>
targetVars == <<target, replied, fin>>
sharedVars == <<cipherVars, replayVars>>
peerVars == <<clientVars, targetVars>>
authVars == <<snapshot, deadline, offered>>
countVars == <<proxyMetrics, written>>
reportVars == <<billed, probe, closing>>
vars == <<list, lastClientIP, updates, active, archive, accepted, pc, up,
          snapshot, hello, sent, address, client, target, replied, fin, deadline,
          status, proxyMetrics, written, billed, probe, closing, config, offered>>

Ciphers == INSTANCE CipherList
             WITH User <- Conn, clientIP <- ClientIP,
                  installed <- <<>>, used <- <<>>

Cache == INSTANCE ReplayCache WITH age <- <<>>, seen <- {}

ProxyMetrics ==
    [ClientProxy |-> 0, ProxyTarget |-> 0, TargetProxy |-> 0, ProxyClient |-> 0]

-----------------------------------------------------------------------------

Init ==
    /\ Ciphers!NewCipherList
    /\ Cache!NewReplayCache
    /\ accepted = TRUE
    /\ pc = [c \in Conn |-> "new"]
    /\ up = [c \in Conn |-> "none"]
    /\ snapshot = [c \in Conn |-> <<>>]
    /\ hello = [c \in Conn |-> Garbage]
    /\ sent = [c \in Conn |-> 0]
    /\ address = [c \in Conn |-> TRUE]
    /\ client = [c \in Conn |-> "open"]
    /\ target = [c \in Conn |-> "none"]
    /\ replied = [c \in Conn |-> 0]
    /\ fin = [c \in Conn |-> FALSE]
    /\ deadline = [c \in Conn |-> "none"]
    /\ status = [c \in Conn |-> "OK"]
    /\ proxyMetrics = [c \in Conn |-> ProxyMetrics]
    /\ written = [c \in Conn |-> [U |-> 0, D |-> 0]]
    /\ billed = [c \in Conn |-> {}]
    /\ probe = [c \in Conn |-> None]
    /\ closing = [c \in Conn |-> None]
    /\ config = {}
    /\ offered = [c \in Conn |-> {}]

-----------------------------------------------------------------------------
(* The environment.                                                        *)

\* doRun of cmd/quick_ss installs the keys of the port.
UpdateKeys(keys) ==
    /\ Ciphers!Update(keys)
    /\ config' = Ciphers!Elements(keys)
    /\ UNCHANGED <<replayVars, peerVars, countVars, reportVars, pc, up,
                   authVars, status>>

\* A connection the client can still use; what no handler reads any more does not
\* matter.
Alive(c) == client[c] = "open" /\ pc[c] \notin {"new", "finish", "closed"}

SendHello(c, h) ==
    /\ Alive(c) /\ sent[c] = 0
    /\ hello' = [hello EXCEPT ![c] = h]
    /\ sent' = [sent EXCEPT ![c] = 1]
    /\ UNCHANGED <<sharedVars, targetVars, countVars, reportVars, pc, up,
                   authVars, address, client, status>>

SendAddress(c, good) ==
    /\ Alive(c) /\ sent[c] = 1
    /\ address' = [address EXCEPT ![c] = good]
    /\ sent' = [sent EXCEPT ![c] = 2]
    /\ UNCHANGED <<sharedVars, targetVars, countVars, reportVars, pc, up,
                   authVars, hello, client, status>>

SendChunk(c) ==
    /\ Alive(c) /\ sent[c] \in 2 .. MaxChunks + 1
    /\ sent' = [sent EXCEPT ![c] = @ + 1]
    /\ UNCHANGED <<sharedVars, targetVars, countVars, reportVars, pc, up,
                   authVars, hello, address, client, status>>

\* The client ends its stream or resets the connection.
ClientEnds(c, how) ==
    /\ Alive(c)
    /\ client' = [client EXCEPT ![c] = how]
    /\ UNCHANGED <<sharedVars, targetVars, countVars, reportVars, pc, up,
                   authVars, hello, sent, address, status>>

TargetSends(c) ==
    /\ target[c] = "open" /\ replied[c] < MaxChunks
    /\ replied' = [replied EXCEPT ![c] = @ + 1]
    /\ UNCHANGED <<sharedVars, clientVars, countVars, reportVars, pc, up,
                   authVars, target, fin, status>>

TargetEnds(c, how) ==
    /\ target[c] = "open"
    /\ target' = [target EXCEPT ![c] = how]
    /\ UNCHANGED <<sharedVars, clientVars, countVars, reportVars, pc, up,
                   authVars, replied, fin, status>>

\* readTimeout elapses.
Expire(c) ==
    /\ deadline[c] = "set"
    /\ deadline' = [deadline EXCEPT ![c] = "passed"]
    /\ UNCHANGED <<sharedVars, peerVars, countVars, reportVars, pc, up,
                   snapshot, status, offered>>

-----------------------------------------------------------------------------
(* Reading from the client.  A read past the deadline fails even if there  *)
(* is something to read, and a reset discards what was not read.           *)

Arrived(c, n) == sent[c] >= n /\ client[c] # "reset" /\ deadline[c] # "passed"

\* A read of something the client will not send any more, or not in time.
ReadFails(c, n) ==
    \/ deadline[c] = "passed"
    \/ client[c] = "reset"
    \/ client[c] = "eof" /\ sent[c] < n

\* measuredConn counts what is read, ...
CountClientProxy(c, n) ==
    proxyMetrics' = [proxyMetrics EXCEPT ![c].ClientProxy = n]

\* ... and what is written.
Transfer(c, in, out) ==
    proxyMetrics' = [proxyMetrics EXCEPT ![c][in] = @ + 1, ![c][out] = @ + 1]

\* How io.Copy to Discard may return, as drainErrToString tells it, and what the
\* connection has counted by then.
Drain(c) ==
    {d \in {"eof", "timeout", "other"} \X (proxyMetrics[c].ClientProxy .. sent[c]) :
       \/ d[1] = "eof" /\ client[c] = "eof" /\ d[2] = sent[c]
       \/ d[1] = "timeout" /\ deadline[c] = "passed"
       \/ d[1] = "other" /\ client[c] = "reset"}

Drained(c) == client[c] # "open" \/ deadline[c] = "passed"

-----------------------------------------------------------------------------
(* The handler up to authentication.                                       *)

\* Mutant of readDeadline: no deadline is set.
readDeadlineUnset == "none"

readDeadline == "set"

\* handleConnection sets the deadline; findAccessKey takes its snapshot before
\* it reads anything.
Accept(c) ==
    /\ pc[c] = "new"
    /\ pc' = [pc EXCEPT ![c] = "hello"]
    /\ deadline' = [deadline EXCEPT ![c] = readDeadline]
    /\ snapshot' =
         [snapshot EXCEPT ![c] = Ciphers!SnapshotForClientIP(ClientIP[c])]
    /\ offered' = [offered EXCEPT ![c] = config]
    /\ UNCHANGED <<sharedVars, peerVars, countVars, reportVars, up, status>>

\* The handler turns to absorbProbe.
Suspect(c, err) ==
    /\ pc' = [pc EXCEPT ![c] = "probe"]
    /\ status' = [status EXCEPT ![c] = err]

\* io.ReadFull of the first bytes fails: "Reading header failed".
ReadHelloFails(c) ==
    /\ pc[c] = "hello" /\ ReadFails(c, 1)
    /\ Suspect(c, "ERR_CIPHER")
    /\ snapshot' = [snapshot EXCEPT ![c] = <<>>]
    /\ UNCHANGED <<sharedVars, peerVars, countVars, reportVars, up, deadline,
                   offered>>

\* Mutant of Tried: the search stops one entry short.
TriedButLast(c) == 1 .. Len(snapshot[c]) - 1

\* findEntry tries the entries in the order of the snapshot.
Tried(c) == DOMAIN snapshot[c]

\* Decryption succeeds for the entries with the key the hello was made with.
Decrypting(c) ==
    {i \in Tried(c) : hello[c] # Garbage /\ snapshot[c][i][2] = KeyOf(hello[c])}

findEntry(c) ==
    snapshot[c][CHOOSE i \in Decrypting(c) : \A j \in Decrypting(c) : i <= j]

\* The rest of findAccessKey: an entry is found and marked as used, or there is
\* none, "Could not find valid TCP cipher".
FindAccessKey(c) ==
    /\ pc[c] = "hello" /\ Arrived(c, 1)
    /\ CountClientProxy(c, 1)
    /\ snapshot' = [snapshot EXCEPT ![c] = <<>>]
    /\ \/ /\ Decrypting(c) # {}
          /\ Ciphers!MarkUsedByClientIP(findEntry(c), ClientIP[c])
          /\ pc' = [pc EXCEPT ![c] = "replay"]
          /\ UNCHANGED status
       \/ /\ Decrypting(c) = {}
          /\ Suspect(c, "ERR_CIPHER")
          /\ UNCHANGED <<list, lastClientIP, updates>>
    /\ UNCHANGED <<config, replayVars, peerVars, written, reportVars, up,
                   deadline, offered>>

IsServerSalt(h) == h \in ServerSalts

\* Mutant of Unseen: the result of Add is not looked at.
UnseenAlways == TRUE

\* The result of the replay cache's Add.
Unseen == accepted'

\* "Only check the cache if findAccessKey succeeded and the salt is
\* unrecognized."
CheckReplay(c) ==
    /\ pc[c] = "replay"
    /\ \/ /\ IsServerSalt(hello[c])
          /\ Suspect(c, "ERR_REPLAY_SERVER")
          /\ UNCHANGED replayVars
       \/ /\ ~IsServerSalt(hello[c])
          /\ Cache!Add(hello[c])
          /\ IF Unseen THEN pc' = [pc EXCEPT ![c] = "address"] /\ UNCHANGED status
                       ELSE Suspect(c, "ERR_REPLAY_CLIENT")
    /\ UNCHANGED <<cipherVars, peerVars, countVars, reportVars, up, authVars>>

\* Mutant of Drains: the probe is closed without a drain.
DrainsNothing(c) == {<<"eof", proxyMetrics[c].ClientProxy>>}

Drains(c) == Drain(c)

\* Mutant of Observed: the probe is reported with a copy of the counters made
\* before the drain.
ObservedEarly(c) == proxyMetrics[c].ClientProxy

\* "proxyMetrics is a pointer because its value is being mutated by clientConn."
Observed(c) == proxyMetrics'[c].ClientProxy

AddTCPProbe(c, drainResult) ==
    probe' = [probe EXCEPT ![c] = <<status[c], drainResult, Observed(c)>>]

\* The drain ends, the probe is reported and the handler returns.
absorbProbe(c) ==
    /\ pc[c] = "probe"
    /\ \E d \in Drains(c) :
         /\ CountClientProxy(c, d[2])
         /\ AddTCPProbe(c, d[1])
    /\ pc' = [pc EXCEPT ![c] = "finish"]
    /\ UNCHANGED <<sharedVars, peerVars, written, billed, closing, up, authVars,
                   status>>

-----------------------------------------------------------------------------
(* The handler after authentication.                                       *)

\* Mutant of noDeadline: the deadline stays set for the relay.
noDeadlineYet == "set"

noDeadline == "none"

\* socks.ReadAddr returns and the deadline is cleared, also on an error.  A good
\* address is reported with AddWwwRepo.
ReadAddr(c) ==
    /\ pc[c] = "address"
    /\ deadline' = [deadline EXCEPT ![c] = noDeadline]
    /\ \/ Arrived(c, 2) /\ CountClientProxy(c, 2)
       \/ ReadFails(c, 2) /\ UNCHANGED proxyMetrics
    /\ IF Arrived(c, 2) /\ address[c]
         THEN /\ pc' = [pc EXCEPT ![c] = "dial"]
              /\ billed' = [billed EXCEPT ![c] = @ \cup {<<"host", 1>>}]
              /\ UNCHANGED status
         ELSE /\ pc' = [pc EXCEPT ![c] = "drain"]
              /\ status' = [status EXCEPT ![c] = "ERR_READ_ADDRESS"]
              /\ UNCHANGED billed
    /\ UNCHANGED <<sharedVars, peerVars, written, probe, closing, up, snapshot,
                   offered>>

\* "Drain to prevent a close on cipher error."
DrainAddress(c) ==
    /\ pc[c] = "drain"
    /\ \E d \in Drain(c) : CountClientProxy(c, d[2])
    /\ pc' = [pc EXCEPT ![c] = "finish"]
    /\ UNCHANGED <<sharedVars, peerVars, written, reportVars, up, authVars,
                   status>>

\* The dial fails or the validator rejects the address: no drain.
DialFails(c, err) ==
    /\ pc[c] = "dial"
    /\ pc' = [pc EXCEPT ![c] = "finish"]
    /\ status' = [status EXCEPT ![c] = err]
    /\ UNCHANGED <<sharedVars, peerVars, countVars, reportVars, up, authVars>>

dialTarget(c) ==
    /\ pc[c] = "dial"
    /\ pc' = [pc EXCEPT ![c] = "relay"]
    /\ up' = [up EXCEPT ![c] = "copy"]
    /\ target' = [target EXCEPT ![c] = "open"]
    /\ UNCHANGED <<sharedVars, clientVars, replied, fin, countVars, reportVars,
                   authVars, status>>

-----------------------------------------------------------------------------
(* The goroutine that copies from the client to the target.                *)

\* A chunk the copy has not read yet.
ChunkArrived(c) == client[c] # "reset" /\ proxyMetrics[c].ClientProxy < sent[c]

\* ssr.WriteTo passes a chunk on.
UpChunk(c) ==
    /\ up[c] = "copy" /\ ChunkArrived(c)
    /\ Transfer(c, "ClientProxy", "ProxyTarget")
    /\ written' = [written EXCEPT ![c].U = @ + 1]
    /\ UNCHANGED <<sharedVars, peerVars, reportVars, pc, up, authVars, status>>

\* ssr.WriteTo returns at the end of the client's stream.
UpCopyEnds(c) ==
    /\ up[c] = "copy"
    /\ client[c] = "eof" /\ ~ChunkArrived(c)
    /\ up' = [up EXCEPT ![c] = "shut"]
    /\ UNCHANGED <<sharedVars, peerVars, countVars, reportVars, pc, authVars,
                   status>>

\* It returns with an error: a chunk does not decrypt or the target refuses it,
\* or the client has ended within a chunk or reset the connection.
UpCopyFails(c) ==
    /\ up[c] = "copy"
    /\ \/ ChunkArrived(c) /\ CountClientProxy(c, proxyMetrics[c].ClientProxy + 1)
       \/ client[c] # "open" /\ UNCHANGED proxyMetrics
    /\ up' = [up EXCEPT ![c] = "drain"]
    /\ status' = [status EXCEPT ![c] = "ERR_RELAY_CLIENT"]
    /\ UNCHANGED <<sharedVars, peerVars, written, reportVars, pc, authVars>>

UpDrain(c) ==
    /\ up[c] = "drain"
    /\ \E d \in Drain(c) : CountClientProxy(c, d[2])
    /\ up' = [up EXCEPT ![c] = "shut"]
    /\ UNCHANGED <<sharedVars, peerVars, written, reportVars, pc, authVars,
                   status>>


upSends == "send"

\* Report the traffic, close the client for reading, send FIN to the target.
UpShut(c) ==
    /\ up[c] = "shut"
    /\ up' = [up EXCEPT ![c] = upSends]
    /\ fin' = [fin EXCEPT ![c] = TRUE]
    /\ billed' = [billed EXCEPT ![c] = @ \cup {<<"U", written[c].U>>}]
    /\ UNCHANGED <<sharedVars, clientVars, target, replied, countVars, probe,
                   closing, pc, authVars, status>>

-----------------------------------------------------------------------------
(* The main goroutine, which copies from the target to the client.         *)

\* ssw.ReadFrom passes a chunk on.
DownChunk(c) ==
    /\ pc[c] = "relay" /\ proxyMetrics[c].TargetProxy < replied[c]
    /\ Transfer(c, "TargetProxy", "ProxyClient")
    /\ written' = [written EXCEPT ![c].D = @ + 1]
    /\ UNCHANGED <<sharedVars, peerVars, reportVars, pc, up, authVars, status>>

\* ssw.ReadFrom has returned.  Report the traffic, send FIN to the client.
DownEnds(c, err) ==
    /\ pc' = [pc EXCEPT ![c] = "await"]
    /\ status' = [status EXCEPT ![c] =
                    IF err /\ @ = "OK" THEN "ERR_RELAY_TARGET" ELSE @]
    /\ billed' = [billed EXCEPT ![c] = @ \cup {<<"D", written'[c].D>>}]
    /\ UNCHANGED <<sharedVars, peerVars, probe, closing, up, authVars>>

\* The target has ended its stream, or reading from it fails.
DownCopyEnds(c) ==
    /\ pc[c] = "relay"
    /\ \/ target[c] = "eof" /\ proxyMetrics[c].TargetProxy = replied[c]
       \/ target[c] = "error"
    /\ UNCHANGED countVars
    /\ DownEnds(c, target[c] = "error")

\* Mutant of ReadCount: a chunk counts when the client has it.
ReadCountFlushed(c) == written[c].D

\* A chunk counts when it has been read.
ReadCount(c) == written[c].D + 1

\* A chunk is read from the target and cannot be written to the client.
DownFlushFails(c) ==
    /\ pc[c] = "relay" /\ proxyMetrics[c].TargetProxy < replied[c]
    /\ client[c] = "reset"
    /\ proxyMetrics' = [proxyMetrics EXCEPT ![c].TargetProxy = @ + 1]
    /\ written' = [written EXCEPT ![c].D = ReadCount(c)]
    /\ DownEnds(c, TRUE)

\* Mutant of Sending: the main goroutine does not wait.
SendingOrNot(c) == TRUE

Sending(c) == up[c] = "send"

\* The two goroutines meet at the unbuffered channel; tgtConn.Close is deferred.
ReceiveFromClientErr(c) ==
    /\ pc[c] = "await" /\ Sending(c)
    /\ pc' = [pc EXCEPT ![c] = "finish"]
    /\ up' = [up EXCEPT ![c] = "none"]
    /\ target' = [target EXCEPT ![c] = "closed"]
    /\ UNCHANGED <<sharedVars, clientVars, replied, fin, countVars, reportVars,
                   authVars, status>>

AddClosedTCPConnection(c) == closing' = [closing EXCEPT ![c] = proxyMetrics[c]]

\* The connection is reported, then closed.
Finish(c) ==
    /\ pc[c] = "finish"
    /\ pc' = [pc EXCEPT ![c] = "closed"]
    /\ AddClosedTCPConnection(c)
    /\ UNCHANGED <<sharedVars, peerVars, countVars, billed, probe, up, authVars,
                   status>>

-----------------------------------------------------------------------------

Authenticate(c) ==
    \/ ReadHelloFails(c) \/ FindAccessKey(c) \/ CheckReplay(c)
    \/ absorbProbe(c) \/ ReadAddr(c) \/ DrainAddress(c)

Dial(c) ==
    dialTarget(c) \/ \E err \in {"ERR_CONNECT", "ERR_ADDRESS"} : DialFails(c, err)

UpCopy(c) == UpChunk(c) \/ UpCopyEnds(c) \/ UpCopyFails(c)

Upstream(c) == UpDrain(c) \/ UpShut(c)

Downstream(c) ==
    \/ DownChunk(c) \/ DownCopyEnds(c) \/ DownFlushFails(c)
    \/ ReceiveFromClientErr(c) \/ Finish(c)

Environment(c) ==
    \/ \E h \in Handshake \cup {Garbage} : SendHello(c, h)
    \/ \E good \in BOOLEAN : SendAddress(c, good)
    \/ SendChunk(c) \/ TargetSends(c)
    \/ \E how \in {"eof", "reset"} : ClientEnds(c, how)
    \/ \E how \in {"eof", "error"} : TargetEnds(c, how)

Next ==
    \/ \E keys \in Ciphers!Contents : UpdateKeys(keys)
    \/ \E c \in Conn :
         \/ Accept(c) \/ Authenticate(c) \/ Dial(c) \/ UpCopy(c)
         \/ Upstream(c) \/ Downstream(c) \/ Expire(c) \/ Environment(c)

\* Goroutines run when they can, timers fire and dials return.  Nothing is
\* assumed of the clients and the targets, except that UpCopy must end
\* the client has ended.
Fairness ==
    \A c \in Conn :
      /\ WF_vars(Authenticate(c))
      /\ WF_vars(Dial(c))
      /\ WF_vars(client[c] # "open" /\ UpCopy(c))
      /\ WF_vars(Upstream(c))
      /\ WF_vars(Downstream(c))
      /\ WF_vars(Expire(c))

Spec == Init /\ [][Next]_vars

FairSpec == Spec /\ Fairness

-----------------------------------------------------------------------------

TypeOK ==
    /\ pc \in [Conn -> {"new", "hello", "replay", "probe", "address", "drain",
                       "dial", "relay", "await", "finish", "closed"}]
    /\ up \in [Conn -> {"none", "copy", "drain", "shut", "send"}]
    /\ hello \in [Conn -> Handshake \cup {Garbage}]
    /\ sent \in [Conn -> 0 .. MaxChunks + 2]
    /\ address \in [Conn -> BOOLEAN]
    /\ client \in [Conn -> {"open", "eof", "reset"}]
    /\ target \in [Conn -> {"none", "open", "eof", "error", "closed"}]
    /\ fin \in [Conn -> BOOLEAN]
    /\ deadline \in [Conn -> {"none", "set", "passed"}]
    /\ status \in [Conn -> Probe \cup
                     {"OK", "ERR_READ_ADDRESS", "ERR_CONNECT", "ERR_ADDRESS",
                      "ERR_RELAY_CLIENT", "ERR_RELAY_TARGET"}]
    /\ replied \in [Conn -> 0 .. MaxChunks]
    /\ proxyMetrics \in [Conn -> [DOMAIN ProxyMetrics -> Nat]]
    /\ written \in [Conn -> [U : Nat, D : Nat]]
    /\ billed \in [Conn -> SUBSET ({"host", "U", "D"} \X Nat)]
    /\ probe \in [Conn -> ProbeReport \cup {None}]
    /\ closing \in [Conn -> [DOMAIN ProxyMetrics -> Nat] \cup {None}]

Passed(c) ==
    pc[c] \notin {"new", "hello", "replay"} /\ status[c] \notin Probe

\* The replay defence of PROBES.md: of the connections that present the same
\* handshake, in any interleaving, at most one gets past the replay check, and
\* none with a salt the server itself has made.  The cache's promise covers its
\* last Capacity handshakes.
NoReplay ==
    \A c \in Conn : Passed(c) =>
      /\ hello[c] \in Handshake \ ServerSalts
      /\ Cardinality(Conn) <= Capacity + 1 =>
           \A d \in Conn \ {c} : Passed(d) => hello[c] # hello[d]

\* Whoever fails to authenticate, or sends a bad address, learns nothing from
\* the close: it comes when the prober itself has ended the connection or when
\* the authentication deadline of absorbProbe has passed.
SilentClose ==
    \A c \in Conn : pc[c] \in {"finish", "closed"} =>
      /\ status[c] \in Probe => client[c] # "open" \/ deadline[c] = "passed"
      /\ status[c] = "ERR_READ_ADDRESS" => client[c] # "open"

\* "We must do this after the drain is completed, otherwise the target will
\* close its connection with the proxy": the FIN to the target, and the close
\* of both connections, come only after the client has ended.
FinAfterDrain ==
    \A c \in Conn : fin[c] \/ target[c] = "closed" => client[c] # "open"

\* A handshake is judged by the keys installed when its connection was
\* accepted: each of them is tried, whatever marks reorder the list and
\* whatever updates replace it before the client's first bytes arrive.
JudgedByOfferedKeys ==
    \A c \in Conn : pc[c] \notin {"new", "hello"} /\ hello[c] # Garbage =>
      IF status[c] = "ERR_CIPHER"
        THEN KeyOf(hello[c]) \notin offered[c] \/ Drained(c)
        ELSE KeyOf(hello[c]) \in offered[c]

\* When the handler is through, its second goroutine is too, and the host and
\* both directions of a connection that reached its target were reported once.
NothingLeftBehind ==
    \A c \in Conn : pc[c] \in {"finish", "closed"} =>
      /\ up[c] = "none"
      /\ target[c] \in {"none", "closed"}
      /\ \A what \in {"U", "D"} :
           Cardinality({b \in billed[c] : b[1] = what}) =
             IF target[c] = "closed" THEN 1 ELSE 0
      /\ <<"host", 1>> \in billed[c] <=>
           status[c] \notin Probe \cup {"ERR_READ_ADDRESS"}

\* What the connection's users are billed, what its probe report says and what
\* AddClosedTCPConnection is told were counted in three places and agree: the
\* counters are read when nobody changes them any more, failed writes included,
\* and every chunk of a client that ended its stream was read.
MetersAgree ==
    \A c \in Conn : pc[c] = "closed" =>
      /\ closing[c] = proxyMetrics[c]
      /\ status[c] \in Probe <=> probe[c] # None
      /\ probe[c] # None => probe[c][3] = closing[c].ClientProxy
      /\ target[c] = "closed" =>
           /\ {<<"U", closing[c].ProxyTarget>>, <<"D", closing[c].TargetProxy>>}
                \subseteq billed[c]
           /\ client[c] = "eof" => closing[c].ClientProxy = sent[c]

\* No client can keep a handler in the authentication phase: with nobody's
\* co-operation it leaves it within the read timeout.
AuthenticationEnds ==
    \A c \in Conn :
      pc[c] \in {"hello", "replay", "probe", "address"} ~>
      pc[c] \in {"drain", "dial", "closed"}


\* PROBES.md: on invalid initial data the server "will not close the connection
\* until a timeout".  For a bad address there is no timeout to wait for: the
\* deadline is cleared before the drain.
BadAddressTimesOut ==
    \A c \in Conn : pc[c] = "drain" ~> pc[c] = "closed"
=============================================================================
