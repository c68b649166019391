---------------------------- MODULE PacketRelay ----------------------------
(***************************************************************************)
(* UDP packets from an application through the client library              *)
(* (shadowsocks/client/packet_listener.go) and the server                  *)
(* (service/udp.go) to a target, and the target's answers back: which      *)
(* buffer holds what, what fits into it, and what each end makes of it.    *)
(*                                                                         *)
(* Goroutines of the client program call WriteTo and ReadFrom at the same  *)
(* time; all share one pool of slices.  The network between client and     *)
(* server loses, repeats, reorders and damages packets.  The server's      *)
(* buffers belong to its loop and to one timedCopy goroutine each, so that *)
(* a packet is one step there; the life of NAT entries is the subject of   *)
(* UdpService, and here an entry may go at any time.                       *)
(***************************************************************************)
EXTENDS Packet, FiniteSets

CONSTANTS
    Addr,          \* client addresses, as the server sees them
    Keys,          \* the ciphers in the server's list
    Writer, Reader,    \* goroutines that make one call each
    AddrOf,        \* the address of a goroutine's connection
    CipherOf,      \* the cipher of that connection: connections of different
                   \* users follow each other, or meet, at one address
    Slice, Nil,    \* the slices of udpPool, and none
    Message,       \* what WriteTo is called with
    Answer,        \* what targets answer
    Shape,         \* of each message and answer: addrLen, bodyLen, target
    AppBuf         \* the sizes of buffers ReadFrom is called with

ASSUME ClientAssumption ==
    /\ AddrOf \in [Writer \cup Reader -> Addr]
    /\ CipherOf \in [Writer \cup Reader -> Keys]
    /\ IsFiniteSet(Keys)
    /\ \A c \in Keys : c.aead \in supportedAEADs
ASSUME MessageAssumption ==
    /\ Message \cap Answer = {}
    /\ Shape \in [Message \cup Answer -> [addrLen : Nat, bodyLen : Nat,
         target : {"public", "not public", "unresolvable", "bad"}]]
    /\ AppBuf \subseteq Nat
ASSUME DistinctAssumption == Nil \notin Slice \cup Keys /\ Writer \cap Reader = {}

VARIABLES
    pool, slice,   \* udpPool and the LazySlices
    cipherBuf,     \* the slice each goroutine works in
    mem,           \* the packet in each slice
    pc,            \* where each goroutine is
    arg,           \* what each was called with: a message, or a buffer's size
    net,           \* packets under way, in both directions
    keyConn,       \* the cipher of each address's NAT entry, Nil for none
    forwarded,     \* what targets have been sent
    answered,      \* the targets' answers that timedCopy has sent on
    received,      \* what ReadFrom has returned without an error
    verdict        \* history: the packet opened or refused last, the keys that
                   \* failed on it, and the user it was billed to

clientVars == <<pool, slice, cipherBuf, mem, pc, arg, received>>
serverVars == <<keyConn, forwarded, answered>>
vars == <<pool, slice, cipherBuf, mem, pc, arg, net, keyConn, forwarded,
          answered, received, verdict>>

User == Writer \cup Reader
Pool == INSTANCE SlicePool

\* Address and body of a message or an answer, and what is left of them when the
\* end of the body is cut off: still a text, which can be sealed and opened.
Text(c, m) == [addr |-> c, id |-> m, whole |-> TRUE]
Cut(text) == [text EXCEPT !.whole = FALSE]
TextLen(m) == Shape[m].addrLen + Shape[m].bodyLen
Nothing == [cipher |-> Nil, text |-> Damaged, len |-> 0]

\* A packet that is put on the network.
Sent(dir, c, cipher, packed) ==
    [dir |-> dir, addr |-> c,
     pkt |-> [cipher |-> cipher, text |-> packed.text, len |-> packed.len]]

\* What may arrive of a packet under way.
Arriving(dir, c) ==
    LET pkts == {d.pkt : d \in {n \in net : n.dir = dir /\ n.addr = c}}
    IN  pkts \cup {[p EXCEPT !.text = Damaged] : p \in pkts}

Init ==
    /\ Pool!PoolInit
    /\ cipherBuf = [g \in User |-> Nil]
    /\ mem = [b \in Slice |-> Nothing]
    /\ pc = [g \in User |-> "idle"]
    /\ arg = [g \in User |-> Nil]
    /\ net = {}
    /\ keyConn = [c \in Addr |-> Nil]
    /\ forwarded = {} /\ answered = {} /\ received = {}
    /\ verdict = [pkt |-> Nothing, failed |-> {}, uid |-> Nil]

-----------------------------------------------------------------------------
(* The client: WriteTo and ReadFrom.                                       *)

\* Both functions take a slice first.
Acquire(g, a, b) ==
    /\ pc[g] = "idle"
    /\ arg' = [arg EXCEPT ![g] = a]
    /\ Pool!Acquire(g, b)
    /\ cipherBuf' = [cipherBuf EXCEPT ![g] = b]
    /\ pc' = [pc EXCEPT ![g] = "acquired"]
    /\ UNCHANGED <<mem, net, received, serverVars, verdict>>

\* Address and payload are put behind the room for the salt and sealed in place.
Seal(g) ==
    LET cipher == CipherOf[g]
        packed == Pack(clientUDPBufferSize, Text(AddrOf[g], arg[g]),
                       TextLen(arg[g]), cipher)
        short == packed.err # "nil"
    IN  /\ g \in Writer /\ pc[g] = "acquired"
        /\ pc' = [pc EXCEPT ![g] = IF short THEN "release" ELSE "sealed"]
        /\ mem' = [mem EXCEPT ![cipherBuf[g]] =
                     IF short THEN Nothing
                     ELSE Sent("up", AddrOf[g], cipher, packed).pkt]
        /\ UNCHANGED <<cipherBuf, arg, net, received, serverVars, verdict>>

\* Mutant of SealPacket: the slice is released as soon as it is sealed.
SealAndRelease(g) == Seal(g) /\ Pool!Release(g)

SealPacket(g) == Seal(g) /\ UNCHANGED <<pool, slice>>

\* Conn.Write of what is in the slice now.
Write(g) ==
    /\ pc[g] = "sealed"
    /\ pc' = [pc EXCEPT ![g] = "release"]
    /\ net' = net \cup {[dir |-> "up", addr |-> AddrOf[g], pkt |-> mem[cipherBuf[g]]]}
    /\ UNCHANGED <<pool, slice, cipherBuf, mem, arg, received, serverVars, verdict>>

\* Conn.Read into the slice.
Read(g, pkt) ==
    /\ g \in Reader /\ pc[g] = "acquired"
    /\ pkt \in Arriving("down", AddrOf[g])
    /\ pc' = [pc EXCEPT ![g] = "read"]
    /\ mem' = [mem EXCEPT ![cipherBuf[g]] = ReadInto(clientUDPBufferSize, pkt)]
    /\ UNCHANGED <<pool, slice, cipherBuf, arg, net, received, serverVars, verdict>>

\* Mutant of Fits: what does not fit is cut off without a word.
FitsAnyway(g, bodyLen) == TRUE

\* Whether the copy into the caller's buffer is complete; ErrShortBuffer if not.
Fits(g, bodyLen) == arg[g] >= bodyLen

\* What the caller has after copying bodyLen bytes of a text.
Copied(g, text, bodyLen) ==
    IF arg[g] >= bodyLen THEN text ELSE Cut(text)

\* The rest of ReadFrom: decrypt in place, split off the address, copy.  A
\* packet that fails to open is wiped.
Open(g) ==
    LET cipher == CipherOf[g]
        pkt == mem[cipherBuf[g]]
        plain == UnpackInPlace(pkt, cipher)
        bodyLen == plain.len - Shape[plain.text.id].addrLen
    IN  /\ pc[g] = "read"
        /\ pc' = [pc EXCEPT ![g] = "release"]
        /\ mem' = [mem EXCEPT ![cipherBuf[g]] = Nothing]
        /\ IF plain.err = "nil"
             THEN /\ received' = IF Fits(g, bodyLen)
                                   THEN received \cup {Copied(g, plain.text, bodyLen)}
                                   ELSE received
                  /\ UNCHANGED verdict
             ELSE /\ verdict' = [pkt |-> pkt, failed |-> {cipher}, uid |-> Nil]
                  /\ UNCHANGED received
        /\ UNCHANGED <<pool, slice, cipherBuf, arg, net, serverVars>>

\* The deferred Release, also of a call whose Conn.Write or Conn.Read fails.
Release(g) ==
    /\ \/ pc[g] \in {"release", "sealed"}
       \/ g \in Reader /\ pc[g] = "acquired"
    /\ Pool!Release(g)
    /\ cipherBuf' = [cipherBuf EXCEPT ![g] = Nil]
    /\ pc' = [pc EXCEPT ![g] = "done"]
    /\ UNCHANGED <<mem, arg, net, received, serverVars, verdict>>

Collect ==
    /\ Pool!Collect
    /\ UNCHANGED <<cipherBuf, mem, pc, arg, net, received, serverVars, verdict>>

-----------------------------------------------------------------------------
(* The server's loop.                                                      *)

Orders == {s \in [1 .. Cardinality(Keys) -> Keys] :
             \A i, j \in DOMAIN s : s[i] = s[j] => i = j}

\* Mutant of Tried: dst is src, so that the first failure wipes the packet.
TriedInPlace(snapshot) == {1}

\* The entries of the snapshot that are tried on the packet as it came: dst is
\* a buffer of its own, and a failed attempt leaves src alone.
Tried(snapshot) == DOMAIN snapshot

\* The ciphers that open the packet, first come first served.
findAccessKeyUDP(snapshot, pkt) ==
    LET opens == {i \in Tried(snapshot) :
                    Unpack(serverUDPBufferSize, pkt, snapshot[i]).err = "nil"}
    IN  IF opens = {} THEN Nil
        ELSE snapshot[CHOOSE i \in opens : \A j \in opens : i <= j]

\* The cipher a packet opens with: that of the address's entry, if there is one,
\* whichever key the packet was sealed with, or the one the search finds.
OpensWith(c, snapshot, pkt) ==
    IF keyConn[c] = Nil THEN findAccessKeyUDP(snapshot, pkt)
    ELSE IF UnpackInPlace(pkt, keyConn[c]).err = "nil" THEN keyConn[c] ELSE Nil

\* Mutant of KeyID: the entry's key is taken before the packet is decrypted.
KeyIDOfEntry(c, cipher) == IF keyConn[c] = Nil THEN cipher ELSE keyConn[c]

\* "The key ID is known with confidence once decryption succeeds."
KeyID(c, cipher) == cipher

\* The deferred AddRepo: every packet is reported, but to no user if it has no
\* key.
AddRepo(uid, pkt, failed) ==
    verdict' = [pkt |-> pkt, failed |-> failed, uid |-> uid]

\* validatePacket, and the creation of the target socket, which may fail.
validatePacket(text) == Shape[text.id].target = "public"

\* ERR_CIPHER.
RefusePacket(c, snapshot, pkt) ==
    /\ pkt \in Arriving("up", c)
    /\ OpensWith(c, snapshot, pkt) = Nil
    /\ AddRepo(KeyID(c, Nil), pkt, IF keyConn[c] = Nil THEN Keys ELSE {keyConn[c]})
    /\ UNCHANGED <<clientVars, net, keyConn, forwarded, answered>>

\* The packet opens and is dropped all the same: ERR_READ_ADDRESS,
\* ERR_RESOLVE_ADDRESS, an address that is not public, ERR_CREATE_SOCKET.  It is
\* billed.
DropPacket(c, snapshot, pkt) ==
    LET cipher == OpensWith(c, snapshot, pkt)
    IN  /\ pkt \in Arriving("up", c)
        /\ cipher # Nil
        /\ ~validatePacket(pkt.text) \/ keyConn[c] = Nil
        /\ AddRepo(KeyID(c, cipher), pkt, {})
        /\ UNCHANGED <<clientVars, net, keyConn, forwarded, answered>>

\* The packet goes to its target, through a new entry or the one there is; the
\* entry stays if the write fails (ERR_WRITE).
ForwardPacket(c, snapshot, pkt) ==
    LET cipher == OpensWith(c, snapshot, pkt)
    IN  /\ pkt \in Arriving("up", c)
        /\ cipher # Nil
        /\ validatePacket(pkt.text)
        /\ keyConn' = [keyConn EXCEPT ![c] = cipher]
        /\ forwarded' \in {forwarded, forwarded \cup {pkt.text}}
        /\ AddRepo(KeyID(c, cipher), pkt, {})
        /\ UNCHANGED <<clientVars, net, answered>>

-----------------------------------------------------------------------------
(* timedCopy.                                                              *)

\* An answer is read behind the room for salt and address, where the buffer may
\* cut it, and packed in place with the entry's cipher.
PackAnswer(cipher, c, r) ==
    LET whole == Shape[r].bodyLen <= readBufLen(cipher)
        text == IF whole THEN Text(c, r) ELSE Cut(Text(c, r))
        bodyLen == IF whole THEN Shape[r].bodyLen ELSE readBufLen(cipher)
    IN  Pack(packBufLen(cipher, Shape[r].addrLen), text,
             Shape[r].addrLen + bodyLen, cipher)

\* ERR_PACK, and ERR_WRITE for a packet that is too large for UDP.
timedCopy(c, r) ==
    LET packed == PackAnswer(keyConn[c], c, r)
    IN  /\ keyConn[c] # Nil
        /\ saltStart(keyConn[c], Shape[r].addrLen) >= 0
        /\ IF packed.err = "nil" /\ packed.len <= MaxDatagram
             THEN /\ net' = net \cup {Sent("down", c, keyConn[c], packed)}
                  /\ answered' = answered \cup {Text(c, r)}
             ELSE UNCHANGED <<net, answered>>
        /\ UNCHANGED <<clientVars, keyConn, forwarded, verdict>>

\* The answer comes from an address that is longer than the room for it: the
\* name of a zone makes an IPv6 address a domain name to ParseAddr.  The slice
\* expression panics, in a goroutine that does not recover, and every entry of
\* the process goes.
timedCopyPanics(c, r) ==
    /\ keyConn[c] # Nil
    /\ saltStart(keyConn[c], Shape[r].addrLen) < 0
    /\ keyConn' = [a \in Addr |-> Nil]
    /\ UNCHANGED <<clientVars, net, forwarded, answered, verdict>>

ExpireEntry(c) ==
    /\ keyConn[c] # Nil
    /\ keyConn' = [keyConn EXCEPT ![c] = Nil]
    /\ UNCHANGED <<clientVars, net, forwarded, answered, verdict>>

-----------------------------------------------------------------------------

Client(g) ==
    \/ \E b \in Slice, a \in IF g \in Writer THEN Message ELSE AppBuf : Acquire(g, a, b)
    \/ SealPacket(g) \/ Write(g)
    \/ \E pkt \in Arriving("down", AddrOf[g]) : Read(g, pkt)
    \/ Open(g) \/ Release(g)

Server(c) ==
    \/ \E snapshot \in Orders, pkt \in Arriving("up", c) :
         \/ RefusePacket(c, snapshot, pkt)
         \/ DropPacket(c, snapshot, pkt)
         \/ ForwardPacket(c, snapshot, pkt)
    \/ \E r \in Answer : timedCopy(c, r) \/ timedCopyPanics(c, r)
    \/ ExpireEntry(c)

Next == (\E g \in User : Client(g)) \/ (\E c \in Addr : Server(c)) \/ Collect

Spec == Init /\ [][Next]_vars

-----------------------------------------------------------------------------

Answers == {Text(c, r) : c \in Addr, r \in Answer}
Texts == [addr : Addr, id : Message \cup Answer, whole : BOOLEAN]
Packets == [cipher : Keys \cup {Nil}, text : Texts \cup {Damaged}, len : Nat]

TypeOK ==
    /\ pool \in SUBSET Slice
    /\ slice \in [User -> Slice \cup {Nil}]
    /\ cipherBuf \in [User -> Slice \cup {Nil}]
    /\ mem \in [Slice -> Packets]
    /\ arg \in [User -> Message \cup AppBuf \cup {Nil}]
    /\ net \in SUBSET [dir : {"up", "down"}, addr : Addr, pkt : Packets]
    /\ answered \subseteq Answers
    /\ verdict \in [pkt : Packets, failed : SUBSET Keys, uid : Keys \cup {Nil}]
    /\ pc \in [User -> {"idle", "acquired", "sealed", "read", "release", "done"}]
    /\ keyConn \in [Addr -> Keys \cup {Nil}]

\* No two calls of WriteTo and ReadFrom ever work in the same slice, and none in
\* a slice that the pool could hand out.
SlicesAreExclusive ==
    \A g \in User : cipherBuf[g] # Nil =>
      /\ cipherBuf[g] \notin pool
      /\ \A h \in User \ {g} : cipherBuf[h] # cipherBuf[g]

\* Whole or nothing: in both directions the relay is a datagram service.  No
\* truncation, at whichever of the four buffers it happens, no damage on the way
\* and no concurrent use of the library makes a packet that was not sent, and
\* none reaches a target the validator rejects.
Up == INSTANCE DatagramService
        WITH Datagram <- {Text(c, m) : c \in Addr, m \in Message},
             Deliverable <- {Text(c, m) : c \in Addr,
                               m \in {n \in Message : Shape[n].target = "public"}},
             sent <- {Text(AddrOf[g], arg[g]) : g \in {w \in Writer : pc[w] # "idle"}},
             delivered <- forwarded
Down == INSTANCE DatagramService
          WITH Datagram <- Answers, Deliverable <- Answers,
               sent <- answered, delivered <- received
RefinesDatagrams == Up!Spec /\ Down!Spec

\* A user is billed only for packets that were sealed with the user's own key,
\* also when the client's address has an entry that another key has made.
BilledToSender ==
    verdict.uid # Nil =>
      verdict.pkt.cipher = verdict.uid /\ verdict.pkt.text # Damaged

\* Neither end fails to open a packet without a reason: it is damaged, it is
\* longer than the client's buffer, or no key that had to be tried made it.
\* Whatever the position of the key in the list, the search reaches it.
RefusedForAReason ==
    verdict.pkt.text # Damaged => verdict.pkt.cipher \notin verdict.failed

=============================================================================
