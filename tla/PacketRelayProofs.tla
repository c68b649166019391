-------------------------- MODULE PacketRelayProofs --------------------------
(***************************************************************************)
(* Theorems about ciphers, packets and the slices of the client library.   *)
(***************************************************************************)
EXTENDS PacketRelay, FiniteSetTheorems, WellFoundedInduction, TLAPS

\* The comment on bytesForKeyFinding, for every supported cipher: a valid
\* connection provides at least that many bytes, so that findAccessKey does not
\* wait for ever, and they are enough to authenticate it.
THEOREM KeyFindingFits ==
    \A spec \in supportedAEADs :
      /\ spec.saltSize + 2 + 2 * spec.tagSize >= bytesForKeyFinding
      /\ bytesForKeyFinding >= spec.saltSize + 2 + spec.tagSize
BY DEF supportedAEADs, newAEADSpec, Overhead, bytesForKeyFinding

LEMMA Sizes ==
    ASSUME NEW cipher, cipher.aead \in supportedAEADs
    PROVE  SaltSize(cipher) \in 16 .. 32 /\ TagSize(cipher) = 16
BY DEF supportedAEADs, newAEADSpec, Overhead, SaltSize, TagSize

\* The layout of timedCopy's buffer, for every cipher and a source address of any
\* length: the salt starts inside the buffer exactly if the address is not longer
\* than that of an IPv6 host, the text starts exactly where Pack's output for it
\* does, as encryption in place demands, and Pack finds room exactly for the
\* bodies that leave room for the tag.
THEOREM InPlaceLayout ==
    ASSUME NEW cipher, cipher.aead \in supportedAEADs,
           NEW addrLen \in Nat, NEW bodyLen \in Nat, NEW text
    PROVE  /\ saltStart(cipher, addrLen) >= 0 <=> addrLen <= maxAddrLen
           /\ saltStart(cipher, addrLen) + SaltSize(cipher) = addrStart(cipher, addrLen)
           /\ addrStart(cipher, addrLen) + addrLen = bodyStart(cipher)
           /\ Pack(packBufLen(cipher, addrLen), text, addrLen + bodyLen, cipher).err = "nil"
                <=> bodyLen + TagSize(cipher) <= readBufLen(cipher)
<1>1. SaltSize(cipher) \in 16 .. 32 /\ TagSize(cipher) = 16
  BY Sizes
<1> QED
  BY <1>1 DEF saltStart, addrStart, bodyStart, readBufLen, packBufLen, Pack,
              PackedLen, Error, maxAddrLen, serverUDPBufferSize

\* An answer that fills timedCopy's read buffer, and may have been cut by it, is
\* never packed, wherever it comes from: there is no room left for its tag.
THEOREM CutAnswersAreNotPacked ==
    ASSUME NEW cipher, cipher.aead \in supportedAEADs,
           NEW addrLen \in Nat, NEW text
    PROVE  Pack(packBufLen(cipher, addrLen), text, addrLen + readBufLen(cipher),
                cipher) = Error("ErrShortBuffer")
<1>1. SaltSize(cipher) \in 16 .. 32 /\ TagSize(cipher) = 16
  BY Sizes
<1> QED
  BY <1>1 DEF saltStart, addrStart, bodyStart, readBufLen, packBufLen, Pack,
              PackedLen, maxAddrLen, serverUDPBufferSize

-----------------------------------------------------------------------------

\* Every goroutine works in the slice its LazySlice holds.
SliceInv ==
    /\ slice \in [User -> Slice \cup {Nil}]
    /\ cipherBuf = slice
    /\ SlicesAreExclusive

USE DEF User

LEMMA InitSliceInv == Init => SliceInv
BY DistinctAssumption DEF Init, SliceInv, SlicesAreExclusive, Pool!PoolInit

LEMMA AcquireSliceInv ==
    ASSUME SliceInv, NEW g \in User, NEW b \in Slice, NEW a, Acquire(g, a, b)
    PROVE  SliceInv'
<1>1. /\ slice' = [slice EXCEPT ![g] = b] /\ pool' = pool \ {b}
      /\ cipherBuf' = [cipherBuf EXCEPT ![g] = b]
      /\ slice[g] = Nil
  BY DEF Acquire, Pool!Acquire
<1>2. \A h \in User : slice[h] # b
  <2>1. CASE b \in pool
    BY <2>1, DistinctAssumption DEF SliceInv, SlicesAreExclusive
  <2>2. CASE b \notin pool
    BY <2>2 DEF Acquire, Pool!Acquire, Pool!get, Pool!Held
  <2> QED BY <2>1, <2>2
<1> QED BY <1>1, <1>2, DistinctAssumption DEF SliceInv, SlicesAreExclusive

LEMMA ReleaseSliceInv ==
    ASSUME SliceInv, NEW g \in User, Release(g)
    PROVE  SliceInv'
BY DistinctAssumption DEF Release, Pool!Release, SliceInv, SlicesAreExclusive

LEMMA OtherSliceInv ==
    ASSUME SliceInv, UNCHANGED <<slice, cipherBuf>>, pool' \subseteq pool
    PROVE  SliceInv'
BY DEF SliceInv, SlicesAreExclusive

LEMMA NextSliceInv == SliceInv /\ [Next]_vars => SliceInv'
<1> SUFFICES ASSUME SliceInv, [Next]_vars PROVE SliceInv' OBVIOUS
<1>1. ASSUME NEW g \in User, Client(g) PROVE SliceInv'
  <2>1. CASE \E b \in Slice, a \in IF g \in Writer THEN Message ELSE AppBuf :
               Acquire(g, a, b)
    BY <2>1, AcquireSliceInv
  <2>2. CASE SealPacket(g) \/ Write(g) \/ Open(g)
    BY <2>2, OtherSliceInv DEF SealPacket, Seal, Write, Open
  <2>3. CASE \E pkt \in Arriving("down", AddrOf[g]) : Read(g, pkt)
    BY <2>3, OtherSliceInv DEF Read
  <2>4. CASE Release(g)
    BY <2>4, ReleaseSliceInv
  <2> QED BY <1>1, <2>1, <2>2, <2>3, <2>4 DEF Client
<1>2. ASSUME NEW c \in Addr, Server(c) PROVE SliceInv'
  BY <1>2, OtherSliceInv
     DEF Server, RefusePacket, DropPacket, ForwardPacket, timedCopy,
         timedCopyPanics, ExpireEntry, clientVars
<1>3. CASE Collect
  BY <1>3, OtherSliceInv DEF Collect, Pool!Collect
<1>4. CASE UNCHANGED vars
  BY <1>4, OtherSliceInv DEF vars
<1> QED BY <1>1, <1>2, <1>3, <1>4 DEF Next

\* For any number of concurrent calls, slices and messages: no slice of udpPool
\* is ever used by two calls, or used by one and free for the next.
THEOREM SlicesStayExclusive == Spec => []SlicesAreExclusive
<1>1. SliceInv => SlicesAreExclusive
  BY DEF SliceInv
<1> QED BY <1>1, InitSliceInv, NextSliceInv, PTL DEF Spec

-----------------------------------------------------------------------------
(* Packets.  What is in a slice or on the network was sent, unless it is   *)
(* damaged.                                                                *)

\* The texts of the writers' calls.
Written == {Text(AddrOf[g], arg[g]) : g \in {w \in Writer : pc[w] # "idle"}}

\* A packet that can still be opened was sealed by one of the server's ciphers,
\* has room for salt and tag, fits a buffer of max bytes, and holds one of texts.
Sound(pkt, max, texts) ==
    pkt.text # Damaged =>
      /\ pkt.cipher \in Keys
      /\ SaltSize(pkt.cipher) + TagSize(pkt.cipher) <= pkt.len /\ pkt.len <= max
      /\ pkt.text \in texts

\* The slice of a goroutine, by the place where the goroutine is.
AtWorkOf(g) ==
    /\ pc[g] \in {"acquired", "sealed", "read"} => cipherBuf[g] \in Slice
    /\ pc[g] = "sealed" =>
         g \in Writer /\ Sound(mem[cipherBuf[g]], clientUDPBufferSize, Written)
    /\ pc[g] = "read" =>
         g \in Reader /\ Sound(mem[cipherBuf[g]], clientUDPBufferSize, answered)
    /\ g \in Writer /\ pc[g] # "idle" => arg[g] \in Message

AtWork == \A g \in User : AtWorkOf(g)

UnderWay ==
    \A n \in net :
      /\ n.dir = "up" => Sound(n.pkt, clientUDPBufferSize, Written)
      /\ n.dir = "down" => Sound(n.pkt, MaxDatagram, answered)

PacketInv ==
    /\ TypeOK /\ SliceInv /\ AtWork /\ UnderWay
    /\ BilledToSender /\ RefusedForAReason

-----------------------------------------------------------------------------
(* What opening a packet says about it.                                    *)

LEMMA Minimum ==
    ASSUME NEW S \in SUBSET Nat, S # {}
    PROVE  \E i \in S : \A j \in S : i <= j
<1>1. PICK i \in S : \A j \in S : ~ (<<j, i>> \in OpToRel(<, Nat))
  BY NatLessThanWellFounded, WFMin
<1>2. \A j \in S : ~ (j < i)
  BY <1>1 DEF OpToRel
<1> QED BY <1>2

\* A snapshot of the cipher list has every key in it.
LEMMA SnapshotIsComplete ==
    ASSUME NEW snapshot \in Orders
    PROVE  /\ Cardinality(Keys) \in Nat
           /\ DOMAIN snapshot = 1 .. Cardinality(Keys)
           /\ \A i \in DOMAIN snapshot : snapshot[i] \in Keys
           /\ \A k \in Keys : \E i \in DOMAIN snapshot : snapshot[i] = k
<1> DEFINE n == Cardinality(Keys)
<1>1. n \in Nat
  BY FS_CardinalityType, ClientAssumption
<1>2. Cardinality(1 .. n) = n
  BY <1>1, FS_Interval
<1>3. snapshot \in [1 .. n -> Keys]
  BY DEF Orders
<1>4. snapshot \in Injection(1 .. n, Keys)
  BY <1>3 DEF Orders, Injection, IsInjective
<1>5. snapshot \in Surjection(1 .. n, Keys)
  BY <1>2, <1>4, FS_Injection, ClientAssumption
<1> QED BY <1>1, <1>3, <1>5 DEF Surjection

LEMMA OpenedIsWhole ==
    ASSUME NEW capacity, NEW pkt, NEW cipher, Unpack(capacity, pkt, cipher).err = "nil"
    PROVE  /\ pkt.cipher = cipher /\ pkt.text # Damaged
           /\ Unpack(capacity, pkt, cipher).text = pkt.text
BY DEF Unpack, DecryptOnce, Error

LEMMA WholeOpens ==
    ASSUME NEW capacity \in Int, NEW pkt, NEW max, NEW texts,
           Sound(pkt, max, texts), pkt.text # Damaged, pkt.len \in Nat,
           capacity >= pkt.len - SaltSize(pkt.cipher) - TagSize(pkt.cipher)
    PROVE  Unpack(capacity, pkt, pkt.cipher).err = "nil"
<1>1. SaltSize(pkt.cipher) \in 16 .. 32 /\ TagSize(pkt.cipher) = 16
  BY Sizes, ClientAssumption DEF Sound
<1> QED BY <1>1 DEF Unpack, DecryptOnce, Sound

LEMMA WholeOpensInPlace ==
    ASSUME NEW pkt, NEW max, NEW texts,
           Sound(pkt, max, texts), pkt.text # Damaged, pkt.len \in Nat
    PROVE  UnpackInPlace(pkt, pkt.cipher).err = "nil"
<1>1. SaltSize(pkt.cipher) \in 16 .. 32 /\ TagSize(pkt.cipher) = 16
  BY Sizes, ClientAssumption DEF Sound
<1>2. /\ pkt.len - SaltSize(pkt.cipher) \in Int
      /\ pkt.len - SaltSize(pkt.cipher)
           >= pkt.len - SaltSize(pkt.cipher) - TagSize(pkt.cipher)
  BY <1>1
<1> QED BY <1>2, WholeOpens DEF UnpackInPlace

\* The search ends with the key that sealed the packet, or with none if the
\* packet is damaged.
LEMMA SearchIsComplete ==
    ASSUME NEW snapshot \in Orders, NEW pkt \in Packets, NEW texts,
           Sound(pkt, clientUDPBufferSize, texts)
    PROVE  LET found == findAccessKeyUDP(snapshot, pkt)
           IN  /\ found \in Keys => pkt.cipher = found /\ pkt.text # Damaged
               /\ found \notin Keys => found = Nil /\ pkt.text = Damaged
<1> DEFINE opens == {i \in Tried(snapshot) :
                       Unpack(serverUDPBufferSize, pkt, snapshot[i]).err = "nil"}
<1>1. opens \in SUBSET Nat /\ \A i \in opens : snapshot[i] \in Keys
  BY SnapshotIsComplete DEF Tried
<1>2. CASE opens = {}
  <2>1. pkt.text = Damaged
    <3> SUFFICES ASSUME pkt.text # Damaged PROVE FALSE OBVIOUS
    <3>1. PICK i \in DOMAIN snapshot : snapshot[i] = pkt.cipher
      BY SnapshotIsComplete DEF Sound
    <3>2. SaltSize(pkt.cipher) \in 16 .. 32 /\ TagSize(pkt.cipher) = 16
      BY Sizes, ClientAssumption DEF Sound
    <3>3. pkt.len \in Nat
      BY DEF Packets
    <3>4. serverUDPBufferSize >= pkt.len - SaltSize(pkt.cipher) - TagSize(pkt.cipher)
      BY <3>2, <3>3 DEF Sound, serverUDPBufferSize, clientUDPBufferSize
    <3>5. Unpack(serverUDPBufferSize, pkt, pkt.cipher).err = "nil"
      BY <3>3, <3>4, WholeOpens DEF serverUDPBufferSize
    <3> QED BY <1>2, <3>1, <3>5 DEF Tried
  <2>2. findAccessKeyUDP(snapshot, pkt) = Nil
    BY <1>2 DEF findAccessKeyUDP
  <2> QED BY <2>1, <2>2, DistinctAssumption
<1>3. CASE opens # {}
  <2> DEFINE first == CHOOSE i \in opens : \A j \in opens : i <= j
  <2>1. first \in opens
    BY <1>1, <1>3, Minimum
  <2>2. findAccessKeyUDP(snapshot, pkt) = snapshot[first]
    BY <1>3 DEF findAccessKeyUDP
  <2>3. pkt.cipher = snapshot[first] /\ pkt.text # Damaged
    BY <2>1, OpenedIsWhole
  <2> QED BY <1>1, <2>1, <2>2, <2>3
<1> QED BY <1>2, <1>3

\* The same for the server's decision, with an entry for the connection or
\* without one.
LEMMA VerdictIsRight ==
    ASSUME NEW c \in Addr, NEW snapshot \in Orders, NEW pkt \in Packets, NEW texts,
           Sound(pkt, clientUDPBufferSize, texts),
           keyConn \in [Addr -> Keys \cup {Nil}]
    PROVE  LET cipher == OpensWith(c, snapshot, pkt)
               tried == IF keyConn[c] = Nil THEN Keys ELSE {keyConn[c]}
           IN  /\ cipher \in Keys \cup {Nil}
               /\ cipher # Nil => pkt.cipher = cipher /\ pkt.text # Damaged
               /\ cipher = Nil => (pkt.text # Damaged => pkt.cipher \notin tried)
<1>1. CASE keyConn[c] = Nil
  BY <1>1, SearchIsComplete, DistinctAssumption DEF OpensWith
<1>2. CASE keyConn[c] # Nil
  <2>1. CASE UnpackInPlace(pkt, keyConn[c]).err = "nil"
    BY <1>2, <2>1, OpenedIsWhole DEF OpensWith, UnpackInPlace
  <2>2. CASE UnpackInPlace(pkt, keyConn[c]).err # "nil"
    <3>1. pkt.len \in Nat
      BY DEF Packets
    <3>2. OpensWith(c, snapshot, pkt) = Nil
      BY <1>2, <2>2 DEF OpensWith
    <3>3. pkt.text # Damaged => pkt.cipher # keyConn[c]
      BY <2>2, <3>1, WholeOpensInPlace
    <3> QED BY <1>2, <3>2, <3>3
  <2> QED BY <2>1, <2>2
<1> QED BY <1>1, <1>2

-----------------------------------------------------------------------------
(* PacketInv is inductive.                                                 *)

LEMMA InitPacketInv == Init => PacketInv
<1> SUFFICES ASSUME Init PROVE PacketInv OBVIOUS
<1>1. Nothing \in Packets
  BY DEF Nothing, Packets
<1>2. verdict \in [pkt : Packets, failed : SUBSET Keys, uid : Keys \cup {Nil}]
  BY <1>1 DEF Init
<1>3. TypeOK
  BY <1>1, <1>2 DEF Init, TypeOK, Pool!PoolInit
<1>4. AtWork /\ UnderWay
  BY DEF Init, AtWork, AtWorkOf, UnderWay
<1>5. BilledToSender /\ RefusedForAReason
  BY DEF Init, BilledToSender, RefusedForAReason, Nothing
<1> QED BY <1>3, <1>4, <1>5, InitSliceInv DEF PacketInv

\* What may arrive is no better than what was put on the network.
LEMMA ArrivingIsSound ==
    ASSUME TypeOK, UnderWay, NEW c
    PROVE  /\ \A pkt \in Arriving("up", c) :
                pkt \in Packets /\ Sound(pkt, clientUDPBufferSize, Written)
           /\ \A pkt \in Arriving("down", c) :
                pkt \in Packets /\ Sound(pkt, MaxDatagram, answered)
<1>1. ASSUME NEW dir, NEW pkt \in Arriving(dir, c)
      PROVE  \E n \in net : n.dir = dir /\ n.pkt \in Packets
               /\ (pkt = n.pkt \/ pkt = [n.pkt EXCEPT !.text = Damaged])
  BY <1>1 DEF Arriving, TypeOK
<1>2. ASSUME NEW q \in Packets
      PROVE  /\ [q EXCEPT !.text = Damaged] \in Packets
             /\ [q EXCEPT !.text = Damaged].text = Damaged
  BY DEF Packets
<1>3. ASSUME NEW pkt \in Arriving("up", c)
      PROVE  pkt \in Packets /\ Sound(pkt, clientUDPBufferSize, Written)
  <2>1. PICK n \in net : n.dir = "up" /\ n.pkt \in Packets
               /\ (pkt = n.pkt \/ pkt = [n.pkt EXCEPT !.text = Damaged])
    BY <1>1
  <2> QED BY <1>2, <2>1 DEF UnderWay, Sound
<1>4. ASSUME NEW pkt \in Arriving("down", c)
      PROVE  pkt \in Packets /\ Sound(pkt, MaxDatagram, answered)
  <2>1. PICK n \in net : n.dir = "down" /\ n.pkt \in Packets
               /\ (pkt = n.pkt \/ pkt = [n.pkt EXCEPT !.text = Damaged])
    BY <1>1
  <2> QED BY <1>2, <2>1 DEF UnderWay, Sound
<1> QED BY <1>3, <1>4

\* A packet stays sound when more is written and answered.
LEMMA SoundGrows ==
    ASSUME NEW pkt, NEW max, NEW texts, NEW more, texts \subseteq more,
           Sound(pkt, max, texts)
    PROVE  Sound(pkt, max, more)
BY DEF Sound

\* What a read into the client's slice leaves of a packet.
LEMMA ReadIsSound ==
    ASSUME NEW pkt \in Packets, NEW texts, Sound(pkt, MaxDatagram, texts)
    PROVE  LET q == ReadInto(clientUDPBufferSize, pkt)
           IN  q \in Packets /\ Sound(q, clientUDPBufferSize, texts)
<1>1. CASE pkt.len <= clientUDPBufferSize
  BY <1>1 DEF ReadInto, Sound
<1>2. CASE ~ (pkt.len <= clientUDPBufferSize)
  <2> DEFINE q == [pkt EXCEPT !.len = clientUDPBufferSize, !.text = Damaged]
  <2>1. q \in Packets /\ q.text = Damaged
    <3>1. clientUDPBufferSize \in Nat
      BY DEF clientUDPBufferSize
    <3> QED BY <3>1 DEF Packets
  <2>2. ReadInto(clientUDPBufferSize, pkt) = q
    BY <1>2 DEF ReadInto
  <2> QED BY <2>1, <2>2 DEF Sound
<1> QED BY <1>1, <1>2

\* What Pack makes of a text.
LEMMA PackedIsSound ==
    ASSUME NEW dstLen \in Int, NEW cipher \in Keys, NEW text, NEW textLen \in Nat,
           NEW dir, NEW c, NEW texts, NEW max \in Int,
           text \in Texts \cup {Damaged}, text \in texts \cup {Damaged},
           LET packed == Pack(dstLen, text, textLen, cipher)
           IN  packed.err = "nil" /\ packed.len <= max
    PROVE  LET n == Sent(dir, c, cipher, Pack(dstLen, text, textLen, cipher))
           IN  /\ n.dir = dir /\ n.addr = c /\ n.pkt \in Packets
               /\ Sound(n.pkt, max, texts)
<1>1. SaltSize(cipher) \in 16 .. 32 /\ TagSize(cipher) = 16
  BY Sizes, ClientAssumption
<1>2. Pack(dstLen, text, textLen, cipher) =
        [err |-> "nil", text |-> text, len |-> PackedLen(cipher, textLen)]
  BY DEF Pack, Error
<1>3. PackedLen(cipher, textLen) \in Nat
      /\ SaltSize(cipher) + TagSize(cipher) <= PackedLen(cipher, textLen)
  BY <1>1 DEF PackedLen
<1> DEFINE pkt == [cipher |-> cipher, text |-> text, len |-> PackedLen(cipher, textLen)]
<1>4. Sent(dir, c, cipher, Pack(dstLen, text, textLen, cipher)) =
        [dir |-> dir, addr |-> c, pkt |-> pkt]
  BY <1>2 DEF Sent
<1>5. pkt \in Packets
  BY <1>3 DEF Packets
<1>6. Sound(pkt, max, texts)
  BY <1>2, <1>3 DEF Sound
<1> QED BY <1>4, <1>5, <1>6

LEMMA WrittenGrows ==
    ASSUME \A w \in Writer : pc[w] # "idle" => pc'[w] # "idle" /\ arg'[w] = arg[w]
    PROVE  Written \subseteq Written'
BY DEF Written, Text

\* A step of one goroutine leaves the slices of the others alone.
LEMMA OthersStayAtWork ==
    ASSUME PacketInv, NEW g \in User, AtWorkOf(g)',
           Written \subseteq Written', answered \subseteq answered',
           \A h \in User \ {g} : /\ pc'[h] = pc[h] /\ arg'[h] = arg[h]
                                 /\ cipherBuf'[h] = cipherBuf[h],
           \A b \in Slice \ {cipherBuf[g]} : mem'[b] = mem[b]
    PROVE  AtWork'
<1> SUFFICES ASSUME NEW h \in User \ {g} PROVE AtWorkOf(h)'
  BY DEF AtWork
<1>1. AtWorkOf(h)
  BY DEF PacketInv, AtWork
<1>2. pc[h] \in {"acquired", "sealed", "read"} => mem'[cipherBuf[h]] = mem[cipherBuf[h]]
  BY <1>1, DistinctAssumption DEF AtWorkOf, PacketInv, SliceInv, SlicesAreExclusive
<1> QED BY <1>1, <1>2, SoundGrows DEF AtWorkOf

\* A step of the server or of the garbage collector leaves them all alone.
LEMMA AllStayAtWork ==
    ASSUME PacketInv, UNCHANGED <<cipherBuf, mem, pc, arg>>, answered \subseteq answered'
    PROVE  AtWork' /\ Written' = Written
<1>1. Written' = Written
  BY DEF Written
<1> QED BY <1>1, SoundGrows DEF PacketInv, AtWork, AtWorkOf

LEMMA SameUnderWay ==
    ASSUME UnderWay, UNCHANGED net, Written \subseteq Written', answered \subseteq answered'
    PROVE  UnderWay'
BY SoundGrows DEF UnderWay

LEMMA SameVerdict ==
    ASSUME PacketInv, UNCHANGED verdict
    PROVE  (BilledToSender /\ RefusedForAReason)'
BY DEF PacketInv, BilledToSender, RefusedForAReason

LEMMA TextLenType ==
    ASSUME NEW m \in Message \cup Answer
    PROVE  Shape[m].addrLen \in Nat /\ Shape[m].bodyLen \in Nat /\ TextLen(m) \in Nat
<1>1. Shape[m] \in [addrLen : Nat, bodyLen : Nat,
                    target : {"public", "not public", "unresolvable", "bad"}]
  BY MessageAssumption
<1>2. Shape[m].addrLen \in Nat /\ Shape[m].bodyLen \in Nat
  BY <1>1
<1> QED BY <1>2 DEF TextLen

LEMMA AcquirePacketInv ==
    ASSUME PacketInv, NEW g \in User, NEW b \in Slice,
           NEW a \in IF g \in Writer THEN Message ELSE AppBuf, Acquire(g, a, b)
    PROVE  PacketInv'
<1> USE DEF PacketInv
<1>1. TypeOK'
  BY DEF TypeOK, Acquire, Pool!Acquire, serverVars
<1>2. Written \subseteq Written'
  BY WrittenGrows DEF Acquire, TypeOK
<1>3. answered' = answered /\ net' = net /\ verdict' = verdict
  BY DEF Acquire, serverVars
<1>4. AtWorkOf(g)'
  BY DEF AtWorkOf, Acquire, TypeOK
<1>5. AtWork'
  BY <1>2, <1>3, <1>4, OthersStayAtWork DEF Acquire, TypeOK
<1> QED BY <1>1, <1>2, <1>3, <1>5, AcquireSliceInv, SameUnderWay, SameVerdict

LEMMA SealPacketInv ==
    ASSUME PacketInv, NEW g \in User, SealPacket(g)
    PROVE  PacketInv'
<1> USE DEF PacketInv
<1> DEFINE cipher == CipherOf[g]
           text == Text(AddrOf[g], arg[g])
           packed == Pack(clientUDPBufferSize, text, TextLen(arg[g]), cipher)
           pkt == Sent("up", AddrOf[g], cipher, packed).pkt
           new == IF packed.err # "nil" THEN Nothing ELSE pkt
<1>1. /\ g \in Writer /\ pc[g] = "acquired"
      /\ pc' = [pc EXCEPT ![g] = IF packed.err # "nil" THEN "release" ELSE "sealed"]
      /\ mem' = [mem EXCEPT ![cipherBuf[g]] = new]
      /\ UNCHANGED <<pool, slice, cipherBuf, arg, net, received, keyConn, forwarded,
                     answered, verdict>>
  BY DEF SealPacket, Seal, serverVars
<1>2. cipherBuf[g] \in Slice /\ arg[g] \in Message
  BY <1>1 DEF AtWork, AtWorkOf
<1>3. Written \subseteq Written'
  BY <1>1, WrittenGrows DEF TypeOK
<1>4. text \in Written /\ text \in Texts
  BY <1>1, <1>2, ClientAssumption DEF Written, Text, Texts
<1>5. cipher \in Keys /\ TextLen(arg[g]) \in Nat
  BY <1>1, <1>2, ClientAssumption, TextLenType
<1>6. ASSUME packed.err = "nil"
      PROVE  pkt \in Packets /\ Sound(pkt, clientUDPBufferSize, Written)
  <2>1. packed.len <= clientUDPBufferSize /\ clientUDPBufferSize \in Int
    <3>1. SaltSize(cipher) \in 16 .. 32 /\ TagSize(cipher) = 16
      BY <1>5, Sizes, ClientAssumption
    <3> QED BY <1>5, <1>6, <3>1 DEF Pack, Error, PackedLen, clientUDPBufferSize
  <2> QED BY <1>4, <1>5, <1>6, <2>1, PackedIsSound
<1>7. new \in Packets
  BY <1>6 DEF Nothing, Packets
<1>8. TypeOK'
  BY <1>1, <1>2, <1>7 DEF TypeOK
<1>9. AtWorkOf(g)'
  <2>1. mem'[cipherBuf'[g]] = new
    BY <1>1, <1>2 DEF TypeOK
  <2>2. packed.err = "nil" => Sound(new, clientUDPBufferSize, Written')
    BY <1>3, <1>6, SoundGrows
  <2>3. pc'[g] = IF packed.err # "nil" THEN "release" ELSE "sealed"
    BY <1>1 DEF TypeOK
  <2> HIDE DEF new
  <2> QED BY <1>1, <1>2, <2>1, <2>2, <2>3 DEF AtWorkOf
<1>10. AtWork'
  BY <1>1, <1>3, <1>9, OthersStayAtWork DEF TypeOK
<1> QED BY <1>1, <1>3, <1>8, <1>10, OtherSliceInv, SameUnderWay, SameVerdict

LEMMA WritePacketInv ==
    ASSUME PacketInv, NEW g \in User, Write(g)
    PROVE  PacketInv'
<1> USE DEF PacketInv
<1> DEFINE n == [dir |-> "up", addr |-> AddrOf[g], pkt |-> mem[cipherBuf[g]]]
<1>1. /\ pc[g] = "sealed" /\ pc' = [pc EXCEPT ![g] = "release"]
      /\ net' = net \cup {n}
      /\ UNCHANGED <<pool, slice, cipherBuf, mem, arg, received, keyConn, forwarded,
                     answered, verdict>>
  BY DEF Write, serverVars
<1>2. cipherBuf[g] \in Slice /\ Sound(n.pkt, clientUDPBufferSize, Written)
  BY <1>1 DEF AtWork, AtWorkOf
<1>3. Written \subseteq Written'
  BY <1>1, WrittenGrows DEF TypeOK
<1>4. TypeOK'
  <2>1. n \in [dir : {"up", "down"}, addr : Addr, pkt : Packets]
    BY <1>2, ClientAssumption DEF TypeOK
  <2> QED BY <1>1, <2>1 DEF TypeOK
<1>5. AtWorkOf(g)'
  BY <1>1 DEF AtWork, AtWorkOf, TypeOK
<1>6. AtWork'
  BY <1>1, <1>3, <1>5, OthersStayAtWork DEF TypeOK
<1>7. UnderWay'
  BY <1>1, <1>2, <1>3, SoundGrows DEF UnderWay
<1> QED BY <1>1, <1>4, <1>6, <1>7, OtherSliceInv, SameVerdict

LEMMA ReadPacketInv ==
    ASSUME PacketInv, NEW g \in User, NEW pkt \in Arriving("down", AddrOf[g]), Read(g, pkt)
    PROVE  PacketInv'
<1> USE DEF PacketInv
<1> DEFINE new == ReadInto(clientUDPBufferSize, pkt)
<1>1. /\ g \in Reader /\ pc[g] = "acquired" /\ pc' = [pc EXCEPT ![g] = "read"]
      /\ mem' = [mem EXCEPT ![cipherBuf[g]] = new]
      /\ UNCHANGED <<pool, slice, cipherBuf, arg, net, received, keyConn, forwarded,
                     answered, verdict>>
  BY DEF Read, serverVars
<1>2. cipherBuf[g] \in Slice
  BY <1>1 DEF AtWork, AtWorkOf
<1>3. Written \subseteq Written'
  BY <1>1, WrittenGrows DEF TypeOK
<1>4. new \in Packets /\ Sound(new, clientUDPBufferSize, answered)
  BY ArrivingIsSound, ReadIsSound
<1> HIDE DEF new
<1>5. TypeOK'
  BY <1>1, <1>2, <1>4 DEF TypeOK
<1>6. AtWorkOf(g)'
  BY <1>1, <1>2, <1>4, DistinctAssumption DEF AtWorkOf, TypeOK
<1>7. AtWork'
  BY <1>1, <1>3, <1>6, OthersStayAtWork DEF TypeOK
<1> QED BY <1>1, <1>3, <1>5, <1>7, OtherSliceInv, SameUnderWay, SameVerdict

LEMMA OpenPacketInv ==
    ASSUME PacketInv, NEW g \in User, Open(g)
    PROVE  PacketInv'
<1> USE DEF PacketInv
<1> DEFINE cipher == CipherOf[g]
           pkt == mem[cipherBuf[g]]
<1>1. /\ pc[g] = "read" /\ pc' = [pc EXCEPT ![g] = "release"]
      /\ mem' = [mem EXCEPT ![cipherBuf[g]] = Nothing]
      /\ UNCHANGED <<pool, slice, cipherBuf, arg, net, keyConn, forwarded, answered>>
  BY DEF Open, serverVars
<1>2. /\ cipherBuf[g] \in Slice /\ g \in Reader
      /\ Sound(pkt, clientUDPBufferSize, answered)
  BY <1>1 DEF AtWork, AtWorkOf
<1>3. Written \subseteq Written'
  BY <1>1, WrittenGrows DEF TypeOK
<1>4. pkt \in Packets /\ cipher \in Keys
  BY <1>2, ClientAssumption DEF TypeOK
<1>5. AtWorkOf(g)'
  BY <1>1, <1>2, DistinctAssumption DEF AtWorkOf, TypeOK
<1>6. AtWork'
  BY <1>1, <1>3, <1>5, OthersStayAtWork DEF TypeOK
<1>7. \/ verdict' = verdict
      \/ /\ UnpackInPlace(pkt, cipher).err # "nil"
         /\ verdict' = [pkt |-> pkt, failed |-> {cipher}, uid |-> Nil]
  BY DEF Open
<1>8. TypeOK'
  <2>1. Nothing \in Packets
    BY DEF Nothing, Packets
  <2>2. verdict' \in [pkt : Packets, failed : SUBSET Keys, uid : Keys \cup {Nil}]
    BY <1>4, <1>7 DEF TypeOK
  <2> QED BY <1>1, <2>1, <2>2 DEF TypeOK
<1>9. (BilledToSender /\ RefusedForAReason)'
  <2>1. CASE verdict' = verdict
    BY <2>1, SameVerdict
  <2>2. CASE /\ UnpackInPlace(pkt, cipher).err # "nil"
             /\ verdict' = [pkt |-> pkt, failed |-> {cipher}, uid |-> Nil]
    <3>1. pkt.len \in Nat
      BY <1>4 DEF Packets
    <3>2. pkt.text # Damaged => pkt.cipher # cipher
      BY <1>2, <2>2, <3>1, WholeOpensInPlace
    <3> QED BY <2>2, <3>2 DEF BilledToSender, RefusedForAReason
  <2> QED BY <1>7, <2>1, <2>2
<1> QED BY <1>1, <1>3, <1>6, <1>8, <1>9, OtherSliceInv, SameUnderWay

LEMMA ReleasePacketInv ==
    ASSUME PacketInv, NEW g \in User, Release(g)
    PROVE  PacketInv'
<1> USE DEF PacketInv
<1>1. /\ pc[g] # "idle" /\ pc' = [pc EXCEPT ![g] = "done"]
      /\ cipherBuf' = [cipherBuf EXCEPT ![g] = Nil]
      /\ UNCHANGED <<mem, arg, net, received, keyConn, forwarded, answered, verdict>>
  BY DEF Release, serverVars
<1>2. TypeOK'
  BY <1>1 DEF TypeOK, Release, Pool!Release
<1>3. Written \subseteq Written'
  BY <1>1, WrittenGrows DEF TypeOK
<1>4. AtWorkOf(g)'
  BY <1>1 DEF AtWork, AtWorkOf, TypeOK
<1>5. AtWork'
  BY <1>1, <1>3, <1>4, OthersStayAtWork DEF TypeOK
<1> QED BY <1>1, <1>2, <1>3, <1>5, ReleaseSliceInv, SameUnderWay, SameVerdict

\* A step of the server that neither packs an answer nor touches the network.
LEMMA ServePacketInv ==
    ASSUME PacketInv, NEW c \in Addr, NEW snapshot \in Orders,
           NEW pkt \in Arriving("up", c),
           \/ RefusePacket(c, snapshot, pkt)
           \/ DropPacket(c, snapshot, pkt)
           \/ ForwardPacket(c, snapshot, pkt)
    PROVE  PacketInv'
<1> USE DEF PacketInv
<1> DEFINE cipher == OpensWith(c, snapshot, pkt)
           tried == IF keyConn[c] = Nil THEN Keys ELSE {keyConn[c]}
<1>1. UNCHANGED <<pool, slice, cipherBuf, mem, pc, arg, received, net, answered>>
  BY DEF RefusePacket, DropPacket, ForwardPacket, clientVars
<1>2. pkt \in Packets /\ Sound(pkt, clientUDPBufferSize, Written)
  BY ArrivingIsSound
<1>3. keyConn \in [Addr -> Keys \cup {Nil}]
  BY DEF TypeOK
<1>4. /\ cipher \in Keys \cup {Nil}
      /\ cipher # Nil => pkt.cipher = cipher /\ pkt.text # Damaged
      /\ cipher = Nil => (pkt.text # Damaged => pkt.cipher \notin tried)
  BY <1>2, <1>3, VerdictIsRight
<1>5. tried \in SUBSET Keys
  BY <1>3
<1>6. \/ cipher = Nil /\ verdict' = [pkt |-> pkt, failed |-> tried, uid |-> Nil]
      \/ cipher # Nil /\ verdict' = [pkt |-> pkt, failed |-> {}, uid |-> cipher]
  BY DEF RefusePacket, DropPacket, ForwardPacket, AddRepo, KeyID
<1>7. keyConn' = keyConn \/ keyConn' = [keyConn EXCEPT ![c] = cipher]
  BY DEF RefusePacket, DropPacket, ForwardPacket
<1> HIDE DEF cipher, tried
<1>8. TypeOK'
  <2>1. verdict' \in [pkt : Packets, failed : SUBSET Keys, uid : Keys \cup {Nil}]
    BY <1>2, <1>4, <1>5, <1>6
  <2>2. keyConn' \in [Addr -> Keys \cup {Nil}]
    BY <1>3, <1>4, <1>7
  <2> QED BY <1>1, <2>1, <2>2 DEF TypeOK
<1>9. (BilledToSender /\ RefusedForAReason)'
  BY <1>4, <1>6 DEF BilledToSender, RefusedForAReason
<1>10. AtWork' /\ Written' = Written
  BY <1>1, AllStayAtWork
<1> QED BY <1>1, <1>8, <1>9, <1>10, OtherSliceInv, SameUnderWay

LEMMA TimedCopyPacketInv ==
    ASSUME PacketInv, NEW c \in Addr, NEW r \in Answer, timedCopy(c, r)
    PROVE  PacketInv'
<1> USE DEF PacketInv
<1> DEFINE cipher == keyConn[c]
           addrLen == Shape[r].addrLen
           whole == Shape[r].bodyLen <= readBufLen(cipher)
           text == IF whole THEN Text(c, r) ELSE Cut(Text(c, r))
           bodyLen == IF whole THEN Shape[r].bodyLen ELSE readBufLen(cipher)
           dstLen == packBufLen(cipher, addrLen)
           packed == Pack(dstLen, text, addrLen + bodyLen, cipher)
           n == Sent("down", c, cipher, packed)
<1>1. /\ cipher # Nil
      /\ \/ UNCHANGED <<net, answered>>
         \/ /\ packed.err = "nil" /\ packed.len <= MaxDatagram
            /\ net' = net \cup {n}
            /\ answered' = answered \cup {Text(c, r)}
      /\ UNCHANGED <<pool, slice, cipherBuf, mem, pc, arg, received, keyConn,
                     forwarded, verdict>>
  BY DEF timedCopy, PackAnswer, clientVars
<1>2. cipher \in Keys
  BY <1>1 DEF TypeOK
<1>3. SaltSize(cipher) \in 16 .. 32 /\ TagSize(cipher) = 16
  BY <1>2, Sizes, ClientAssumption
<1>4. addrLen \in Nat /\ Shape[r].bodyLen \in Nat
  BY TextLenType
<1>5. readBufLen(cipher) \in Nat /\ dstLen \in Int
  BY <1>3, <1>4 DEF readBufLen, packBufLen, saltStart, addrStart, bodyStart,
                    serverUDPBufferSize, maxAddrLen
<1>6. addrLen + bodyLen \in Nat
  BY <1>4, <1>5
<1>7. packed.err = "nil" => text = Text(c, r)
  <2>1. CASE whole
    BY <2>1
  <2>2. CASE ~ whole
    <3>1. cipher.aead \in supportedAEADs
      BY <1>2, ClientAssumption
    <3>2. packed = Error("ErrShortBuffer")
      BY <1>4, <2>2, <3>1, CutAnswersAreNotPacked
    <3> QED BY <3>2 DEF Error
  <2> QED BY <2>1, <2>2
<1>8. Text(c, r) \in Texts
  BY DEF Text, Texts
<1>9. ASSUME packed.err = "nil", packed.len <= MaxDatagram
      PROVE  /\ n.dir = "down" /\ n.addr = c /\ n.pkt \in Packets
             /\ Sound(n.pkt, MaxDatagram, answered \cup {Text(c, r)})
  <2>1. MaxDatagram \in Int
    BY DEF MaxDatagram
  <2>2. /\ text \in Texts \cup {Damaged}
        /\ text \in (answered \cup {Text(c, r)}) \cup {Damaged}
    BY <1>7, <1>8, <1>9
  <2> HIDE DEF text, dstLen, bodyLen, cipher, addrLen
  <2> QED BY <1>2, <1>5, <1>6, <1>9, <2>1, <2>2, PackedIsSound
<1>10. TypeOK'
  <2>1. n = [dir |-> "down", addr |-> c, pkt |-> n.pkt]
    BY DEF Sent
  <2>2. net' \in SUBSET [dir : {"up", "down"}, addr : Addr, pkt : Packets]
    <3> HIDE DEF n, packed
    <3> QED BY <1>1, <1>9, <2>1 DEF TypeOK
  <2>3. answered' \subseteq Answers
    <3>1. Text(c, r) \in Answers
      BY DEF Answers
    <3> HIDE DEF n, packed
    <3> QED BY <1>1, <3>1 DEF TypeOK
  <2> HIDE DEF n, packed
  <2> QED BY <1>1, <2>2, <2>3 DEF TypeOK
<1>11. AtWork' /\ Written' = Written /\ answered \subseteq answered'
  <2>1. answered \subseteq answered'
    <3> HIDE DEF n, packed
    <3> QED BY <1>1
  <2> QED BY <1>1, <2>1, AllStayAtWork
<1>12. UnderWay'
  <2> HIDE DEF n, packed
  <2>1. CASE UNCHANGED <<net, answered>>
    BY <1>11, <2>1, SameUnderWay
  <2>2. CASE /\ packed.err = "nil" /\ packed.len <= MaxDatagram
             /\ net' = net \cup {n}
             /\ answered' = answered \cup {Text(c, r)}
    BY <1>9, <1>11, <2>2, SoundGrows DEF UnderWay
  <2> QED BY <1>1, <2>1, <2>2
<1> QED BY <1>1, <1>10, <1>11, <1>12, OtherSliceInv, SameVerdict

LEMMA NextPacketInv == PacketInv /\ [Next]_vars => PacketInv'
<1> SUFFICES ASSUME PacketInv, [Next]_vars PROVE PacketInv' OBVIOUS
<1>1. ASSUME NEW g \in User, Client(g) PROVE PacketInv'
  BY <1>1, AcquirePacketInv, SealPacketInv, WritePacketInv, ReadPacketInv,
     OpenPacketInv, ReleasePacketInv DEF Client
<1>2. ASSUME NEW c \in Addr, Server(c) PROVE PacketInv'
  <2>1. CASE ExpireEntry(c)
    <3>1. /\ keyConn' = [keyConn EXCEPT ![c] = Nil]
          /\ UNCHANGED <<pool, slice, cipherBuf, mem, pc, arg, received, net,
                         forwarded, answered, verdict>>
      BY <2>1 DEF ExpireEntry, clientVars
    <3>2. TypeOK'
      BY <3>1 DEF PacketInv, TypeOK
    <3> QED BY <3>1, <3>2, AllStayAtWork, OtherSliceInv, SameUnderWay, SameVerdict
            DEF PacketInv
  <2>2. ASSUME NEW r \in Answer, timedCopyPanics(c, r) PROVE PacketInv'
    <3>1. /\ keyConn' = [a \in Addr |-> Nil]
          /\ UNCHANGED <<pool, slice, cipherBuf, mem, pc, arg, received, net,
                         forwarded, answered, verdict>>
      BY <2>2 DEF timedCopyPanics, clientVars
    <3>2. TypeOK'
      BY <3>1 DEF PacketInv, TypeOK
    <3> QED BY <3>1, <3>2, AllStayAtWork, OtherSliceInv, SameUnderWay, SameVerdict
            DEF PacketInv
  <2> QED BY <1>2, <2>1, <2>2, ServePacketInv, TimedCopyPacketInv DEF Server
<1>3. CASE Collect \/ UNCHANGED vars
  <2>1. /\ pool' \subseteq pool
        /\ UNCHANGED <<slice, cipherBuf, mem, pc, arg, net, keyConn, forwarded,
                       answered, received, verdict>>
    BY <1>3 DEF Collect, Pool!Collect, serverVars, vars
  <2>2. TypeOK'
    BY <2>1 DEF PacketInv, TypeOK
  <2> QED BY <2>1, <2>2, AllStayAtWork, OtherSliceInv, SameUnderWay, SameVerdict
          DEF PacketInv
<1> QED BY <1>1, <1>2, <1>3 DEF Next

\* Slices, packets and verdicts keep PacketInv, whatever the network does.
THEOREM Invariant == Spec => []PacketInv
BY InitPacketInv, NextPacketInv, PTL DEF Spec

\* The type invariant of clients, network and server.
THEOREM TypeCorrect == Spec => []TypeOK
<1>1. PacketInv => TypeOK
  BY DEF PacketInv
<1> QED BY <1>1, Invariant, PTL

\* For any number of clients, keys and messages: a packet is billed to the user
\* whose key sealed it, whatever entry its address has in the NAT map.
THEOREM SenderPays == Spec => []BilledToSender
<1>1. PacketInv => BilledToSender
  BY DEF PacketInv
<1> QED BY <1>1, Invariant, PTL

\* For any order of the keys in the list: an undamaged packet is refused only if
\* none of the keys that are tried on it sealed it.
THEOREM NoneRefusedWithoutReason == Spec => []RefusedForAReason
<1>1. PacketInv => RefusedForAReason
  BY DEF PacketInv
<1> QED BY <1>1, Invariant, PTL

-----------------------------------------------------------------------------
(* The relay implements DatagramService in both directions.                *)

LEMMA InitRefines == Init => Up!Init /\ Down!Init
BY DEF Init, Up!Init, Down!Init

LEMMA NextRefinesUp ==
    ASSUME PacketInv, [Next]_vars
    PROVE  [Up!Send \/ Up!Deliver]_<<Written, forwarded>>
<1> USE DEF PacketInv
<1>1. ASSUME NEW g \in User, NEW b \in Slice,
             NEW a \in IF g \in Writer THEN Message ELSE AppBuf, Acquire(g, a, b)
      PROVE  Up!Send \/ UNCHANGED <<Written, forwarded>>
  <2>1. /\ pc[g] = "idle" /\ pc' = [pc EXCEPT ![g] = "acquired"]
        /\ arg' = [arg EXCEPT ![g] = a] /\ forwarded' = forwarded
    BY <1>1 DEF Acquire, serverVars
  <2>2. CASE g \in Writer
    <3>1. Written' = Written \cup {Text(AddrOf[g], a)}
      BY <2>1, <2>2 DEF Written, Text, TypeOK
    <3>2. a \in Message /\ AddrOf[g] \in Addr
      BY <2>2, ClientAssumption
    <3> QED BY <2>1, <3>1, <3>2 DEF Up!Send, Written
  <2>3. CASE g \notin Writer
    BY <2>1, <2>3 DEF Written, TypeOK
  <2> QED BY <2>2, <2>3
<1>2. ASSUME NEW g \in User,
             \/ SealPacket(g) \/ Write(g) \/ Open(g) \/ Release(g)
             \/ \E pkt \in Arriving("down", AddrOf[g]) : Read(g, pkt)
      PROVE  UNCHANGED <<Written, forwarded>>
  <2>1. PICK s : pc[g] # "idle" /\ s # "idle" /\ pc' = [pc EXCEPT ![g] = s]
                 /\ arg' = arg /\ forwarded' = forwarded
    BY <1>2 DEF SealPacket, Seal, Write, Open, Release, Read, serverVars
  <2> QED BY <2>1 DEF Written, TypeOK
<1>3. ASSUME NEW c \in Addr, NEW snapshot \in Orders, NEW pkt \in Arriving("up", c),
             ForwardPacket(c, snapshot, pkt)
      PROVE  Up!Deliver \/ UNCHANGED <<Written, forwarded>>
  <2>1. /\ OpensWith(c, snapshot, pkt) # Nil /\ Shape[pkt.text.id].target = "public"
        /\ forwarded' = forwarded \/ forwarded' = forwarded \cup {pkt.text}
        /\ Written' = Written
    BY <1>3 DEF ForwardPacket, validatePacket, Written, clientVars
  <2>2. pkt.text \in Written
    <3>1. pkt \in Packets /\ Sound(pkt, clientUDPBufferSize, Written)
      BY ArrivingIsSound
    <3>2. keyConn \in [Addr -> Keys \cup {Nil}]
      BY DEF TypeOK
    <3>3. pkt.text # Damaged
      BY <2>1, <3>1, <3>2, VerdictIsRight
    <3> QED BY <3>1, <3>3 DEF Sound
  <2>3. PICK w \in Writer : pc[w] # "idle" /\ pkt.text = Text(AddrOf[w], arg[w])
    BY <2>2 DEF Written
  <2>4. AddrOf[w] \in Addr /\ arg[w] \in Message /\ Shape[arg[w]].target = "public"
    BY <2>1, <2>3, ClientAssumption DEF AtWork, AtWorkOf, Text
  <2> QED BY <2>1, <2>2, <2>3, <2>4 DEF Up!Deliver, Written
<1>4. ASSUME NEW c \in Addr, Server(c),
             \A snapshot \in Orders, pkt \in Arriving("up", c) :
               ~ ForwardPacket(c, snapshot, pkt)
      PROVE  UNCHANGED <<Written, forwarded>>
  BY <1>4 DEF Server, RefusePacket, DropPacket, timedCopy, timedCopyPanics,
              ExpireEntry, clientVars, Written
<1>5. CASE Collect \/ UNCHANGED vars
  BY <1>5 DEF Collect, serverVars, vars, Written
<1> QED BY <1>1, <1>2, <1>3, <1>4, <1>5 DEF Next, Client, Server

LEMMA NextRefinesDown ==
    ASSUME PacketInv, [Next]_vars
    PROVE  [Down!Send \/ Down!Deliver]_<<answered, received>>
<1> USE DEF PacketInv
<1>1. ASSUME NEW g \in User, Open(g)
      PROVE  Down!Deliver \/ UNCHANGED <<answered, received>>
  <2> DEFINE pkt == mem[cipherBuf[g]]
             plain == UnpackInPlace(pkt, CipherOf[g])
  <2>1. /\ pc[g] = "read" /\ answered' = answered
        /\ \/ received' = received
           \/ plain.err = "nil" /\ received' = received \cup {plain.text}
    BY <1>1 DEF Open, Fits, Copied, serverVars
  <2>2. ASSUME plain.err = "nil" PROVE plain.text \in answered
    <3>1. Sound(pkt, clientUDPBufferSize, answered)
      BY <2>1 DEF AtWork, AtWorkOf
    <3>2. plain.text = pkt.text /\ pkt.text # Damaged
      BY <2>2, OpenedIsWhole DEF UnpackInPlace
    <3> QED BY <3>1, <3>2 DEF Sound
  <2>3. answered \subseteq Answers
    BY DEF TypeOK
  <2> HIDE DEF plain
  <2> QED BY <2>1, <2>2, <2>3 DEF Down!Deliver
<1>2. ASSUME NEW c \in Addr, NEW r \in Answer, timedCopy(c, r)
      PROVE  Down!Send \/ UNCHANGED <<answered, received>>
  BY <1>2 DEF timedCopy, Down!Send, Answers, clientVars
<1>3. ASSUME NEW g \in User, Client(g), ~ Open(g)
      PROVE  UNCHANGED <<answered, received>>
  BY <1>3 DEF Client, Acquire, SealPacket, Seal, Write, Read, Release, serverVars
<1>4. ASSUME NEW c \in Addr, Server(c), \A r \in Answer : ~ timedCopy(c, r)
      PROVE  UNCHANGED <<answered, received>>
  BY <1>4 DEF Server, RefusePacket, DropPacket, ForwardPacket, timedCopyPanics,
              ExpireEntry, clientVars
<1>5. CASE Collect \/ UNCHANGED vars
  BY <1>5 DEF Collect, serverVars, vars
<1> QED BY <1>1, <1>2, <1>3, <1>4, <1>5 DEF Next

\* The refinement, step by step and for any number of clients, goroutines and
\* messages: what reaches a target or an application was sent to it, whole.
THEOREM RelaysDatagrams == Spec => RefinesDatagrams
<1>1. PacketInv /\ [Next]_vars =>
        [Up!Send \/ Up!Deliver]_<<Written, forwarded>>
  BY NextRefinesUp
<1>2. PacketInv /\ [Next]_vars =>
        [Down!Send \/ Down!Deliver]_<<answered, received>>
  BY NextRefinesDown
<1> QED BY <1>1, <1>2, InitRefines, Invariant, PTL
        DEF Spec, RefinesDatagrams, Up!Spec, Down!Spec, Written

=============================================================================
