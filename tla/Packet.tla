------------------------------- MODULE Packet -------------------------------
(***************************************************************************)
(* shadowsocks/packet.go: Pack and Unpack, and the buffers in which the    *)
(* server (service/udp.go) and the client (client/packet_listener.go) put  *)
(* a packet together in place.                                             *)
(*                                                                         *)
(* A packet is its length, the cipher it is sealed with and the text in    *)
(* it.  The text of a sealed packet cut short or damaged is Damaged,       *)
(* which no cipher opens.                                                  *)
(***************************************************************************)
EXTENDS Cipher

CONSTANT Damaged

serverUDPBufferSize == 64 * 1024
clientUDPBufferSize == 16 * 1024
maxAddrLen == 1 + 16 + 2         \* the SOCKS address of an IPv6 host; a name
                                 \* may be longer
MaxDatagram == 65535 - 20 - 8    \* the largest payload of a UDP packet

Error(err) == [err |-> err, text |-> Damaged, len |-> 0]

PackedLen(cipher, textLen) == SaltSize(cipher) + textLen + TagSize(cipher)

\* Pack of textLen bytes into a buffer of dstLen bytes.
Pack(dstLen, text, textLen, cipher) ==
    IF dstLen < SaltSize(cipher) \/ dstLen < PackedLen(cipher, textLen)
      THEN Error("ErrShortBuffer")
      ELSE [err |-> "nil", text |-> text, len |-> PackedLen(cipher, textLen)]

\* DecryptOnce of msgLen bytes into a buffer of that capacity.
DecryptOnce(cipher, capacity, pkt, msgLen) ==
    IF msgLen < TagSize(cipher) THEN Error("ErrUnexpectedEOF")
    ELSE IF capacity < msgLen - TagSize(cipher) THEN Error("ErrShortBuffer")
    ELSE IF pkt.cipher # cipher \/ pkt.text = Damaged THEN Error("ErrOpen")
    ELSE [err |-> "nil", text |-> pkt.text, len |-> msgLen - TagSize(cipher)]

\* Unpack into a buffer of that capacity.
Unpack(capacity, pkt, cipher) ==
    IF pkt.len < SaltSize(cipher) THEN Error("ErrShortPacket")
    ELSE DecryptOnce(cipher, capacity, pkt, pkt.len - SaltSize(cipher))

\* Unpack(nil, ...): in place, behind the salt.
UnpackInPlace(pkt, cipher) == Unpack(pkt.len - SaltSize(cipher), pkt, cipher)

\* A datagram read into a buffer of that size: what does not fit is lost.
ReadInto(size, pkt) ==
    IF pkt.len <= size THEN pkt ELSE [pkt EXCEPT !.len = size, !.text = Damaged]

-----------------------------------------------------------------------------
(* The buffer of timedCopy: [padding?][salt][address][body][tag][extra].   *)

bodyStart(cipher) == SaltSize(cipher) + maxAddrLen
addrStart(cipher, addrLen) == bodyStart(cipher) - addrLen
saltStart(cipher, addrLen) == addrStart(cipher, addrLen) - SaltSize(cipher)
readBufLen(cipher) == serverUDPBufferSize - bodyStart(cipher)
packBufLen(cipher, addrLen) == serverUDPBufferSize - saltStart(cipher, addrLen)

=============================================================================
