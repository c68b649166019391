--------------------------- MODULE MCPacketRelay ---------------------------
(***************************************************************************)
(* Connections of two users, with keys of different salt sizes, at one     *)
(* client address.  The messages just fit, do not fit, or go to a private  *)
(* address; the answers just fit the client's slices, exceed them by one,  *)
(* fill the server's buffer, or come from a link-local address with the    *)
(* name of its zone.                                                       *)
(***************************************************************************)
EXTENDS PacketRelay, TLC

CONSTANTS p1, w1, w2, r1, fitting, long, private, answer, largeAnswer,
          hugeAnswer, zoned

MCLong == NewCipher("chacha20-ietf-poly1305", "secret 1")
MCShort == NewCipher("aes-128-gcm", "secret 2")
MCKeys == {MCLong, MCShort}
MCAddrOf == w1 :> p1 @@ w2 :> p1 @@ r1 :> p1
MCCipherOf == w1 :> MCLong @@ w2 :> MCShort @@ r1 :> MCLong

\* The longest body that PackedLen lets into a client slice.
Room(cipher, addrLen) ==
    clientUDPBufferSize - SaltSize(cipher) - addrLen - TagSize(cipher)

With(addrLen, bodyLen, target) ==
    [addrLen |-> addrLen, bodyLen |-> bodyLen, target |-> target]

MCShape ==
    fitting :> With(7, Room(MCLong, 7), "public") @@
    private :> With(19, 100, "not public") @@
    long :> With(19, Room(MCShort, 19) + 1, "public") @@
    answer :> With(7, Room(MCLong, 7), "public") @@
    largeAnswer :> With(19, Room(MCShort, 19) + 1, "public") @@
    hugeAnswer :> With(7, MaxDatagram, "public") @@
    zoned :> With(1 + 1 + 30 + 2, 100, "public")

MCAppBuf == {Room(MCLong, 7) - 1, Room(MCLong, 7)}

Symmetry == Permutations(Slice)

=============================================================================
