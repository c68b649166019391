------------------------------- MODULE Cipher -------------------------------
(***************************************************************************)
(* shadowsocks/cipher.go: the supported ciphers with the sizes that the    *)
(* layout of streams and packets depends on.  A Cipher is a specification  *)
(* and a secret; what is sealed with one opens with it and no other.       *)
(***************************************************************************)
EXTENDS Integers

Overhead == 16     \* AEAD.Overhead, the same for ChaCha20-Poly1305 and GCM

newAEADSpec(name, keySize, saltSize) ==
    [name |-> name, keySize |-> keySize, saltSize |-> saltSize, tagSize |-> Overhead]

supportedAEADs ==
    { newAEADSpec("chacha20-ietf-poly1305", 32, 32),
      newAEADSpec("aes-256-gcm", 32, 32),
      newAEADSpec("aes-192-gcm", 24, 24),
      newAEADSpec("aes-128-gcm", 16, 16) }

\* The specifications of that name: one, or none for an unknown cipher.
getAEADSpec(name) == {spec \in supportedAEADs : spec.name = name}

NewCipher(name, secret) ==
    [aead |-> CHOOSE spec \in getAEADSpec(name) : TRUE, secret |-> secret]

SaltSize(cipher) == cipher.aead.saltSize
TagSize(cipher) == cipher.aead.tagSize

\* service/tcp.go: the bytes findAccessKey reads before it can try any key.
bytesForKeyFinding == 50

=============================================================================
