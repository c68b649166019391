---------------------------- MODULE StreamReader ----------------------------
(***************************************************************************)
(* shadowsocks/stream.go, chunkReader and readConverter: the reader of a   *)
(* Shadowsocks stream.  It reads the salt, then for each chunk a size      *)
(* block and a payload block, decrypts them with consecutive nonces, and   *)
(* hands the payload out in pieces of the caller's choice.  The payload    *)
(* lives in a slice borrowed from a pool (internal/slicepool).             *)
(*                                                                         *)
(* The network delivers the blocks of wire in order and may end the stream *)
(* between two blocks (eof) or within one (cut), fail, or damage a block.  *)
(***************************************************************************)
EXTENDS Integers, Sequences

VARIABLES
    wire,        \* the blocks sent, each with kind, nonce and val
    arrived,     \* how many of them have arrived
    ending,      \* how the stream ends after those
    rpc,         \* where ReadChunk is
    consumed,    \* blocks read so far
    aead,        \* whether init has read the salt
    nonce,       \* cr.counter
    acquired,    \* whether cr.payload holds a slice of the pool
    leftover,    \* readConverter.leftover
    out,         \* the bytes handed to the caller
    result       \* the error ReadChunk returned

netVars == <<wire, arrived, ending>>
readerVars == <<rpc, consumed, aead, nonce, acquired, leftover, out, result>>

ReaderInit ==
    /\ arrived = 0
    /\ ending = "open"
    /\ rpc = "idle"
    /\ consumed = 0
    /\ aead = FALSE
    /\ nonce = 0
    /\ acquired = FALSE
    /\ leftover = <<>>
    /\ out = <<>>
    /\ result = "none"

-----------------------------------------------------------------------------
(* The network.                                                            *)

Deliver ==
    /\ ending = "open" /\ arrived < Len(wire)
    /\ arrived' = arrived + 1
    /\ UNCHANGED <<wire, ending, readerVars>>

\* Only a block that was sent can be cut or damaged.  (A damaged salt shows as a
\* size block that does not decrypt.)
EndStream(how) ==
    /\ ending = "open"
    /\ how \in {"cut", "damaged"} => arrived < Len(wire)
    /\ how = "damaged" => arrived > 0
    /\ ending' = how
    /\ UNCHANGED <<wire, arrived, readerVars>>

-----------------------------------------------------------------------------
(* ReadChunk.                                                              *)

Available == consumed < arrived
Block == wire[consumed + 1]

\* ensureLeftover calls ReadChunk: init if need be, then release the slice of
\* the chunk before.
ensureLeftover ==
    /\ rpc = "idle" /\ leftover = <<>>
    /\ IF aead THEN rpc' = "size" /\ acquired' = FALSE
               ELSE rpc' = "salt" /\ UNCHANGED acquired
    /\ UNCHANGED <<netVars, consumed, aead, nonce, leftover, out, result>>

ReadSalt ==
    /\ rpc = "salt" /\ Available /\ Block.kind = "salt"
    /\ consumed' = consumed + 1
    /\ aead' = TRUE /\ nonce' = 0
    /\ rpc' = "size"
    /\ UNCHANGED <<netVars, acquired, leftover, out, result>>

\* Block can be opened as a message of the expected kind.
Opens(kind) == Block.kind = kind /\ Block.nonce = nonce

\* readMessage of the size, then payload.Acquire.
ReadSize ==
    /\ rpc = "size" /\ Available /\ Opens("size")
    /\ consumed' = consumed + 1
    /\ nonce' = nonce + 1
    /\ acquired' = TRUE
    /\ rpc' = "payload"
    /\ UNCHANGED <<netVars, aead, leftover, out, result>>

\* Mutant of StillAcquired: the slice goes back to the pool with the chunk.
StillAcquiredNot == FALSE

\* leftover points into the slice, which stays acquired.
StillAcquired == acquired

\* readMessage of the payload; it is what is left over now.
ReadPayload ==
    /\ rpc = "payload" /\ Available /\ Opens("payload")
    /\ consumed' = consumed + 1
    /\ nonce' = nonce + 1
    /\ leftover' = Block.val
    /\ rpc' = "idle"
    /\ acquired' = StillAcquired
    /\ UNCHANGED <<netVars, aead, out, result>>

\* The block that arrives does not decrypt.
DecryptFails ==
    /\ rpc \in {"size", "payload"}
    /\ IF Available THEN ~Opens(rpc) ELSE ending = "damaged"

\* Mutant of MidChunk: io.EOF is passed on from any read.
MidChunkNever == FALSE

MidChunk == rpc = "payload"

\* What the failing read makes ReadChunk return.  "EOF is not expected
\* mid-chunk."
ReadError ==
    IF DecryptFails THEN "failed to decrypt"
    ELSE CASE ending = "eof" -> IF MidChunk THEN "ErrUnexpectedEOF" ELSE "EOF"
           [] ending = "cut" -> "ErrUnexpectedEOF"
           [] OTHER -> "failed to read"

\* Nothing comes any more, or what came is not what it should be.
ReadFails ==
    /\ rpc \in {"salt", "size", "payload"}
    /\ DecryptFails \/ (~Available /\ ending # "open")
    /\ result' = ReadError
    /\ acquired' = (acquired /\ rpc # "payload")
    /\ rpc' = "ended"
    /\ UNCHANGED <<netVars, consumed, aead, nonce, leftover, out>>

-----------------------------------------------------------------------------

\* Read with room for n bytes, or WriteTo, which takes all there is.
Read(n) ==
    /\ rpc = "idle" /\ leftover # <<>>
    /\ n <= Len(leftover)
    /\ out' = out \o SubSeq(leftover, 1, n)
    /\ leftover' = SubSeq(leftover, n + 1, Len(leftover))
    /\ UNCHANGED <<netVars, rpc, consumed, aead, nonce, acquired, result>>

ReaderStep ==
    ensureLeftover \/ ReadSalt \/ ReadSize \/ ReadPayload \/ ReadFails

=============================================================================
