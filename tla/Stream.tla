------------------------------- MODULE Stream -------------------------------
(***************************************************************************)
(* A Writer and the reader at the other end of its connection: what one    *)
(* side of the proxy's encrypted leg sends and the other receives.         *)
(***************************************************************************)
EXTENDS StreamWriter

VARIABLES arrived, ending, rpc, consumed, aead, nonce, acquired, leftover, out,
          result

otherEnd == <<arrived, ending, rpc, consumed, aead, nonce, acquired, leftover,
              out, result>>
vars == <<writerVars, otherEnd>>

Reader == INSTANCE StreamReader

Init == WriterInit /\ Reader!ReaderInit

ReaderNext ==
    \/ Reader!Deliver
    \/ \E how \in {"eof", "cut", "error", "damaged"} : Reader!EndStream(how)
    \/ Reader!ReaderStep
    \/ \E n \in 1 .. Mask : Reader!Read(n)

Next ==
    \/ WriterNext /\ UNCHANGED otherEnd
    \/ ReaderNext /\ UNCHANGED writerVars

Spec == Init /\ [][Next]_vars

\* After each LazyWrite the timer fires, and gets the lock in the end (a sync.Mutex
\* starves nobody; the dialer makes one LazyWrite and starts one timer),
\* the goroutine does not rest with the lock, and the reader's caller keeps
\* reading.  Sources and the network owe nothing.
Fairness ==
    /\ SF_vars((\E ok \in BOOLEAN : Flush(ok)) /\ UNCHANGED otherEnd)
    /\ WF_vars((Queue \/ \E ok \in BOOLEAN : FlushFull(ok)) /\ UNCHANGED otherEnd)
    /\ WF_vars((Reader!ReaderStep \/ \E n \in 1 .. Mask : Reader!Read(n))
               /\ UNCHANGED writerVars)

FairSpec == Spec /\ Fairness

-----------------------------------------------------------------------------

Byte == 1 .. MaxBytes
BlockType ==
    [kind : {"salt"}, nonce : {0}, val : {<<>>}] \cup
    [kind : {"size"}, nonce : Nat, val : 1 .. Mask] \cup
    [kind : {"payload"}, nonce : Nat, val : Seq(Byte)]

TypeOK ==
    /\ buf \in [Cells -> Byte \cup {Junk}]
    /\ pending \in 0 .. Mask
    /\ counter \in Nat /\ nonce \in Nat
    /\ wire \in Seq(BlockType)
    /\ {needFlush, broken, locked, aead, acquired} \subseteq BOOLEAN
    /\ wpc \in {"idle", "lazy", "full", "first", "second", "loop", "write"}
    /\ rpc \in {"idle", "salt", "size", "payload", "ended"}
    /\ arrived \in 0 .. Len(wire) /\ consumed \in 0 .. arrived
    /\ rest \in Seq(Byte) /\ leftover \in Seq(Byte) /\ out \in Seq(Byte)
    /\ from \in 0 .. Mask + Overhead /\ read \in 0 .. Mask
    /\ given \in 0 .. MaxBytes

\* The plaintext of the first n blocks.
Plain[n \in Nat] ==
    IF n = 0 THEN <<>>
    ELSE Plain[n - 1] \o (IF wire[n].kind = "payload" THEN wire[n].val ELSE <<>>)

\* Plaintext that has left the caller and not the Writer.
Held ==
    SubSeq(buf, 1, pending) \o rest \o
    (IF wpc = "second" THEN SubSeq(buf, from + 1, from + read) ELSE <<>>)

\* Whatever the timer's Flush does between the steps of LazyWrite and ReadFrom,
\* no byte is lost, repeated, reordered or overwritten in the shared buffer:
\* what is on the wire and what is held make up what the callers gave.
NothingLost ==
    ~broken => Plain[Len(wire)] \o Held = [i \in 1 .. given |-> i]

\* A nonce seals one message only, and the salt is sent once, before the first
\* chunk: the encryption of the whole stream rests on it.
NonceOnce ==
    \A i \in DOMAIN wire :
      wire[i].kind = (IF i = 1 THEN "salt" ELSE IF i % 2 = 0 THEN "size" ELSE "payload") /\
      (i > 1 => wire[i].nonce = i - 2)

\* The reader hands out what the writers gave, in order, and reports a message
\* that does not decrypt only if the network has damaged it.
ReadsWhatWasWritten ==
    /\ out \o leftover = SubSeq(Plain[Len(wire)], 1, Len(out \o leftover))
    /\ result = "failed to decrypt" => ending = "damaged"

\* io.EOF, which WriteTo takes for the regular end of the stream, is never the
\* answer to a stream that ends within a chunk.
CleanEof ==
    result = "EOF" => ending = "eof" /\ (consumed = 0 \/ consumed % 2 = 1)

\* As long as a part of a payload has still to be handed out, its slice is not
\* given back to the pool; when a new chunk acquires one, none is held
\* (Acquire panics otherwise).
BufferHeld ==
    /\ leftover # <<>> => acquired
    /\ rpc = "size" => ~acquired

\* What a call of LazyWrite has left in the buffer is sent without a further
\* write: it has told Flush that there is something to do.
LazyWritesAreSent ==
    wpc = "idle" /\ pending > 0 ~> pending = 0

=============================================================================
