---------------------------- MODULE StreamWriter ----------------------------
(***************************************************************************)
(* shadowsocks/stream.go, Writer: plaintext is gathered in a buffer,       *)
(* encrypted in place and written out, each chunk as a size block and a    *)
(* payload block.  One goroutine calls LazyWrite, Write and ReadFrom;      *)
(* another (the timer of client/stream_dialer.go) may call Flush at any    *)
(* time, also while the first is reading from its source.                  *)
(*                                                                         *)
(* The bytes callers hand over are numbered 1, 2, 3, ...  buf is the       *)
(* payload part of sw.buf: encryption overwrites the plaintext and the     *)
(* Overhead cells after it.  Blocks on the wire carry the nonce they were  *)
(* encrypted with; an error of the inner writer is permanent.              *)
(***************************************************************************)
EXTENDS Integers, Sequences

CONSTANTS
    Mask,        \* payloadSizeMask, the largest payload
    Overhead,    \* the size of an AEAD tag
    Junk,        \* a cell that does not hold plaintext
    MaxBytes     \* bound on the bytes callers hand over

ASSUME SizesAssumption == Mask \in Nat \ {0} /\ Overhead \in Nat \ {0}
ASSUME MaxBytesAssumption == MaxBytes \in Nat
ASSUME JunkAssumption == Junk \notin Nat

VARIABLES
    buf,         \* payload area of sw.buf
    pending,     \* sw.pending
    needFlush,   \* sw.needFlush
    counter,     \* sw.counter, the next nonce
    wire,        \* blocks written to the inner writer
    broken,      \* whether the inner writer has failed
    locked,      \* whether the goroutine holds sw.mu between two steps
    wpc,         \* where the goroutine is
    rest,        \* LazyWrite: bytes of p still to queue
    from,        \* ReadFrom: where readBuf starts
    read,        \* ReadFrom: plaintextSize
    err,         \* ReadFrom: what the source returned last
    given        \* number of bytes taken from the callers

bufVars == <<buf, pending, counter, wire, broken>>
callVars == <<locked, wpc, rest, from, read, err>>
writerVars == <<buf, pending, needFlush, counter, wire, broken, locked, wpc,
                rest, from, read, err, given>>

Cells == 1 .. Mask + Overhead

\* The n bytes after the first given ones.
Bytes(n) == [i \in 1 .. n |-> given + i]

\* buf with the sequence s copied to the cells after the first k.
Put(b, k, s) ==
    [i \in Cells |-> IF i > k /\ i <= k + Len(s) THEN s[i - k] ELSE b[i]]

Least(m, n) == IF m < n THEN m ELSE n

-----------------------------------------------------------------------------

WriterInit ==
    /\ buf = [i \in Cells |-> Junk]
    /\ pending = 0
    /\ needFlush = FALSE
    /\ counter = 0
    /\ wire = <<>>
    /\ broken = FALSE
    /\ locked = FALSE
    /\ wpc = "idle"
    /\ rest = <<>>
    /\ from = 0 /\ read = 0 /\ err = "none"
    /\ given = 0

\* Mutant of payloadNonce: both blocks are sealed with one nonce.
payloadNonceSame == counter

\* encryptBlock increments the counter, first for the size, then for the payload.
payloadNonce == counter + 1

\* Mutant of saltBlock: the salt is left out, as if it had been sent before.
saltBlockMissing == <<>>

saltBlock ==
    IF counter = 0 THEN <<[kind |-> "salt", nonce |-> 0, val |-> <<>>]>> ELSE <<>>

\* What flush writes for n pending bytes: for the first message the salt too.
Chunk(b, n) ==
    saltBlock
    \o << [kind |-> "size", nonce |-> counter, val |-> n],
          [kind |-> "payload", nonce |-> payloadNonce, val |-> SubSeq(b, 1, n)] >>

\* flush of the buffer b with n bytes pending, and whether it succeeds.  Of a
\* write that fails, a part may have been sent.
flush(b, n, ok) ==
    /\ pending' = 0
    /\ IF n = 0
         THEN ok /\ buf' = b /\ UNCHANGED <<counter, wire, broken>>
         ELSE /\ ok => ~broken
              /\ broken' = ~ok
              /\ counter' = counter + 2
              /\ buf' = [i \in Cells |-> IF i <= n + Overhead THEN Junk ELSE b[i]]
              /\ wire' = IF broken THEN wire ELSE wire \o Chunk(b, n)

-----------------------------------------------------------------------------
(* LazyWrite.                                                              *)

\* LazyWrite takes the lock.
LazyWrite(n) ==
    /\ wpc = "idle"
    /\ given + n <= MaxBytes
    /\ rest' = Bytes(n)
    /\ given' = given + n
    /\ wpc' = "lazy"
    /\ locked' = TRUE
    /\ UNCHANGED <<bufVars, needFlush, from, read, err>>

\* enqueue as much as fits.  If that is all, a Flush is needed.
Queue ==
    LET n == Least(Mask - pending, Len(rest))
    IN  /\ wpc = "lazy"
        /\ buf' = Put(buf, pending, SubSeq(rest, 1, n))
        /\ pending' = pending + n
        /\ rest' = SubSeq(rest, n + 1, Len(rest))
        /\ IF rest' = <<>>
             THEN needFlush' = TRUE /\ wpc' = "idle" /\ locked' = FALSE
             ELSE wpc' = "full" /\ UNCHANGED <<needFlush, locked>>
        /\ UNCHANGED <<counter, wire, broken, from, read, err, given>>

\* "p didn't fit in the buffer.  Flush the buffer and try again."
FlushFull(ok) ==
    /\ wpc = "full"
    /\ flush(buf, pending, ok)
    /\ IF ok THEN wpc' = "lazy" /\ UNCHANGED <<locked, rest>>
             ELSE wpc' = "idle" /\ locked' = FALSE /\ rest' = <<>>
    /\ UNCHANGED <<needFlush, from, read, err, given>>

-----------------------------------------------------------------------------
(* ReadFrom, and Write, which is ReadFrom of a bytes.Reader.               *)

\* Mutant of readBuf: the room for the tag is forgotten.
readBufTooEarly == pending

\* Where readBuf starts: "the first pending+overhead bytes of payloadBuf are
\* potentially in use".
readBuf == pending + Overhead

\* With a flush outstanding, the first read goes behind what it may touch.
ReadFrom ==
    /\ wpc = "idle"
    /\ IF needFlush THEN wpc' = "first" /\ from' = readBuf
                    ELSE wpc' = "loop" /\ UNCHANGED from
    /\ UNCHANGED <<bufVars, needFlush, locked, rest, read, err, given>>

\* r.Read(readBuf) without the lock.
ReadFirst(n, e) ==
    /\ wpc = "first"
    /\ from + n <= Mask + Overhead /\ given + n <= MaxBytes
    /\ buf' = Put(buf, from, Bytes(n))
    /\ read' = n /\ err' = e
    /\ given' = given + n
    /\ wpc' = "second"
    /\ UNCHANGED <<pending, counter, wire, broken, needFlush, locked, rest, from>>

\* Under the lock: enqueue what was read, behind what is still pending, and
\* flush all of it; from here on Flush does nothing.
FlushFirst(ok) ==
    LET n == Least(Mask - pending, read)
        b == Put(buf, pending, SubSeq(buf, from + 1, from + n))
    IN  /\ wpc = "second"
        /\ flush(b, pending + n, ok)
        /\ needFlush' = FALSE
        /\ wpc' = IF ok /\ err = "none" THEN "loop" ELSE "idle"
        /\ from' = 0 /\ read' = 0 /\ err' = "none"
        /\ UNCHANGED <<locked, rest, given>>

\* The main loop: read into the buffer, flush, until there is an error.
ReadLoop(n, e) ==
    /\ wpc = "loop"
    /\ n <= Mask /\ given + n <= MaxBytes
    /\ buf' = Put(buf, 0, Bytes(n))
    /\ pending' = n /\ err' = e
    /\ given' = given + n
    /\ wpc' = "write"
    /\ UNCHANGED <<counter, wire, broken, needFlush, locked, rest, from, read>>

FlushLoop(ok) ==
    /\ wpc = "write"
    /\ flush(buf, pending, ok)
    /\ wpc' = IF ok /\ err = "none" THEN "loop" ELSE "idle"
    /\ err' = "none"
    /\ UNCHANGED <<needFlush, locked, rest, from, read, given>>

-----------------------------------------------------------------------------

\* Mutant of Flush: the flag is cleared and nobody flushes.
FlushClears(ok) ==
    /\ ~locked /\ needFlush /\ pending > 0 /\ ok
    /\ needFlush' = FALSE
    /\ UNCHANGED <<bufVars, callVars, given>>

\* Flush, from the timer.
Flush(ok) ==
    /\ ~locked /\ needFlush /\ pending > 0
    /\ flush(buf, pending, ok)
    /\ UNCHANGED <<callVars, needFlush, given>>

WriterNext ==
    \/ \E n \in 0 .. MaxBytes : LazyWrite(n)
    \/ Queue
    \/ ReadFrom
    \/ \E n \in 0 .. Mask, e \in {"none", "eof"} : ReadFirst(n, e) \/ ReadLoop(n, e)
    \/ \E ok \in BOOLEAN : FlushFull(ok) \/ FlushFirst(ok) \/ FlushLoop(ok) \/ Flush(ok)

=============================================================================
