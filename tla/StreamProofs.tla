---------------------------- MODULE StreamProofs ----------------------------
(***************************************************************************)
(* For every buffer and tag size and every length of the stream: whatever  *)
(* the timer's Flush interrupts, every byte the Writer was given is on the *)
(* wire or still held, once and in order, no nonce is used twice, and what *)
(* the reader at the other end hands out is a beginning of what was given. *)
(***************************************************************************)
EXTENDS Stream, SequenceTheorems, WellFoundedInduction, TLAPS

-----------------------------------------------------------------------------
(* The plaintext of a stream.  Plain is a recursive function of the number *)
(* of blocks.  That such a function exists, and is the only one, is shown  *)
(* with least counterexamples.                                             *)

\* What the n-th block of the stream w adds to the plaintext.
PayloadOf(w, n) == IF w[n].kind = "payload" THEN w[n].val ELSE <<>>

\* Plain, of any stream w.
PlainOf(w) ==
    CHOOSE F : F = [n \in Nat |-> IF n = 0 THEN <<>> ELSE F[n - 1] \o PayloadOf(w, n)]

LEMMA PlainIsPlainOf == Plain = PlainOf(wire) /\ Plain' = PlainOf(wire')
BY DEF Plain, PlainOf, PayloadOf

\* A set of numbers that is not empty has a least one.
LEMMA Minimum ==
    ASSUME NEW S \in SUBSET Nat, S # {}
    PROVE  \E i \in S : \A j \in S : i <= j
<1>1. PICK i \in S : \A j \in S : ~ (<<j, i>> \in OpToRel(<, Nat))
  BY NatLessThanWellFounded, WFMin
<1>2. \A j \in S : ~ (j < i)
  BY <1>1 DEF OpToRel
<1> QED BY <1>2

\* f is the function up to m.
Approx(f, w, m) ==
    /\ f[0] = <<>>
    /\ \A n \in 1 .. m : f[n] = f[n - 1] \o PayloadOf(w, n)

\* There is such a function for every m ...
LEMMA ApproxExists == ASSUME NEW w PROVE \A m \in Nat : \E f : Approx(f, w, m)
<1> SUFFICES ASSUME NEW m0 \in Nat, ~ \E f : Approx(f, w, m0) PROVE FALSE OBVIOUS
<1> DEFINE S == {m \in Nat : ~ \E f : Approx(f, w, m)}
<1>1. PICK m \in S : \A j \in S : m <= j
  <2> HIDE DEF S
  <2>1. S \in SUBSET Nat /\ S # {}
    BY DEF S
  <2> QED BY <2>1, Minimum
<1>2. CASE m = 0
  <2>1. Approx([n \in {0} |-> <<>>], w, 0)
    BY DEF Approx
  <2> QED BY <1>1, <1>2, <2>1
<1>3. CASE m # 0
  <2>1. m - 1 \in Nat /\ m - 1 \notin S
    BY <1>1, <1>3
  <2>2. PICK f : Approx(f, w, m - 1)
    BY <2>1
  <2> DEFINE g == [n \in 0 .. m |-> IF n = m THEN f[m - 1] \o PayloadOf(w, m) ELSE f[n]]
  <2>3. Approx(g, w, m)
    <3> m \in Nat
      BY <1>1
    <3>1. \A n \in 0 .. m : g[n] = IF n = m THEN f[m - 1] \o PayloadOf(w, m) ELSE f[n]
      OBVIOUS
    <3> HIDE DEF g
    <3>2. g[0] = <<>>
      BY <1>3, <2>2, <3>1 DEF Approx
    <3>3. g[m] = g[m - 1] \o PayloadOf(w, m)
      <4>1. m \in 0 .. m /\ m - 1 \in 0 .. m /\ m - 1 # m
        BY <1>3
      <4> QED BY <3>1, <4>1
    <3>4. ASSUME NEW n \in 1 .. m, n # m PROVE g[n] = g[n - 1] \o PayloadOf(w, n)
      <4>1. /\ n \in 0 .. m /\ n - 1 \in 0 .. m
            /\ n # m /\ n - 1 # m /\ n \in 1 .. (m - 1)
        BY <3>4
      <4>2. f[n] = f[n - 1] \o PayloadOf(w, n)
        BY <2>2, <4>1 DEF Approx
      <4> QED BY <3>1, <4>1, <4>2
    <3> QED BY <3>2, <3>3, <3>4 DEF Approx
  <2> QED BY <1>1, <2>3
<1> QED BY <1>2, <1>3

\* ... and two of them agree as far as both go.
LEMMA ApproxUnique ==
    ASSUME NEW w, NEW f, NEW g, NEW k \in Nat, NEW m \in Nat,
           Approx(f, w, k), Approx(g, w, m), NEW n0 \in Nat, n0 <= k, n0 <= m
    PROVE  f[n0] = g[n0]
<1> SUFFICES ASSUME f[n0] # g[n0] PROVE FALSE OBVIOUS
<1> DEFINE S == {n \in Nat : n <= k /\ n <= m /\ f[n] # g[n]}
<1>1. PICK n \in S : \A j \in S : n <= j
  <2> HIDE DEF S
  <2>1. S \in SUBSET Nat /\ S # {}
    BY DEF S
  <2> QED BY <2>1, Minimum
<1>2. n # 0
  BY <1>1 DEF Approx
<1>3. n - 1 \in Nat /\ n - 1 \notin S /\ n \in 1 .. k /\ n \in 1 .. m
  BY <1>1, <1>2
<1>4. f[n - 1] = g[n - 1]
  BY <1>3
<1> QED BY <1>1, <1>3, <1>4 DEF Approx

\* So the values at n of those up to n make up the recursive function.
LEMMA PlainOfExists ==
    ASSUME NEW w
    PROVE  \E F : F = [n \in Nat |-> IF n = 0 THEN <<>> ELSE F[n - 1] \o PayloadOf(w, n)]
<1> DEFINE G(n) == CHOOSE f : Approx(f, w, n)
           F == [n \in Nat |-> G(n)[n]]
<1>1. \A n \in Nat : Approx(G(n), w, n)
  BY ApproxExists
<1> HIDE DEF G
<1>2. F[0] = <<>>
  BY <1>1 DEF Approx
<1>3. ASSUME NEW n \in Nat, n # 0 PROVE F[n] = F[n - 1] \o PayloadOf(w, n)
  <2>1. n - 1 \in Nat /\ n \in 1 .. n
    BY <1>3
  <2>2. G(n)[n] = G(n)[n - 1] \o PayloadOf(w, n)
    BY <1>1, <2>1 DEF Approx
  <2>3. G(n)[n - 1] = G(n - 1)[n - 1]
    BY <1>1, <2>1, ApproxUnique
  <2> QED BY <2>1, <2>2, <2>3
<1>4. F = [n \in Nat |-> IF n = 0 THEN <<>> ELSE F[n - 1] \o PayloadOf(w, n)]
  BY <1>2, <1>3
<1> QED BY <1>4

\* The plaintext of n blocks, from that of n - 1.
LEMMA PlainOfRec ==
    ASSUME NEW w
    PROVE  /\ PlainOf(w)[0] = <<>>
           /\ \A n \in Nat \ {0} : PlainOf(w)[n] = PlainOf(w)[n - 1] \o PayloadOf(w, n)
<1>1. PlainOf(w) = [n \in Nat |-> IF n = 0 THEN <<>>
                                  ELSE PlainOf(w)[n - 1] \o PayloadOf(w, n)]
  BY PlainOfExists DEF PlainOf
<1> QED BY <1>1

LEMMA PayloadType ==
    ASSUME NEW w \in Seq(BlockType), NEW n \in 1 .. Len(w)
    PROVE  PayloadOf(w, n) \in Seq(Byte)
<1>1. w[n] \in BlockType
  OBVIOUS
<1>2. w[n].kind = "payload" => w[n].val \in Seq(Byte)
  BY <1>1 DEF BlockType
<1> QED BY <1>2 DEF PayloadOf

\* The plaintext is a sequence of bytes.
LEMMA PlainType ==
    ASSUME NEW w \in Seq(BlockType), NEW n0 \in 0 .. Len(w)
    PROVE  PlainOf(w)[n0] \in Seq(Byte)
<1> SUFFICES ASSUME PlainOf(w)[n0] \notin Seq(Byte) PROVE FALSE OBVIOUS
<1> DEFINE S == {n \in 0 .. Len(w) : PlainOf(w)[n] \notin Seq(Byte)}
<1>1. PICK n \in S : \A j \in S : n <= j
  <2> HIDE DEF S
  <2>1. S \in SUBSET Nat /\ S # {}
    BY DEF S
  <2> QED BY <2>1, Minimum
<1>2. n # 0
  BY <1>1, PlainOfRec, EmptySeq
<1>3. n \in 1 .. Len(w) /\ n \in Nat \ {0} /\ n - 1 \in 0 .. Len(w) /\ n - 1 \notin S
  BY <1>1, <1>2
<1>4. PlainOf(w)[n - 1] \in Seq(Byte)
  BY <1>3
<1>5. PlainOf(w)[n] = PlainOf(w)[n - 1] \o PayloadOf(w, n)
  BY <1>3, PlainOfRec
<1>6. PlainOf(w)[n] \in Seq(Byte)
  BY <1>3, <1>4, <1>5, PayloadType, ConcatProperties
<1> QED BY <1>1, <1>6

\* Blocks that follow do not change the plaintext of those before.
LEMMA PlainOfLonger ==
    ASSUME NEW v, NEW w, NEW m \in Nat, \A n \in 1 .. m : v[n] = w[n], NEW n0 \in 0 .. m
    PROVE  PlainOf(v)[n0] = PlainOf(w)[n0]
<1>1. Approx(PlainOf(v), v, m) /\ Approx(PlainOf(w), w, m)
  <2>1. \A n \in 1 .. m : n \in Nat \ {0}
    OBVIOUS
  <2> QED BY <2>1, PlainOfRec DEF Approx
<1>2. Approx(PlainOf(w), v, m)
  BY <1>1 DEF Approx, PayloadOf
<1> QED BY <1>1, <1>2, ApproxUnique

\* The plaintext of the first m blocks starts that of the first n.
Starts(s, t) == Len(s) <= Len(t) /\ \A i \in 1 .. Len(s) : t[i] = s[i]

LEMMA PlainGrows ==
    ASSUME NEW w \in Seq(BlockType), NEW m \in 0 .. Len(w), NEW n0 \in m .. Len(w)
    PROVE  Starts(PlainOf(w)[m], PlainOf(w)[n0])
<1> SUFFICES ASSUME ~ Starts(PlainOf(w)[m], PlainOf(w)[n0]) PROVE FALSE OBVIOUS
<1> DEFINE S == {n \in m .. Len(w) : ~ Starts(PlainOf(w)[m], PlainOf(w)[n])}
<1>1. PICK n \in S : \A j \in S : n <= j
  <2> HIDE DEF S
  <2>1. S \in SUBSET Nat /\ S # {}
    BY DEF S
  <2> QED BY <2>1, Minimum
<1>2. n # m
  BY <1>1, PlainType DEF Starts
<1>3. /\ n \in 1 .. Len(w) /\ n \in Nat \ {0} /\ n - 1 \in m .. Len(w)
      /\ n - 1 \in 0 .. Len(w) /\ n - 1 \notin S
  BY <1>1, <1>2
<1>4. Starts(PlainOf(w)[m], PlainOf(w)[n - 1])
  BY <1>3
<1>5. PlainOf(w)[n] = PlainOf(w)[n - 1] \o PayloadOf(w, n)
  BY <1>3, PlainOfRec
<1>6. /\ PlainOf(w)[n - 1] \in Seq(Byte) /\ PlainOf(w)[m] \in Seq(Byte)
      /\ PayloadOf(w, n) \in Seq(Byte)
  BY <1>3, PlainType, PayloadType
<1>7. Starts(PlainOf(w)[m], PlainOf(w)[n])
  BY <1>4, <1>5, <1>6 DEF Starts
<1> QED BY <1>1, <1>7

-----------------------------------------------------------------------------
(* What flush puts on the wire.                                            *)

\* The kinds and nonces of a stream of blocks.
WellFormed(w) ==
    \A i \in DOMAIN w :
      /\ w[i].kind = (IF i = 1 THEN "salt" ELSE IF i % 2 = 0 THEN "size" ELSE "payload")
      /\ i > 1 => w[i].nonce = i - 2

\* The counter of a Writer that has not failed.
CounterFits(w, c) == IF c = 0 THEN w = <<>> ELSE Len(w) = c + 1 /\ c % 2 = 0

\* flush's chunk, with the salt if it is the first, makes a longer stream of
\* the right shape with the next nonces and adds its n bytes to the plaintext.
LEMMA ChunkExtends ==
    ASSUME wire \in Seq(BlockType), WellFormed(wire), counter \in Nat,
           CounterFits(wire, counter),
           NEW b, NEW n \in 1 .. Mask, SubSeq(b, 1, n) \in Seq(Byte)
    PROVE  LET w == wire \o Chunk(b, n)
           IN  /\ w \in Seq(BlockType) /\ WellFormed(w) /\ CounterFits(w, counter + 2)
               /\ Len(wire) <= Len(w) /\ \A i \in 1 .. Len(wire) : w[i] = wire[i]
               /\ PlainOf(w)[Len(w)] = PlainOf(wire)[Len(wire)] \o SubSeq(b, 1, n)
<1> DEFINE salt == [kind |-> "salt", nonce |-> 0, val |-> <<>>]
           size == [kind |-> "size", nonce |-> counter, val |-> n]
           payload == [kind |-> "payload", nonce |-> counter + 1, val |-> SubSeq(b, 1, n)]
           chunk == IF counter = 0 THEN <<salt, size, payload>> ELSE <<size, payload>>
           w == wire \o chunk
<1>1. Chunk(b, n) = chunk
  <2> DEFINE pair == <<size, payload>>
  <2>1. Chunk(b, n) = (IF counter = 0 THEN <<salt>> ELSE <<>>) \o pair
    BY DEF Chunk, saltBlock, payloadNonce
  <2> HIDE DEF salt, size, payload
  <2>2. <<salt>> \o pair = <<salt, size, payload>>
    <3> DEFINE S == {salt, size, payload}
    <3>1. <<salt>> \in Seq(S) /\ pair \in Seq(S) /\ <<salt, size, payload>> \in Seq(S)
      OBVIOUS
    <3>2. Len(<<salt>>) = 1 /\ Len(pair) = 2 /\ Len(<<salt, size, payload>>) = 3
      OBVIOUS
    <3>3. /\ <<salt>> \o pair \in Seq(S) /\ Len(<<salt>> \o pair) = 3
          /\ \A i \in 1 .. 3 : (<<salt>> \o pair)[i] =
               IF i <= 1 THEN <<salt>>[i] ELSE pair[i - 1]
      BY <3>1, <3>2, ConcatProperties
    <3>4. \A i \in 1 .. 3 : (<<salt>> \o pair)[i] = <<salt, size, payload>>[i]
      BY <3>3
    <3>5. /\ Len(<<salt>> \o pair) = Len(<<salt, size, payload>>)
          /\ \A i \in 1 .. Len(<<salt>> \o pair) :
               (<<salt>> \o pair)[i] = <<salt, size, payload>>[i]
      BY <3>2, <3>3, <3>4
    <3> HIDE DEF S, pair
    <3> QED BY <3>1, <3>3, <3>5, SeqEqual
  <2>3. <<>> \o pair = pair
    OBVIOUS
  <2> QED BY <2>1, <2>2, <2>3
<1>2. salt \in BlockType /\ size \in BlockType /\ payload \in BlockType
  BY DEF BlockType
<1>3. /\ salt.kind = "salt" /\ size.kind = "size" /\ payload.kind = "payload"
      /\ size.nonce = counter /\ payload.nonce = counter + 1
      /\ payload.val = SubSeq(b, 1, n)
  OBVIOUS
<1> HIDE DEF salt, size, payload
<1>4. /\ w \in Seq(BlockType)
      /\ Len(w) = counter + 3
      /\ w[Len(w) - 1] = size /\ w[Len(w)] = payload
      /\ \A i \in 1 .. Len(wire) : w[i] = wire[i]
      /\ counter = 0 => Len(wire) = 0 /\ w[1] = salt
      /\ counter # 0 => Len(wire) = counter + 1
  <2>1. CASE counter = 0
    BY <1>2, <2>1 DEF CounterFits
  <2>2. CASE counter # 0
    BY <1>2, <2>2 DEF CounterFits
  <2> QED BY <2>1, <2>2
<1> HIDE DEF w
<1> DEFINE L == Len(w)
<1>5. L \in Nat /\ DOMAIN w = 1 .. L /\ DOMAIN wire = 1 .. Len(wire) /\ Len(wire) \in Nat
  BY <1>4
<1>6. (counter + 2) % 2 = 0 /\ (counter + 3) % 2 = 1 /\ counter % 2 = 0
  <2>1. counter % 2 = 0
    BY DEF CounterFits
  <2> QED BY <2>1
<1>11. L = counter + 3 /\ Len(wire) = (IF counter = 0 THEN 0 ELSE counter + 1)
  BY <1>4
<1>12. /\ L \in Nat \ {0} /\ L - 1 \in Nat \ {0} /\ (L - 1) - 1 = L - 2 /\ L - 2 \in 0 .. L
       /\ Len(wire) \in 0 .. Len(wire) /\ Len(wire) <= L
  <2> HIDE DEF L
  <2> QED BY <1>5, <1>11
<1>7. WellFormed(w)
  <2> SUFFICES ASSUME NEW i \in 1 .. L
               PROVE  /\ w[i].kind = (IF i = 1 THEN "salt"
                                      ELSE IF i % 2 = 0 THEN "size" ELSE "payload")
                      /\ i > 1 => w[i].nonce = i - 2
    BY <1>5 DEF WellFormed
  <2>1. CASE i \in 1 .. Len(wire)
    BY <1>4, <1>5, <2>1 DEF WellFormed
  <2>2. CASE i = L - 1
    <3>1. i = counter + 2 /\ i # 1 /\ i % 2 = 0
      BY <1>11, <1>6, <2>2
    <3> QED BY <1>3, <1>4, <2>2, <3>1
  <2>3. CASE i = L
    <3>1. i = counter + 3 /\ i # 1 /\ i % 2 # 0
      BY <1>11, <1>6, <2>3
    <3> QED BY <1>3, <1>4, <2>3, <3>1
  <2>4. CASE counter = 0 /\ i = 1
    BY <1>3, <1>4, <2>4
  <2>5. \/ i \in 1 .. Len(wire) \/ i = L - 1 \/ i = L \/ (counter = 0 /\ i = 1)
    <3> HIDE DEF L
    <3>1. CASE counter = 0
      BY <1>11, <3>1
    <3>2. CASE counter # 0
      BY <1>11, <3>2
    <3> QED BY <3>1, <3>2
  <2> QED BY <2>1, <2>2, <2>3, <2>4, <2>5
<1>8. CounterFits(w, counter + 2)
  BY <1>4, <1>6 DEF CounterFits
<1>9. PlainOf(w)[L] = PlainOf(wire)[Len(wire)] \o SubSeq(b, 1, n)
  <2>1. PlainOf(w)[Len(wire)] = PlainOf(wire)[Len(wire)]
    <3>1. \A i \in 1 .. Len(wire) : w[i] = wire[i]
      BY <1>4
    <3>2. Len(wire) \in Nat /\ Len(wire) \in 0 .. Len(wire)
      BY <1>5, <1>12
    <3> QED BY ONLY <3>1, <3>2, PlainOfLonger
  <2>2. PlainOf(w)[L - 2] = PlainOf(wire)[Len(wire)]
    <3>1. CASE counter = 0
      <4>1. L = 3 /\ PayloadOf(w, 1) = <<>>
        BY <1>3, <1>4, <3>1 DEF PayloadOf
      <4>2. PlainOf(w)[1] = PlainOf(w)[0] \o <<>> /\ PlainOf(w)[0] = <<>>
        BY <4>1, PlainOfRec
      <4> QED BY <1>4, <2>1, <3>1, <4>1, <4>2
    <3>2. CASE counter # 0
      BY <1>4, <2>1, <3>2
    <3> QED BY <3>1, <3>2
  <2>3. PlainOf(w)[L - 1] = PlainOf(w)[L - 2]
    <3>1. PayloadOf(w, L - 1) = <<>>
      BY <1>3, <1>4 DEF PayloadOf
    <3>2. PlainOf(w)[L - 1] = PlainOf(w)[L - 2] \o PayloadOf(w, L - 1)
      BY <1>12, PlainOfRec
    <3>3. PlainOf(w)[L - 2] \in Seq(Byte)
      BY <1>4, <1>12, PlainType
    <3> QED BY <3>1, <3>2, <3>3, ConcatEmptySeq
  <2>4. PlainOf(w)[L] = PlainOf(w)[L - 1] \o PayloadOf(w, L)
    BY <1>12, PlainOfRec
  <2>5. PayloadOf(w, L) = SubSeq(b, 1, n)
    BY <1>3, <1>4 DEF PayloadOf
  <2> QED BY <2>2, <2>3, <2>4, <2>5
<1> QED BY <1>1, <1>4, <1>7, <1>8, <1>9, <1>12 DEF w

-----------------------------------------------------------------------------
(* The inductive invariant.                                                *)

WriterType ==
    /\ buf \in [Cells -> Byte \cup {Junk}]
    /\ pending \in 0 .. Mask
    /\ counter \in Nat
    /\ wire \in Seq(BlockType)
    /\ needFlush \in BOOLEAN /\ broken \in BOOLEAN /\ locked \in BOOLEAN
    /\ wpc \in {"idle", "lazy", "full", "first", "second", "loop", "write"}
    /\ rest \in Seq(Byte)
    /\ from \in 0 .. Mask + Overhead /\ read \in 0 .. Mask
    /\ given \in 0 .. MaxBytes

\* Where the goroutine is: when it holds the lock, when bytes may be pending, and
\* that what ReadFrom has read lies behind the cells a Flush can overwrite.
WriterPlace ==
    /\ locked <=> wpc \in {"lazy", "full"}
    /\ wpc \notin {"lazy", "full"} => rest = <<>>
    /\ wpc = "idle" /\ ~needFlush => pending = 0
    /\ wpc \in {"first", "second"} => needFlush /\ pending + Overhead <= from
    /\ wpc = "second" => from + read <= Mask + Overhead
    /\ wpc \in {"loop", "write"} => ~needFlush
    /\ wpc = "loop" => pending = 0

\* The stream so far, and the nonce that comes next.
WireInv == WellFormed(wire) /\ (~broken => CounterFits(wire, counter))

\* Number of bytes on the wire.
OnWire == Len(PlainOf(wire)[Len(wire)])

\* Number of bytes that ReadFrom has read and not yet enqueued.
InReadBuf == IF wpc = "second" THEN read ELSE 0

\* The bytes on the wire, in the buffer, in LazyWrite's argument and in readBuf
\* are numbered without a gap.
WriterData ==
    ~broken =>
      /\ \A i \in 1 .. OnWire : PlainOf(wire)[Len(wire)][i] = i
      /\ \A i \in 1 .. pending : buf[i] = OnWire + i
      /\ \A i \in 1 .. Len(rest) : rest[i] = OnWire + pending + i
      /\ wpc = "second" => \A i \in 1 .. read : buf[from + i] = OnWire + pending + i
      /\ given = OnWire + pending + Len(rest) + InReadBuf

WriterInv == WriterType /\ WriterPlace /\ WireInv /\ WriterData

ReaderType ==
    /\ nonce \in Nat
    /\ aead \in BOOLEAN /\ acquired \in BOOLEAN
    /\ rpc \in {"idle", "salt", "size", "payload", "ended"}
    /\ arrived \in 0 .. Len(wire) /\ consumed \in 0 .. arrived
    /\ leftover \in Seq(Byte) /\ out \in Seq(Byte)

\* Where ReadChunk is, and the nonce it expects.
ReaderPlace ==
    /\ ~aead => consumed = 0 /\ ~acquired /\ rpc \in {"idle", "salt", "ended"}
    /\ aead => consumed > 0 /\ nonce = consumed - 1 /\ rpc # "salt"
    /\ rpc \in {"idle", "size"} /\ aead => consumed % 2 = 1
    /\ rpc = "payload" => consumed % 2 = 0 /\ acquired
    /\ rpc \in {"salt", "size", "payload"} => leftover = <<>>
    /\ result # "none" => rpc = "ended"

\* What the reader has handed out or still holds.
ReaderData == out \o leftover = PlainOf(wire)[consumed]

\* A failure to decrypt is the network's.
DecryptsAll == result = "failed to decrypt" => ending = "damaged"

ReaderInv ==
    /\ ReaderType /\ ReaderPlace /\ ReaderData
    /\ DecryptsAll /\ CleanEof /\ BufferHeld

IInv == WriterInv /\ ReaderInv

-----------------------------------------------------------------------------
(* The Writer keeps its part of the invariant.                             *)

\* The Writer only appends.
WireGrows == Len(wire) <= Len(wire') /\ \A i \in 1 .. Len(wire) : wire'[i] = wire[i]

LEMMA OnWireType ==
    ASSUME wire \in Seq(BlockType)
    PROVE  PlainOf(wire)[Len(wire)] \in Seq(Byte) /\ OnWire \in Nat
<1>1. Len(wire) \in 0 .. Len(wire)
  BY LenProperties
<1> QED BY <1>1, PlainType, LenProperties DEF OnWire

LEMMA InitWriterInv == WriterInit => WriterInv
<1> SUFFICES ASSUME WriterInit PROVE WriterInv OBVIOUS
<1> USE DEF WriterInit
<1>1. wire \in Seq(BlockType) /\ rest \in Seq(Byte)
  BY EmptySeq
<1>2. WriterType
  <2>1. 0 \in 0 .. Mask /\ 0 \in 0 .. Mask + Overhead /\ 0 \in 0 .. MaxBytes
    BY SizesAssumption, MaxBytesAssumption
  <2>2. buf \in [Cells -> Byte \cup {Junk}]
    OBVIOUS
  <2> QED BY <1>1, <2>1, <2>2 DEF WriterType
<1>3. WriterPlace
  BY DEF WriterPlace
<1>4. WireInv
  BY DEF WireInv, WellFormed, CounterFits
<1>5. PlainOf(wire)[Len(wire)] = <<>> /\ OnWire = 0
  BY PlainOfRec, EmptySeq DEF OnWire
<1>6. WriterData
  BY <1>5, EmptySeq DEF WriterData, InReadBuf
<1> QED BY <1>2, <1>3, <1>4, <1>6 DEF WriterInv

\* n bytes from a caller, numbered on.
LEMMA BytesType ==
    ASSUME given \in Nat, NEW n \in Nat, given + n <= MaxBytes
    PROVE  /\ Bytes(n) \in Seq(Byte) /\ Len(Bytes(n)) = n
           /\ \A i \in 1 .. n : Bytes(n)[i] = given + i
<1>1. \A i \in 1 .. n : given + i \in Byte
  BY MaxBytesAssumption DEF Byte
<1>2. Bytes(n) \in [1 .. n -> Byte]
  BY <1>1 DEF Bytes
<1>3. Bytes(n) \in Seq(Byte)
  BY <1>2, SeqDef
<1>4. Len(Bytes(n)) = n
  BY <1>2, <1>3, LenProperties DEF Bytes
<1> QED BY <1>3, <1>4 DEF Bytes

\* What a copy into the buffer changes.
LEMMA PutType ==
    ASSUME NEW b \in [Cells -> Byte \cup {Junk}], NEW k \in Nat,
           NEW S \in SUBSET (Byte \cup {Junk}), NEW s \in Seq(S)
    PROVE  /\ Put(b, k, s) \in [Cells -> Byte \cup {Junk}]
           /\ \A i \in Cells : i <= k => Put(b, k, s)[i] = b[i]
           /\ \A i \in 1 .. Len(s) : k + i \in Cells => Put(b, k, s)[k + i] = s[i]
<1>1. Cells \subseteq Nat
  BY SizesAssumption DEF Cells
<1>2. Len(s) \in Nat /\ \A i \in 1 .. Len(s) : s[i] \in Byte \cup {Junk}
  BY LenProperties, ElementOfSeq
<1>3. \A i \in Cells : Put(b, k, s)[i] = IF i > k /\ i <= k + Len(s) THEN s[i - k] ELSE b[i]
  BY DEF Put
<1>4. \A i \in Cells : i > k /\ i <= k + Len(s) => i - k \in 1 .. Len(s)
  BY <1>1, <1>2
<1>5. Put(b, k, s) \in [Cells -> Byte \cup {Junk}]
  BY <1>2, <1>4 DEF Put
<1>6. \A i \in 1 .. Len(s) : k + i > k /\ k + i <= k + Len(s) /\ (k + i) - k = i
  BY <1>2
<1> QED BY <1>1, <1>3, <1>5, <1>6

\* What flush leaves behind.
LEMMA FlushStep ==
    ASSUME WriterInv, NEW b \in [Cells -> Byte \cup {Junk}], NEW n \in 0 .. Mask,
           NEW ok \in BOOLEAN, flush(b, n, ok),
           ~broken => \A i \in 1 .. n : b[i] = OnWire + i,
           ~broken => OnWire + n <= MaxBytes
    PROVE  /\ pending' = 0 /\ buf' \in [Cells -> Byte \cup {Junk}] /\ counter' \in Nat
           /\ wire' \in Seq(BlockType) /\ broken' \in BOOLEAN
           /\ WireInv' /\ WireGrows
           /\ \A i \in Cells : i > n + Overhead => buf'[i] = b[i]
           /\ ~broken' => /\ ~broken /\ ok /\ OnWire' = OnWire + n
                          /\ \A i \in 1 .. OnWire' : PlainOf(wire')[Len(wire')][i] = i
<1> USE DEF WriterInv
<1>1. pending' = 0
  BY DEF flush
<1>2. Len(wire) \in Nat /\ OnWire \in Nat /\ PlainOf(wire)[Len(wire)] \in Seq(Byte)
  BY OnWireType, LenProperties DEF WriterType
<1>3. CASE n = 0
  <2>1. ok /\ buf' = b /\ UNCHANGED <<counter, wire, broken>>
    BY <1>3 DEF flush
  <2>2. WireInv' /\ WireGrows
    BY <1>2, <2>1 DEF WireInv, WireGrows
  <2>3. OnWire' = OnWire
    BY <2>1 DEF OnWire
  <2>4. ~broken' => \A i \in 1 .. OnWire' : PlainOf(wire')[Len(wire')][i] = i
    BY <2>1, <2>3 DEF WriterData
  <2> QED BY <1>1, <1>2, <1>3, <2>1, <2>2, <2>3, <2>4 DEF WriterType
<1>4. CASE n # 0
  <2>1. /\ ok => ~broken
        /\ broken' = ~ok
        /\ counter' = counter + 2
        /\ buf' = [i \in Cells |-> IF i <= n + Overhead THEN Junk ELSE b[i]]
        /\ wire' = IF broken THEN wire ELSE wire \o Chunk(b, n)
    BY <1>4 DEF flush
  <2>2. buf' \in [Cells -> Byte \cup {Junk}] /\ counter' \in Nat /\ broken' \in BOOLEAN
    BY <2>1 DEF WriterType
  <2>3. \A i \in Cells : i > n + Overhead => buf'[i] = b[i]
    BY <2>1, SizesAssumption DEF Cells
  <2>4. CASE broken
    <3>1. wire' = wire /\ broken'
      BY <2>1, <2>4
    <3>2. WireInv' /\ WireGrows
      BY <1>2, <3>1 DEF WireInv, WireGrows
    <3> QED BY <1>1, <2>2, <2>3, <3>1, <3>2 DEF WriterType
  <2>5. CASE ~broken
    <3> DEFINE p == SubSeq(b, 1, n)
    <3>1. \A i \in 1 .. n : b[i] \in Byte
      BY <1>2, <2>5, MaxBytesAssumption DEF Byte
    <3>2. p \in Seq(Byte) /\ Len(p) = n /\ \A i \in 1 .. n : p[i] = OnWire + i
      BY <1>4, <2>5, <3>1, SubSeqProperties
    <3>3. n \in 1 .. Mask
      BY <1>4, SizesAssumption
    <3>4. /\ wire' \in Seq(BlockType) /\ WellFormed(wire') /\ CounterFits(wire', counter')
          /\ WireGrows
          /\ PlainOf(wire')[Len(wire')] = PlainOf(wire)[Len(wire)] \o p
      BY <2>1, <2>5, <3>2, <3>3, ChunkExtends DEF WriterType, WireInv, WireGrows
    <3> HIDE DEF p
    <3>5. /\ OnWire' = OnWire + n
          /\ \A i \in 1 .. OnWire + n : PlainOf(wire')[Len(wire')][i] =
               IF i <= OnWire THEN PlainOf(wire)[Len(wire)][i] ELSE p[i - OnWire]
      <4> DEFINE q == PlainOf(wire)[Len(wire)]
      <4>1. OnWire = Len(q) /\ OnWire' = Len(PlainOf(wire')[Len(wire')])
        BY DEF OnWire
      <4>2. q \in Seq(Byte) /\ PlainOf(wire')[Len(wire')] = q \o p
        BY <1>2, <3>4
      <4> HIDE DEF q
      <4>3. /\ Len(q \o p) = Len(q) + Len(p)
            /\ \A i \in 1 .. Len(q) + Len(p) :
                 (q \o p)[i] = IF i <= Len(q) THEN q[i] ELSE p[i - Len(q)]
        BY <3>2, <4>2, ConcatProperties
      <4> QED BY <3>2, <4>1, <4>2, <4>3 DEF q
    <3>6. \A i \in 1 .. OnWire' : PlainOf(wire')[Len(wire')][i] = i
      <4> SUFFICES ASSUME NEW i \in 1 .. OnWire + n PROVE PlainOf(wire')[Len(wire')][i] = i
        BY <3>5
      <4>1. CASE i <= OnWire
        <5>1. \A j \in 1 .. OnWire : PlainOf(wire)[Len(wire)][j] = j
          BY <2>5 DEF WriterData
        <5>2. i \in 1 .. OnWire
          BY <1>2, <4>1
        <5> QED BY <3>5, <4>1, <5>1, <5>2
      <4>2. CASE ~ (i <= OnWire)
        <5>1. i - OnWire \in 1 .. n
          BY <1>2, <4>2
        <5> QED BY <1>2, <3>2, <3>5, <4>2, <5>1
      <4> QED BY <4>1, <4>2
    <3>7. WireInv'
      BY <3>4 DEF WireInv
    <3>8. ~broken' => ok
      BY <2>1
    <3> QED BY <1>1, <2>2, <2>3, <2>5, <3>4, <3>5, <3>6, <3>7, <3>8
  <2> QED BY <2>4, <2>5 DEF WriterType
<1> QED BY <1>3, <1>4

\* Steps that do not write out leave the stream as it is.
LEMMA SameWire ==
    ASSUME WriterInv, UNCHANGED <<wire, counter, broken>>
    PROVE  WireInv' /\ WireGrows /\ OnWire' = OnWire
<1>1. Len(wire) \in Nat
  BY LenProperties DEF WriterInv, WriterType
<1> QED BY <1>1 DEF WriterInv, WireInv, WireGrows, OnWire

\* LazyWrite takes the lock and its argument.
LEMMA LazyWriteInv ==
    ASSUME WriterInv, NEW n \in 0 .. MaxBytes, LazyWrite(n)
    PROVE  WriterInv' /\ WireGrows
<1> USE DEF WriterInv
<1>1. /\ wpc = "idle" /\ given + n <= MaxBytes
      /\ rest' = Bytes(n) /\ given' = given + n /\ wpc' = "lazy" /\ locked' = TRUE
      /\ UNCHANGED <<buf, pending, counter, wire, broken, needFlush, from, read, err>>
  BY DEF LazyWrite, bufVars
<1>2. given \in Nat /\ n \in Nat /\ given' \in 0 .. MaxBytes
  BY <1>1, MaxBytesAssumption DEF WriterType
<1>3. rest' \in Seq(Byte) /\ Len(rest') = n /\ \A i \in 1 .. n : rest'[i] = given + i
  BY <1>1, <1>2, BytesType
<1>4. WriterType'
  BY <1>1, <1>2, <1>3 DEF WriterType
<1>5. WriterPlace'
  BY <1>1 DEF WriterPlace
<1>6. WireInv' /\ WireGrows /\ OnWire' = OnWire
  BY <1>1, SameWire
<1>7. WriterData'
  <2>1. rest = <<>> /\ Len(rest) = 0 /\ OnWire \in Nat
    BY <1>1, EmptySeq, OnWireType DEF WriterPlace, WriterType
  <2>2. ~broken => given = OnWire + pending
    BY <1>1, <2>1 DEF WriterData, WriterType, InReadBuf
  <2>3. InReadBuf' = 0 /\ wpc' # "second" /\ pending \in Nat
    BY <1>1 DEF InReadBuf, WriterType
  <2>4. ~broken => \A i \in 1 .. Len(rest') : rest'[i] = OnWire + pending + i
    BY <1>3, <2>2
  <2>5. ~broken => given + n = OnWire + pending + n + 0
    BY <1>2, <2>1, <2>2, <2>3
  <2> QED BY <1>1, <1>3, <1>6, <2>3, <2>4, <2>5 DEF WriterData
<1> QED BY <1>4, <1>5, <1>6, <1>7

\* enqueue copies what fits behind what is pending.
LEMMA QueueInv ==
    ASSUME WriterInv, Queue
    PROVE  WriterInv' /\ WireGrows
<1> USE DEF WriterInv
<1> DEFINE n == Least(Mask - pending, Len(rest))
           s == SubSeq(rest, 1, n)
<1>1. /\ wpc = "lazy"
      /\ buf' = Put(buf, pending, s) /\ pending' = pending + n
      /\ rest' = SubSeq(rest, n + 1, Len(rest))
      /\ \/ needFlush' = TRUE /\ wpc' = "idle" /\ locked' = FALSE /\ rest' = <<>>
         \/ wpc' = "full" /\ needFlush' = needFlush /\ locked' = locked
      /\ UNCHANGED <<counter, wire, broken, from, read, err, given>>
  BY DEF Queue
<1>2. /\ pending \in 0 .. Mask /\ rest \in Seq(Byte) /\ Len(rest) \in Nat
      /\ buf \in [Cells -> Byte \cup {Junk}] /\ OnWire \in Nat
  BY LenProperties, OnWireType DEF WriterType
<1>3. /\ n \in Nat /\ n <= Len(rest) /\ n <= Mask - pending
  BY <1>2, SizesAssumption DEF Least
<1> HIDE DEF n
<1>4. /\ \A i \in 1 .. n : rest[i] \in Byte
      /\ \A i \in n + 1 .. Len(rest) : rest[i] \in Byte
  <2>1. \A i \in 1 .. Len(rest) : rest[i] \in Byte
    BY <1>2, ElementOfSeq
  <2> QED BY <1>2, <1>3, <2>1
<1>5. s \in Seq(Byte) /\ Len(s) = n /\ \A i \in 1 .. n : s[i] = rest[i]
  BY <1>3, <1>4, SubSeqProperties
<1>6. /\ rest' \in Seq(Byte) /\ Len(rest') = Len(rest) - n
      /\ \A i \in 1 .. Len(rest) - n : rest'[i] = rest[n + i]
  <2>1. n + 1 \in Int /\ Len(rest) \in Int /\ Len(rest) - (n + 1) + 1 = Len(rest) - n
    BY <1>2, <1>3
  <2>2. /\ SubSeq(rest, n + 1, Len(rest)) \in Seq(Byte)
        /\ Len(SubSeq(rest, n + 1, Len(rest))) =
             IF n + 1 <= Len(rest) THEN Len(rest) - (n + 1) + 1 ELSE 0
        /\ \A i \in 1 .. Len(rest) - (n + 1) + 1 :
             SubSeq(rest, n + 1, Len(rest))[i] = rest[(n + 1) + i - 1]
    BY <1>4, <2>1, SubSeqProperties
  <2>3. \A i \in 1 .. Len(rest) - n : (n + 1) + i - 1 = n + i
    BY <1>2, <1>3
  <2>4. rest' \in Seq(Byte) /\ Len(rest') = Len(rest) - n
    BY <1>1, <1>2, <1>3, <2>2
  <2> QED BY <1>1, <2>1, <2>2, <2>3, <2>4
<1> HIDE DEF s
<1>7. /\ buf' \in [Cells -> Byte \cup {Junk}]
      /\ \A i \in Cells : i <= pending => buf'[i] = buf[i]
      /\ \A i \in 1 .. n : pending + i \in Cells => buf'[pending + i] = rest[i]
  <2>1. /\ Put(buf, pending, s) \in [Cells -> Byte \cup {Junk}]
        /\ \A i \in Cells : i <= pending => Put(buf, pending, s)[i] = buf[i]
        /\ \A i \in 1 .. Len(s) :
             pending + i \in Cells => Put(buf, pending, s)[pending + i] = s[i]
    <3>1. pending \in Nat
      BY <1>2
    <3> QED BY <1>2, <1>5, <3>1, PutType
  <2> QED BY <1>1, <1>5, <2>1
<1>8. WriterType'
  <2>1. pending' \in 0 .. Mask
    BY <1>1, <1>2, <1>3, SizesAssumption
  <2> QED BY <1>1, <1>6, <1>7, <2>1 DEF WriterType
<1>9. WriterPlace'
  BY <1>1 DEF WriterPlace
<1>10. WireInv' /\ WireGrows /\ OnWire' = OnWire
  BY <1>1, SameWire
<1>11. WriterData'
  <2> SUFFICES ASSUME ~broken
               PROVE  /\ \A i \in 1 .. OnWire : PlainOf(wire)[Len(wire)][i] = i
                      /\ \A i \in 1 .. pending + n : buf'[i] = OnWire + i
                      /\ \A i \in 1 .. Len(rest) - n : rest'[i] = OnWire + (pending + n) + i
                      /\ given = OnWire + (pending + n) + (Len(rest) - n)
    <3>1. InReadBuf' = 0 /\ wpc' # "second" /\ broken' = broken /\ wire' = wire
      BY <1>1 DEF InReadBuf
    <3>2. OnWire + (pending + n) + (Len(rest) - n) + 0 = OnWire + (pending + n) + (Len(rest) - n)
      BY <1>2, <1>3
    <3> QED BY <1>1, <1>6, <1>10, <3>1, <3>2 DEF WriterData
  <2>1. /\ \A i \in 1 .. OnWire : PlainOf(wire)[Len(wire)][i] = i
        /\ \A i \in 1 .. pending : buf[i] = OnWire + i
        /\ \A i \in 1 .. Len(rest) : rest[i] = OnWire + pending + i
        /\ given = OnWire + pending + Len(rest)
    <3>1. InReadBuf = 0
      BY <1>1 DEF InReadBuf
    <3>2. given = OnWire + pending + Len(rest) + 0
      BY <3>1 DEF WriterData
    <3> QED BY <1>2, <3>2 DEF WriterData
  <2>2. ASSUME NEW i \in 1 .. pending + n PROVE buf'[i] = OnWire + i
    <3>1. i \in Cells
      BY <1>2, <1>3, SizesAssumption DEF Cells
    <3>2. CASE i <= pending
      BY <1>2, <1>7, <2>1, <3>1, <3>2
    <3>3. CASE ~ (i <= pending)
      <4>1. i - pending \in 1 .. n /\ i - pending \in 1 .. Len(rest)
            /\ pending + (i - pending) = i
        BY <1>2, <1>3, <3>3
      <4>2. buf'[i] = rest[i - pending]
        BY <1>7, <3>1, <4>1
      <4>3. rest[i - pending] = OnWire + pending + (i - pending)
        BY <2>1, <4>1
      <4> QED BY <1>2, <1>3, <4>2, <4>3
    <3> QED BY <3>2, <3>3
  <2>3. ASSUME NEW i \in 1 .. Len(rest) - n
        PROVE  rest'[i] = OnWire + (pending + n) + i
    <3>1. n + i \in 1 .. Len(rest)
      BY <1>2, <1>3
    <3>2. rest'[i] = rest[n + i] /\ rest[n + i] = OnWire + pending + (n + i)
      BY <1>6, <2>1, <3>1
    <3> QED BY <1>2, <1>3, <3>2
  <2> QED BY <1>2, <1>3, <2>1, <2>2, <2>3
<1> QED BY <1>8, <1>9, <1>10, <1>11

\* ReadFrom begins, with or without bytes that wait for a Flush.
LEMMA ReadFromInv ==
    ASSUME WriterInv, ReadFrom
    PROVE  WriterInv' /\ WireGrows
<1> USE DEF WriterInv
<1>1. /\ wpc = "idle"
      /\ \/ needFlush /\ wpc' = "first" /\ from' = pending + Overhead
         \/ ~needFlush /\ wpc' = "loop" /\ from' = from
      /\ UNCHANGED <<buf, pending, counter, wire, broken, needFlush, locked, rest,
                     read, err, given>>
  BY DEF ReadFrom, readBuf, bufVars
<1>2. from' \in 0 .. Mask + Overhead
  BY <1>1, SizesAssumption DEF WriterType
<1>3. WriterType'
  BY <1>1, <1>2 DEF WriterType
<1>4. WriterPlace'
  BY <1>1, SizesAssumption DEF WriterPlace, WriterType
<1>5. WireInv' /\ WireGrows /\ OnWire' = OnWire
  BY <1>1, SameWire
<1>6. WriterData'
  BY <1>1, <1>5 DEF WriterData, InReadBuf
<1> QED BY <1>3, <1>4, <1>5, <1>6

\* The read of ReadFrom that holds no lock goes behind the cells that a concurrent
\* Flush encrypts in place.
LEMMA ReadFirstInv ==
    ASSUME WriterInv, NEW n \in 0 .. Mask, NEW e, ReadFirst(n, e)
    PROVE  WriterInv' /\ WireGrows
<1> USE DEF WriterInv
<1>1. /\ wpc = "first" /\ from + n <= Mask + Overhead /\ given + n <= MaxBytes
      /\ buf' = Put(buf, from, Bytes(n)) /\ read' = n /\ given' = given + n
      /\ wpc' = "second"
      /\ UNCHANGED <<pending, counter, wire, broken, needFlush, locked, rest, from>>
  BY DEF ReadFirst
<1>2. /\ pending \in Nat /\ from \in Nat /\ n \in Nat /\ given \in Nat
      /\ OnWire \in Nat /\ buf \in [Cells -> Byte \cup {Junk}]
      /\ rest = <<>> /\ Len(rest) = 0 /\ pending + Overhead <= from
      /\ Mask \in Nat /\ Overhead \in Nat
  BY <1>1, OnWireType, EmptySeq, SizesAssumption DEF WriterType, WriterPlace
<1>3. /\ Bytes(n) \in Seq(Byte) /\ Len(Bytes(n)) = n
      /\ \A i \in 1 .. n : Bytes(n)[i] = given + i
  BY <1>1, <1>2, BytesType
<1>4. /\ buf' \in [Cells -> Byte \cup {Junk}]
      /\ \A i \in Cells : i <= from => buf'[i] = buf[i]
      /\ \A i \in 1 .. n : from + i \in Cells => buf'[from + i] = given + i
  <2> DEFINE s == Bytes(n)
  <2>1. /\ Put(buf, from, s) \in [Cells -> Byte \cup {Junk}]
        /\ \A i \in Cells : i <= from => Put(buf, from, s)[i] = buf[i]
        /\ \A i \in 1 .. Len(s) : from + i \in Cells => Put(buf, from, s)[from + i] = s[i]
    <3> HIDE DEF s
    <3>1. s \in Seq(Byte)
      BY <1>3 DEF s
    <3> QED BY <1>2, <3>1, PutType
  <2> QED BY <1>1, <1>3, <2>1
<1>5. WriterType'
  <2>1. given' \in 0 .. MaxBytes
    BY <1>1, <1>2, MaxBytesAssumption
  <2> QED BY <1>1, <1>4, <2>1 DEF WriterType
<1>6. WriterPlace'
  BY <1>1 DEF WriterPlace
<1>7. WireInv' /\ WireGrows /\ OnWire' = OnWire
  BY <1>1, SameWire
<1>8. WriterData'
  <2> SUFFICES ASSUME ~broken
               PROVE  /\ \A i \in 1 .. OnWire : PlainOf(wire)[Len(wire)][i] = i
                      /\ \A i \in 1 .. pending : buf'[i] = OnWire + i
                      /\ \A i \in 1 .. n : buf'[from + i] = OnWire + pending + i
                      /\ given + n = OnWire + pending + n
    BY <1>1, <1>2, <1>7, EmptySeq DEF WriterData, InReadBuf
  <2>1. /\ \A i \in 1 .. OnWire : PlainOf(wire)[Len(wire)][i] = i
        /\ \A i \in 1 .. pending : buf[i] = OnWire + i
        /\ given = OnWire + pending
    <3>1. InReadBuf = 0
      BY <1>1 DEF InReadBuf
    <3>2. given = OnWire + pending + Len(rest) + InReadBuf
      BY DEF WriterData
    <3> QED BY <1>2, <3>1, <3>2 DEF WriterData
  <2>2. \A i \in 1 .. pending : i \in Cells /\ i <= from
    <3>1. pending <= from /\ from <= Mask + Overhead
      BY <1>2 DEF WriterType
    <3> QED BY <1>2, <3>1 DEF Cells
  <2>3. \A i \in 1 .. n : from + i \in Cells
    <3>1. from + n <= Mask + Overhead
      BY <1>1
    <3> QED BY <1>2, <3>1 DEF Cells
  <2> QED BY <1>4, <2>1, <2>2, <2>3
<1> QED BY <1>5, <1>6, <1>7, <1>8

\* The later reads of ReadFrom, when nothing is pending.
LEMMA ReadLoopInv ==
    ASSUME WriterInv, NEW n \in 0 .. Mask, NEW e, ReadLoop(n, e)
    PROVE  WriterInv' /\ WireGrows
<1> USE DEF WriterInv
<1>1. /\ wpc = "loop" /\ given + n <= MaxBytes
      /\ buf' = Put(buf, 0, Bytes(n)) /\ pending' = n /\ given' = given + n
      /\ wpc' = "write"
      /\ UNCHANGED <<counter, wire, broken, needFlush, locked, rest, from, read>>
  BY DEF ReadLoop
<1>2. /\ n \in Nat /\ given \in Nat /\ OnWire \in Nat /\ pending = 0
      /\ buf \in [Cells -> Byte \cup {Junk}] /\ rest = <<>> /\ Len(rest) = 0
      /\ Mask \in Nat /\ Overhead \in Nat
  BY <1>1, OnWireType, EmptySeq, SizesAssumption DEF WriterType, WriterPlace
<1>3. /\ Bytes(n) \in Seq(Byte) /\ Len(Bytes(n)) = n
      /\ \A i \in 1 .. n : Bytes(n)[i] = given + i
  BY <1>1, <1>2, BytesType
<1>4. /\ buf' \in [Cells -> Byte \cup {Junk}]
      /\ \A i \in 1 .. n : i \in Cells => buf'[i] = given + i
  <2> DEFINE s == Bytes(n)
             k == pending
  <2>1. /\ Put(buf, k, s) \in [Cells -> Byte \cup {Junk}]
        /\ \A i \in 1 .. Len(s) : k + i \in Cells => Put(buf, k, s)[k + i] = s[i]
    <3>1. k \in Nat /\ s \in Seq(Byte)
      BY <1>2, <1>3
    <3> HIDE DEF k, s
    <3> QED BY <1>2, <3>1, PutType
  <2>2. \A i \in 1 .. n : k + i = i
    BY <1>2
  <2>3. buf' = Put(buf, k, s)
    BY <1>1, <1>2
  <2> HIDE DEF k
  <2> QED BY <1>3, <2>1, <2>2, <2>3
<1>5. \A i \in 1 .. n : buf'[i] = given + i
  <2>1. \A i \in 1 .. n : i \in Cells
    BY <1>2 DEF Cells
  <2> QED BY <1>4, <2>1
<1>6. WriterType'
  <2>1. given' \in 0 .. MaxBytes
    BY <1>1, <1>2, MaxBytesAssumption
  <2> QED BY <1>1, <1>4, <2>1 DEF WriterType
<1>7. WriterPlace'
  BY <1>1 DEF WriterPlace
<1>8. WireInv' /\ WireGrows /\ OnWire' = OnWire
  BY <1>1, SameWire
<1>9. WriterData'
  <2>1. ~broken => given = OnWire
    BY <1>1, <1>2 DEF WriterData, InReadBuf
  <2> QED BY <1>1, <1>2, <1>5, <1>8, <2>1, EmptySeq DEF WriterData, InReadBuf
<1> QED BY <1>6, <1>7, <1>8, <1>9

\* flush of the whole buffer: what was pending is on the wire, and what lies
\* behind the tag's cells is untouched.
LEMMA FlushPending ==
    ASSUME WriterInv, NEW ok \in BOOLEAN, flush(buf, pending, ok)
    PROVE  /\ pending' = 0 /\ buf' \in [Cells -> Byte \cup {Junk}] /\ counter' \in Nat
           /\ wire' \in Seq(BlockType) /\ broken' \in BOOLEAN
           /\ WireInv' /\ WireGrows
           /\ \A i \in Cells : i > pending + Overhead => buf'[i] = buf[i]
           /\ ~broken' => /\ ~broken /\ ok /\ OnWire' = OnWire + pending
                          /\ \A i \in 1 .. OnWire' : PlainOf(wire')[Len(wire')][i] = i
<1>1. /\ buf \in [Cells -> Byte \cup {Junk}] /\ pending \in 0 .. Mask
      /\ OnWire \in Nat /\ Len(rest) \in Nat /\ InReadBuf \in Nat
      /\ given \in 0 .. MaxBytes /\ pending \in Nat
  BY OnWireType, LenProperties DEF WriterInv, WriterType, InReadBuf
<1>2. ~broken => /\ \A i \in 1 .. pending : buf[i] = OnWire + i
                 /\ given = OnWire + pending + Len(rest) + InReadBuf
  BY DEF WriterInv, WriterData
<1>3. ~broken => OnWire + pending <= MaxBytes
  BY <1>1, <1>2, MaxBytesAssumption
<1> QED BY <1>1, <1>2, <1>3, FlushStep

\* LazyWrite flushes a full buffer.
LEMMA FlushFullInv ==
    ASSUME WriterInv, NEW ok \in BOOLEAN, FlushFull(ok)
    PROVE  WriterInv' /\ WireGrows
<1>1. /\ wpc = "full" /\ flush(buf, pending, ok)
      /\ \/ ok /\ wpc' = "lazy" /\ locked' = locked /\ rest' = rest
         \/ ~ok /\ wpc' = "idle" /\ locked' = FALSE /\ rest' = <<>>
      /\ UNCHANGED <<needFlush, from, read, err, given>>
  BY DEF FlushFull
<1>2. /\ pending' = 0 /\ buf' \in [Cells -> Byte \cup {Junk}] /\ counter' \in Nat
      /\ wire' \in Seq(BlockType) /\ broken' \in BOOLEAN /\ WireInv' /\ WireGrows
      /\ ~broken' => /\ ~broken /\ ok /\ OnWire' = OnWire + pending
                     /\ \A i \in 1 .. OnWire' : PlainOf(wire')[Len(wire')][i] = i
  BY <1>1, FlushPending
<1>3. WriterType'
  <2>1. 0 \in 0 .. Mask
    BY SizesAssumption
  <2>2. rest' \in Seq(Byte)
    BY <1>1, EmptySeq DEF WriterInv, WriterType
  <2> QED BY <1>1, <1>2, <2>1, <2>2 DEF WriterInv, WriterType
<1>4. WriterPlace'
  <2>1. locked /\ pending' = 0
    BY <1>1, <1>2 DEF WriterInv, WriterPlace
  <2>2. CASE ok
    BY <1>1, <2>1, <2>2 DEF WriterPlace
  <2>3. CASE ~ok
    BY <1>1, <2>1, <2>3 DEF WriterPlace
  <2> QED BY <2>2, <2>3
<1>5. WriterData'
  <2> SUFFICES ASSUME ~broken'
               PROVE  /\ \A i \in 1 .. OnWire' : PlainOf(wire')[Len(wire')][i] = i
                      /\ \A i \in 1 .. 0 : buf'[i] = OnWire' + i
                      /\ \A i \in 1 .. Len(rest) : rest[i] = OnWire' + 0 + i
                      /\ given = OnWire' + 0 + Len(rest) + 0
    <3>1. InReadBuf' = 0 /\ wpc' # "second" /\ (~broken' => rest' = rest)
      BY <1>1, <1>2 DEF InReadBuf
    <3> QED BY <1>1, <1>2, <3>1 DEF WriterData
  <2>1. /\ OnWire \in Nat /\ pending \in Nat /\ Len(rest) \in Nat
    BY OnWireType, LenProperties DEF WriterInv, WriterType
  <2>2. /\ \A i \in 1 .. Len(rest) : rest[i] = OnWire + pending + i
        /\ given = OnWire + pending + Len(rest) + 0
    BY <1>1, <1>2 DEF WriterInv, WriterData, InReadBuf
  <2> QED BY <1>2, <2>1, <2>2
<1> QED BY <1>2, <1>3, <1>4, <1>5 DEF WriterInv

\* ReadFrom's loop flushes what it has read.
LEMMA FlushLoopInv ==
    ASSUME WriterInv, NEW ok \in BOOLEAN, FlushLoop(ok)
    PROVE  WriterInv' /\ WireGrows
<1>1. /\ wpc = "write" /\ flush(buf, pending, ok)
      /\ wpc' \in {"loop", "idle"}
      /\ UNCHANGED <<needFlush, locked, rest, from, read, given>>
  BY DEF FlushLoop
<1>2. /\ pending' = 0 /\ buf' \in [Cells -> Byte \cup {Junk}] /\ counter' \in Nat
      /\ wire' \in Seq(BlockType) /\ broken' \in BOOLEAN /\ WireInv' /\ WireGrows
      /\ ~broken' => /\ ~broken /\ ok /\ OnWire' = OnWire + pending
                     /\ \A i \in 1 .. OnWire' : PlainOf(wire')[Len(wire')][i] = i
  BY <1>1, FlushPending
<1>3. WriterType'
  <2>1. 0 \in 0 .. Mask
    BY SizesAssumption
  <2> QED BY <1>1, <1>2, <2>1 DEF WriterInv, WriterType
<1>4. WriterPlace'
  BY <1>1, <1>2 DEF WriterInv, WriterPlace
<1>5. WriterData'
  <2> SUFFICES ASSUME ~broken'
               PROVE  /\ \A i \in 1 .. OnWire' : PlainOf(wire')[Len(wire')][i] = i
                      /\ given = OnWire' + 0 + Len(rest) + 0
    <3>1. InReadBuf' = 0 /\ wpc' # "second"
      BY <1>1 DEF InReadBuf
    <3>2. rest = <<>> /\ Len(rest) = 0
      BY <1>1, EmptySeq DEF WriterInv, WriterPlace
    <3> QED BY <1>1, <1>2, <3>1, <3>2 DEF WriterData
  <2>1. /\ OnWire \in Nat /\ pending \in Nat /\ Len(rest) \in Nat
    BY OnWireType, LenProperties DEF WriterInv, WriterType
  <2>2. given = OnWire + pending + Len(rest) + 0
    BY <1>1, <1>2 DEF WriterInv, WriterData, InReadBuf
  <2> QED BY <1>2, <2>1, <2>2
<1> QED BY <1>2, <1>3, <1>4, <1>5 DEF WriterInv

\* Flush, called by the timer at any step that does not hold the lock.
LEMMA FlushInv ==
    ASSUME WriterInv, NEW ok \in BOOLEAN, Flush(ok)
    PROVE  WriterInv' /\ WireGrows
<1>1. /\ ~locked /\ needFlush /\ flush(buf, pending, ok)
      /\ UNCHANGED <<locked, wpc, rest, from, read, err, needFlush, given>>
  BY DEF Flush, callVars
<1>2. /\ pending' = 0 /\ buf' \in [Cells -> Byte \cup {Junk}] /\ counter' \in Nat
      /\ wire' \in Seq(BlockType) /\ broken' \in BOOLEAN /\ WireInv' /\ WireGrows
      /\ \A i \in Cells : i > pending + Overhead => buf'[i] = buf[i]
      /\ ~broken' => /\ ~broken /\ ok /\ OnWire' = OnWire + pending
                     /\ \A i \in 1 .. OnWire' : PlainOf(wire')[Len(wire')][i] = i
  BY <1>1, FlushPending
<1>3. WriterType'
  <2>1. 0 \in 0 .. Mask
    BY SizesAssumption
  <2> QED BY <1>1, <1>2, <2>1 DEF WriterInv, WriterType
<1>4. /\ OnWire \in Nat /\ pending \in Nat /\ from \in Nat /\ read \in Nat
      /\ Mask \in Nat /\ Overhead \in Nat
  BY OnWireType, SizesAssumption DEF WriterInv, WriterType
<1>5. wpc \in {"idle", "first", "second"} /\ rest = <<>> /\ Len(rest) = 0
  BY <1>1, EmptySeq DEF WriterInv, WriterPlace, WriterType
<1>6. WriterPlace'
  BY <1>1, <1>2, <1>4 DEF WriterInv, WriterPlace
<1>7. WriterData'
  <2> SUFFICES ASSUME ~broken'
               PROVE  /\ wpc = "second" =>
                           \A i \in 1 .. read : buf'[from + i] = OnWire' + 0 + i
                      /\ given = OnWire' + 0 + Len(rest) + InReadBuf
    <3>1. InReadBuf' = InReadBuf
      BY <1>1 DEF InReadBuf
    <3> QED BY <1>1, <1>2, <1>5, <3>1 DEF WriterData
  <2>1. /\ wpc = "second" => \A i \in 1 .. read : buf[from + i] = OnWire + pending + i
        /\ given = OnWire + pending + Len(rest) + InReadBuf
    BY <1>1, <1>2 DEF WriterInv, WriterData
  <2>2. ASSUME wpc = "second", NEW i \in 1 .. read
        PROVE  buf'[from + i] = buf[from + i]
    <3>1. pending + Overhead <= from /\ from + read <= Mask + Overhead
      BY <2>2 DEF WriterInv, WriterPlace
    <3>2. from + i \in Cells /\ from + i > pending + Overhead
      BY <1>4, <3>1 DEF Cells
    <3> QED BY <1>2, <3>2
  <2>3. InReadBuf \in Nat
    BY <1>4 DEF InReadBuf
  <2>4. OnWire' = OnWire + pending
    BY <1>2
  <2>5. given = OnWire' + 0 + Len(rest) + InReadBuf
    BY <1>4, <1>5, <2>1, <2>3, <2>4
  <2>6. ASSUME wpc = "second", NEW i \in 1 .. read
        PROVE  buf'[from + i] = OnWire' + 0 + i
    <3>1. buf'[from + i] = OnWire + pending + i
      BY <2>1, <2>2, <2>6
    <3> QED BY <1>4, <2>4, <3>1
  <2> QED BY <2>5, <2>6
<1> QED BY <1>2, <1>3, <1>6, <1>7 DEF WriterInv

\* ReadFrom's first chunk: what it has read moves up behind what still waits.
LEMMA FlushFirstInv ==
    ASSUME WriterInv, NEW ok \in BOOLEAN, FlushFirst(ok)
    PROVE  WriterInv' /\ WireGrows
<1> DEFINE n == Least(Mask - pending, read)
           s == SubSeq(buf, from + 1, from + n)
           b == Put(buf, pending, s)
<1>1. /\ wpc = "second" /\ flush(b, pending + n, ok)
      /\ needFlush' = FALSE /\ wpc' \in {"loop", "idle"}
      /\ from' = 0 /\ read' = 0
      /\ UNCHANGED <<locked, rest, given>>
  BY DEF FlushFirst
<1>2. /\ OnWire \in Nat /\ pending \in Nat /\ from \in Nat /\ read \in Nat
      /\ Mask \in Nat /\ Overhead \in Nat /\ given \in 0 .. MaxBytes
      /\ pending + Overhead <= from /\ from + read <= Mask + Overhead
      /\ buf \in [Cells -> Byte \cup {Junk}] /\ rest = <<>> /\ Len(rest) = 0
  BY <1>1, OnWireType, EmptySeq, SizesAssumption DEF WriterInv, WriterType, WriterPlace
<1>3. n = read /\ pending + n \in 0 .. Mask
  BY <1>2 DEF Least
<1> HIDE DEF n
<1>4. \A i \in 1 .. n : from + i \in Cells /\ pending + i \in Cells
  BY <1>2, <1>3 DEF Cells
<1>5. /\ s \in Seq(Byte \cup {Junk}) /\ Len(s) = n
      /\ \A i \in 1 .. n : s[i] = buf[from + i]
  <2>1. \A i \in from + 1 .. from + n : buf[i] \in Byte \cup {Junk}
    <3>1. \A i \in from + 1 .. from + n : i \in Cells
      BY <1>2, <1>3 DEF Cells
    <3> QED BY <1>2, <3>1
  <2>2. from + 1 \in Int /\ from + n \in Int /\ (from + n) - (from + 1) + 1 = n
    BY <1>2, <1>3
  <2>3. /\ s \in Seq(Byte \cup {Junk})
        /\ Len(s) = IF from + 1 <= from + n THEN (from + n) - (from + 1) + 1 ELSE 0
        /\ \A i \in 1 .. (from + n) - (from + 1) + 1 : s[i] = buf[(from + 1) + i - 1]
    BY <2>1, <2>2, SubSeqProperties
  <2>4. \A i \in 1 .. n : (from + 1) + i - 1 = from + i
    BY <1>2, <1>3
  <2>5. Len(s) = n
    BY <1>2, <1>3, <2>3
  <2> QED BY <2>2, <2>3, <2>4, <2>5
<1> HIDE DEF s
<1>6. /\ b \in [Cells -> Byte \cup {Junk}]
      /\ \A i \in Cells : i <= pending => b[i] = buf[i]
      /\ \A i \in 1 .. Len(s) : pending + i \in Cells => b[pending + i] = s[i]
  <2>1. /\ s \in Seq(Byte \cup {Junk}) /\ pending \in Nat
        /\ buf \in [Cells -> Byte \cup {Junk}]
    BY <1>2, <1>5
  <2> QED BY ONLY <2>1, PutType DEF b
<1> HIDE DEF b
<1>7. ASSUME ~broken
      PROVE  /\ \A i \in 1 .. pending + n : b[i] = OnWire + i
             /\ given = OnWire + pending + n
  <2>1. /\ \A i \in 1 .. pending : buf[i] = OnWire + i
        /\ \A i \in 1 .. n : buf[from + i] = OnWire + pending + i
        /\ given = OnWire + pending + Len(rest) + n
    BY <1>1, <1>3, <1>7 DEF WriterInv, WriterData, InReadBuf
  <2>2. ASSUME NEW i \in 1 .. pending + n PROVE b[i] = OnWire + i
    <3>1. i \in Cells
      BY <1>2, <1>3 DEF Cells
    <3>2. CASE i <= pending
      BY <1>2, <1>6, <2>1, <3>1, <3>2
    <3>3. CASE ~ (i <= pending)
      <4>1. i - pending \in 1 .. n /\ pending + (i - pending) = i
        BY <1>2, <1>3, <3>3
      <4>2. b[i] = buf[from + (i - pending)]
        BY <1>5, <1>6, <3>1, <4>1
      <4>3. buf[from + (i - pending)] = OnWire + pending + (i - pending)
        BY <2>1, <4>1
      <4> QED BY <1>2, <1>3, <4>2, <4>3
    <3> QED BY <3>2, <3>3
  <2> QED BY <1>2, <1>3, <2>1, <2>2
<1>8. /\ pending' = 0 /\ buf' \in [Cells -> Byte \cup {Junk}] /\ counter' \in Nat
      /\ wire' \in Seq(BlockType) /\ broken' \in BOOLEAN /\ WireInv' /\ WireGrows
      /\ ~broken' => /\ ~broken /\ ok /\ OnWire' = OnWire + (pending + n)
                     /\ \A i \in 1 .. OnWire' : PlainOf(wire')[Len(wire')][i] = i
  <2>1. ~broken => OnWire + (pending + n) <= MaxBytes
    BY <1>2, <1>3, <1>7, MaxBytesAssumption
  <2> QED BY <1>1, <1>3, <1>6, <1>7, <2>1, FlushStep
<1>9. WriterType'
  <2>1. 0 \in 0 .. Mask /\ 0 \in 0 .. Mask + Overhead
    BY SizesAssumption
  <2> QED BY <1>1, <1>8, <2>1 DEF WriterInv, WriterType
<1>10. WriterPlace'
  BY <1>1, <1>8 DEF WriterInv, WriterPlace
<1>11. WriterData'
  <2> SUFFICES ASSUME ~broken'
               PROVE  given = OnWire' + 0 + Len(rest) + 0
    <3>1. InReadBuf' = 0 /\ wpc' # "second"
      BY <1>1 DEF InReadBuf
    <3> QED BY <1>1, <1>2, <1>8, <3>1 DEF WriterData
  <2> QED BY <1>2, <1>3, <1>7, <1>8
<1> QED BY <1>8, <1>9, <1>10, <1>11 DEF WriterInv

LEMMA NextWriterInv ==
    ASSUME WriterInv, WriterNext
    PROVE  WriterInv' /\ WireGrows
BY LazyWriteInv, QueueInv, ReadFromInv, ReadFirstInv, ReadLoopInv, FlushFullInv,
   FlushFirstInv, FlushLoopInv, FlushInv DEF WriterNext

-----------------------------------------------------------------------------
(* The reader keeps its part.                                              *)

LEMMA InitReaderInv == Init => ReaderInv
<1> SUFFICES ASSUME Init PROVE ReaderInv OBVIOUS
<1> USE DEF Init, Reader!ReaderInit, WriterInit
<1>1. ReaderType
  <2>1. 0 \in 0 .. 0 /\ Len(wire) = 0
    BY EmptySeq
  <2> QED BY <2>1, EmptySeq DEF ReaderType
<1>2. ReaderPlace
  BY DEF ReaderPlace
<1>3. ReaderData
  BY PlainOfRec DEF ReaderData
<1>4. DecryptsAll /\ CleanEof /\ BufferHeld
  BY DEF DecryptsAll, CleanEof, BufferHeld
<1> QED BY <1>1, <1>2, <1>3, <1>4 DEF ReaderInv

\* What the Writer adds to the stream does not concern the reader.
LEMMA OtherEndInv ==
    ASSUME WriterInv, ReaderInv, WireGrows, wire' \in Seq(BlockType), UNCHANGED otherEnd
    PROVE  ReaderInv'
<1> USE DEF ReaderInv, otherEnd
<1>1. Len(wire) \in Nat /\ Len(wire') \in Nat /\ Len(wire) <= Len(wire')
  BY LenProperties DEF WriterInv, WriterType, WireGrows
<1>2. ReaderType'
  BY <1>1 DEF ReaderType
<1>3. ReaderPlace' /\ (DecryptsAll /\ CleanEof /\ BufferHeld)'
  BY DEF ReaderPlace, DecryptsAll, CleanEof, BufferHeld
<1>4. ReaderData'
  <2>1. consumed \in 0 .. Len(wire)
    BY <1>1 DEF ReaderType
  <2>2. \A i \in 1 .. Len(wire) : wire[i] = wire'[i]
    BY DEF WireGrows
  <2>3. PlainOf(wire)[consumed] = PlainOf(wire')[consumed]
    BY ONLY <1>1, <2>1, <2>2, PlainOfLonger
  <2> QED BY <2>3 DEF ReaderData
<1> QED BY <1>2, <1>3, <1>4

\* The block the reader waits for is the one it expects.
LEMMA BlockIsExpected ==
    ASSUME WriterInv, ReaderInv, consumed < arrived
    PROVE  /\ consumed \in Nat /\ consumed + 1 \in 1 .. Len(wire)
           /\ rpc \in {"size", "payload"} =>
                Reader!Opens(rpc) /\ PayloadOf(wire, consumed + 1)
                  = IF rpc = "payload" THEN Reader!Block.val ELSE <<>>
           /\ rpc = "salt" => consumed = 0 /\ PayloadOf(wire, 1) = <<>>
<1> USE DEF ReaderInv, WriterInv
<1> DEFINE i == consumed + 1
<1>1. /\ Len(wire) \in Nat /\ DOMAIN wire = 1 .. Len(wire)
      /\ consumed \in Nat /\ i \in 1 .. Len(wire)
  BY LenProperties DEF WriterType, ReaderType
<1>2. /\ wire[i].kind = (IF i = 1 THEN "salt" ELSE IF i % 2 = 0 THEN "size" ELSE "payload")
      /\ i > 1 => wire[i].nonce = i - 2
  BY <1>1 DEF WireInv, WellFormed
<1>3. CASE rpc = "size"
  <2>1. aead /\ consumed > 0 /\ nonce = consumed - 1 /\ consumed % 2 = 1
    BY <1>3 DEF ReaderPlace, ReaderType
  <2>2. i % 2 = 0 /\ i > 1 /\ i # 1 /\ i - 2 = consumed - 1
    BY <1>1, <2>1
  <2>3. wire[i].kind = "size" /\ wire[i].nonce = nonce
    BY <1>2, <2>1, <2>2
  <2> QED BY <1>1, <1>3, <2>3 DEF Reader!Opens, Reader!Block, PayloadOf
<1>4. CASE rpc = "payload"
  <2>1. aead /\ consumed > 0 /\ nonce = consumed - 1 /\ consumed % 2 = 0
    BY <1>4 DEF ReaderPlace, ReaderType
  <2>2. i % 2 # 0 /\ i > 1 /\ i # 1 /\ i - 2 = consumed - 1
    BY <1>1, <2>1
  <2>3. wire[i].kind = "payload" /\ wire[i].nonce = nonce
    BY <1>2, <2>1, <2>2
  <2> QED BY <1>1, <1>4, <2>3 DEF Reader!Opens, Reader!Block, PayloadOf
<1>5. CASE rpc = "salt"
  <2>1. consumed = 0
    BY <1>5 DEF ReaderPlace, ReaderType
  <2>2. i = 1 /\ wire[1].kind = "salt"
    BY <1>2, <2>1
  <2> QED BY <1>1, <1>5, <2>1, <2>2 DEF PayloadOf
<1> QED BY <1>1, <1>3, <1>4, <1>5

\* A step of the network.
LEMMA NetInv ==
    ASSUME WriterInv, ReaderInv,
           Reader!Deliver \/ \E how \in {"eof", "cut", "error", "damaged"} : Reader!EndStream(how)
    PROVE  ReaderInv'
<1> USE DEF ReaderInv
<1>1. /\ ending = "open" /\ UNCHANGED <<wire, rpc, consumed, aead, nonce, acquired,
                                        leftover, out, result>>
      /\ arrived' = arrived \/ (arrived < Len(wire) /\ arrived' = arrived + 1)
  BY DEF Reader!Deliver, Reader!EndStream, Reader!readerVars
<1>2. Len(wire) \in Nat
  BY LenProperties DEF WriterInv, WriterType
<1>3. arrived' \in 0 .. Len(wire) /\ consumed \in 0 .. arrived'
  BY <1>1, <1>2 DEF ReaderType
<1>4. ReaderType'
  BY <1>1, <1>3 DEF ReaderType
<1>5. ReaderPlace' /\ ReaderData' /\ BufferHeld'
  BY <1>1 DEF ReaderPlace, ReaderData, BufferHeld
<1>6. DecryptsAll' /\ CleanEof'
  BY <1>1 DEF DecryptsAll, CleanEof
<1> QED BY <1>4, <1>5, <1>6

\* ReadChunk begins when nothing is left of the chunk before.
LEMMA EnsureLeftoverInv ==
    ASSUME WriterInv, ReaderInv, Reader!ensureLeftover
    PROVE  ReaderInv'
<1> USE DEF ReaderInv
<1>1. /\ rpc = "idle" /\ leftover = <<>>
      /\ \/ aead /\ rpc' = "size" /\ acquired' = FALSE
         \/ ~aead /\ rpc' = "salt" /\ acquired' = acquired
      /\ UNCHANGED <<wire, arrived, ending, consumed, aead, nonce, leftover, out, result>>
  BY DEF Reader!ensureLeftover, Reader!netVars
<1>2. ReaderType'
  BY <1>1 DEF ReaderType
<1>3. ReaderPlace'
  BY <1>1 DEF ReaderPlace, ReaderType
<1>4. ReaderData' /\ DecryptsAll' /\ CleanEof'
  BY <1>1 DEF ReaderData, DecryptsAll, CleanEof
<1>5. BufferHeld'
  BY <1>1 DEF BufferHeld
<1> QED BY <1>2, <1>3, <1>4, <1>5

\* The next block opens and is the one that was sealed with this nonce.
LEMMA ReadBlockInv ==
    ASSUME WriterInv, ReaderInv, Reader!ReadSalt \/ Reader!ReadSize \/ Reader!ReadPayload
    PROVE  ReaderInv'
<1> USE DEF ReaderInv
<1>1. /\ consumed < arrived /\ consumed' = consumed + 1
      /\ UNCHANGED <<wire, arrived, ending, out, result>>
      /\ \/ rpc = "salt" /\ aead' = TRUE /\ nonce' = 0 /\ rpc' = "size"
            /\ acquired' = acquired /\ leftover' = leftover
         \/ rpc = "size" /\ nonce' = nonce + 1 /\ acquired' = TRUE /\ rpc' = "payload"
            /\ aead' = aead /\ leftover' = leftover
         \/ rpc = "payload" /\ nonce' = nonce + 1 /\ leftover' = Reader!Block.val
            /\ rpc' = "idle" /\ acquired' = acquired /\ aead' = aead
  BY DEF Reader!ReadSalt, Reader!ReadSize, Reader!ReadPayload, Reader!Available,
         Reader!netVars, Reader!StillAcquired
<1>2. /\ consumed \in Nat /\ consumed + 1 \in 1 .. Len(wire)
      /\ rpc \in {"size", "payload"} => PayloadOf(wire, consumed + 1)
                  = IF rpc = "payload" THEN Reader!Block.val ELSE <<>>
      /\ rpc = "salt" => consumed = 0 /\ PayloadOf(wire, 1) = <<>>
  BY <1>1, BlockIsExpected
<1>3. wire \in Seq(BlockType) /\ Len(wire) \in Nat
  BY LenProperties DEF WriterInv, WriterType
<1>4. leftover = <<>> /\ out \in Seq(Byte) /\ out = PlainOf(wire)[consumed]
  <2>1. leftover = <<>> /\ out \in Seq(Byte)
    BY <1>1 DEF ReaderPlace, ReaderType
  <2> QED BY <2>1, ConcatEmptySeq DEF ReaderData
<1>5. PayloadOf(wire, consumed + 1) \in Seq(Byte) /\ leftover' = PayloadOf(wire, consumed + 1)
  <2>1. leftover' = PayloadOf(wire, consumed + 1)
    BY <1>1, <1>2, <1>4
  <2> QED BY <1>2, <1>3, <2>1, PayloadType
<1>6. ReaderData'
  <2>1. consumed + 1 \in Nat \ {0} /\ (consumed + 1) - 1 = consumed
    BY <1>2
  <2>2. PlainOf(wire)[consumed + 1] = PlainOf(wire)[consumed] \o PayloadOf(wire, consumed + 1)
    BY <2>1, PlainOfRec
  <2> QED BY <1>1, <1>4, <1>5, <2>2 DEF ReaderData
<1>7. ReaderType'
  <2>1. consumed' \in 0 .. arrived /\ arrived \in Nat
    BY <1>1, <1>2, <1>3 DEF ReaderType
  <2>2. nonce' \in Nat
    BY <1>1 DEF ReaderType
  <2>3. aead' \in BOOLEAN /\ acquired' \in BOOLEAN
    BY <1>1, Zenon DEF ReaderType
  <2>4. rpc' \in {"idle", "salt", "size", "payload", "ended"}
    BY <1>1
  <2> QED BY <1>1, <1>5, <2>1, <2>2, <2>3, <2>4 DEF ReaderType
<1>8. ReaderPlace'
  <2>1. result = "none"
    BY <1>1 DEF ReaderPlace
  <2>2. CASE rpc = "salt"
    <3>1. consumed' = 1 /\ 1 % 2 = 1
      BY <1>1, <1>2, <2>2
    <3> QED BY <1>1, <1>4, <2>1, <2>2, <3>1 DEF ReaderPlace
  <2>3. CASE rpc = "size"
    <3>1. aead /\ consumed % 2 = 1 /\ nonce = consumed - 1 /\ consumed > 0
      BY <2>3 DEF ReaderPlace, ReaderType
    <3>2. consumed' % 2 = 0 /\ consumed' > 0 /\ nonce' = consumed' - 1
      <4>1. consumed' = consumed + 1 /\ nonce' = nonce + 1
        BY <1>1, <2>3
      <4>2. (consumed + 1) % 2 = 0
        BY ONLY <1>2, <3>1
      <4> QED BY <1>2, <3>1, <4>1, <4>2
    <3> QED BY <1>1, <1>4, <2>1, <2>3, <3>1, <3>2 DEF ReaderPlace
  <2>4. CASE rpc = "payload"
    <3>1. aead /\ consumed % 2 = 0 /\ nonce = consumed - 1 /\ consumed > 0
      BY <2>4 DEF ReaderPlace, ReaderType
    <3>2. consumed' % 2 = 1 /\ consumed' > 0 /\ nonce' = consumed' - 1
      BY <1>1, <1>2, <2>4, <3>1
    <3> QED BY <1>1, <2>1, <2>4, <3>1, <3>2 DEF ReaderPlace
  <2> QED BY <1>1, <2>2, <2>3, <2>4
<1>9. BufferHeld'
  BY <1>1, <1>4 DEF BufferHeld, ReaderPlace, ReaderType
<1>10. DecryptsAll' /\ CleanEof'
  <2>1. result' = "none"
    BY <1>1 DEF ReaderPlace
  <2> QED BY <2>1 DEF DecryptsAll, CleanEof
<1> QED BY <1>6, <1>7, <1>8, <1>9, <1>10

\* The stream ends, fails, or brings a damaged block.
LEMMA ReadFailsInv ==
    ASSUME WriterInv, ReaderInv, Reader!ReadFails
    PROVE  ReaderInv'
<1> USE DEF ReaderInv
<1>1. /\ rpc \in {"salt", "size", "payload"}
      /\ Reader!DecryptFails \/ (~Reader!Available /\ ending # "open")
      /\ result' = Reader!ReadError
      /\ acquired' = (acquired /\ rpc # "payload") /\ rpc' = "ended"
      /\ UNCHANGED <<wire, arrived, ending, consumed, aead, nonce, leftover, out>>
  BY DEF Reader!ReadFails, Reader!netVars
<1>2. Reader!DecryptFails => ending = "damaged" /\ ~Reader!Available
  BY BlockIsExpected DEF Reader!DecryptFails, Reader!Available
<1>3. ReaderType'
  BY <1>1 DEF ReaderType
<1>4. ReaderPlace'
  BY <1>1 DEF ReaderPlace, ReaderType
<1>5. ReaderData'
  BY <1>1 DEF ReaderData
<1>6. DecryptsAll'
  BY <1>1, <1>2 DEF DecryptsAll, Reader!ReadError
<1>7. CleanEof'
  <2> SUFFICES ASSUME result' = "EOF"
               PROVE  ending = "eof" /\ (consumed = 0 \/ consumed % 2 = 1)
    BY <1>1 DEF CleanEof
  <2>1. ending = "eof" /\ rpc # "payload"
    BY <1>1 DEF Reader!ReadError, Reader!MidChunk
  <2> QED BY <1>1, <2>1 DEF ReaderPlace, ReaderType
<1>8. BufferHeld'
  BY <1>1 DEF BufferHeld, ReaderPlace
<1> QED BY <1>3, <1>4, <1>5, <1>6, <1>7, <1>8

\* Read hands out some of what is left.
LEMMA ReadInv ==
    ASSUME WriterInv, ReaderInv, NEW n \in 1 .. Mask, Reader!Read(n)
    PROVE  ReaderInv'
<1> USE DEF ReaderInv
<1>1. /\ rpc = "idle" /\ leftover # <<>> /\ n <= Len(leftover)
      /\ out' = out \o SubSeq(leftover, 1, n)
      /\ leftover' = SubSeq(leftover, n + 1, Len(leftover))
      /\ UNCHANGED <<wire, arrived, ending, rpc, consumed, aead, nonce, acquired, result>>
  BY DEF Reader!Read, Reader!netVars
<1>2. leftover \in Seq(Byte) /\ out \in Seq(Byte) /\ Len(leftover) \in Nat /\ n \in Nat
  BY LenProperties DEF ReaderType
<1>3. SubSeq(leftover, 1, n) \o SubSeq(leftover, n + 1, Len(leftover)) = leftover
  <2>1. 1 \in 1 .. Len(leftover) + 1 /\ n \in (1 - 1) .. Len(leftover)
        /\ Len(leftover) \in n .. Len(leftover)
    BY <1>1, <1>2
  <2>2. SubSeq(leftover, 1, n) \o SubSeq(leftover, n + 1, Len(leftover))
          = SubSeq(leftover, 1, Len(leftover))
    BY <1>2, <2>1, ConcatAdjacentSubSeq
  <2> QED BY <1>2, <2>2, SubSeqFull
<1>4. /\ SubSeq(leftover, 1, n) \in Seq(Byte)
      /\ SubSeq(leftover, n + 1, Len(leftover)) \in Seq(Byte)
  <2>1. \A i \in 1 .. Len(leftover) : leftover[i] \in Byte
    BY <1>2, ElementOfSeq
  <2>2. \A i \in 1 .. n : leftover[i] \in Byte
    BY <1>1, <1>2, <2>1
  <2>3. \A i \in n + 1 .. Len(leftover) : leftover[i] \in Byte
    BY <1>1, <1>2, <2>1
  <2>4. n \in Int /\ n + 1 \in Int /\ Len(leftover) \in Int
    BY <1>2
  <2> QED BY <2>2, <2>3, <2>4, SubSeqProperties
<1>5. out' \o leftover' = out \o leftover
  <2> DEFINE s == SubSeq(leftover, 1, n)
             t == SubSeq(leftover, n + 1, Len(leftover))
  <2>1. s \in Seq(Byte) /\ t \in Seq(Byte) /\ s \o t = leftover
    BY <1>3, <1>4
  <2>2. out' = out \o s /\ leftover' = t
    BY <1>1
  <2> HIDE DEF s, t
  <2>3. (out \o s) \o t = out \o (s \o t)
    <3>1. out \in Seq(Byte) /\ s \in Seq(Byte) /\ t \in Seq(Byte)
      BY <1>2, <2>1
    <3> QED BY ONLY <3>1
  <2> QED BY <2>1, <2>2, <2>3
<1>6. out' \in Seq(Byte) /\ leftover' \in Seq(Byte)
  BY <1>1, <1>2, <1>4, ConcatProperties
<1>7. ReaderType'
  BY <1>1, <1>6 DEF ReaderType
<1>8. ReaderPlace'
  BY <1>1 DEF ReaderPlace
<1>9. ReaderData'
  BY <1>1, <1>5 DEF ReaderData
<1>10. DecryptsAll' /\ CleanEof' /\ BufferHeld'
  BY <1>1 DEF DecryptsAll, CleanEof, BufferHeld
<1> QED BY <1>7, <1>8, <1>9, <1>10

-----------------------------------------------------------------------------

LEMMA InitIInv == Init => IInv
BY InitWriterInv, InitReaderInv DEF Init, IInv

LEMMA NextIInv == IInv /\ [Next]_vars => IInv'
<1> SUFFICES ASSUME WriterInv, ReaderInv, [Next]_vars PROVE WriterInv' /\ ReaderInv'
  BY DEF IInv
<1>1. CASE WriterNext /\ UNCHANGED otherEnd
  <2>1. WriterInv' /\ WireGrows
    BY <1>1, NextWriterInv
  <2>2. wire' \in Seq(BlockType)
    BY <2>1 DEF WriterInv, WriterType
  <2> QED BY <1>1, <2>1, <2>2, OtherEndInv
<1>2. CASE ReaderNext /\ UNCHANGED writerVars
  <2>1. WriterInv'
    BY <1>2 DEF writerVars, WriterInv, WriterType, WriterPlace, WireInv, WriterData,
                OnWire, InReadBuf
  <2>2. ReaderInv'
    BY <1>2, NetInv, EnsureLeftoverInv, ReadBlockInv, ReadFailsInv, ReadInv
       DEF ReaderNext, Reader!ReaderStep
  <2> QED BY <2>1, <2>2
<1>3. CASE UNCHANGED vars
  <2>1. UNCHANGED writerVars /\ UNCHANGED otherEnd
    BY <1>3 DEF vars
  <2>2. WriterInv'
    BY <2>1 DEF writerVars, WriterInv, WriterType, WriterPlace, WireInv, WriterData,
                OnWire, InReadBuf
  <2>3. WireGrows /\ wire' \in Seq(BlockType)
    <3>1. Len(wire) \in Nat /\ wire \in Seq(BlockType)
      BY LenProperties DEF WriterInv, WriterType
    <3> QED BY <2>1, <3>1 DEF writerVars, WireGrows
  <2> QED BY <2>1, <2>2, <2>3, OtherEndInv
<1> QED BY <1>1, <1>2, <1>3 DEF Next

\* Writer, network and reader keep IInv.
THEOREM Invariant == Spec => []IInv
BY InitIInv, NextIInv, PTL DEF Spec

\* The type invariant of both ends of the stream.
THEOREM TypeCorrect == Spec => []TypeOK
<1>1. IInv => TypeOK
  BY DEF IInv, WriterInv, WriterType, ReaderInv, ReaderType, TypeOK
<1> QED BY <1>1, Invariant, PTL

\* For every payload size, tag size and length of the stream: no nonce seals two
\* messages, and the salt comes once and first, whatever the timer interrupts.
THEOREM NoncesAreFresh == Spec => []NonceOnce
<1>1. IInv => NonceOnce
  BY DEF IInv, WriterInv, WireInv, WellFormed, NonceOnce
<1> QED BY <1>1, Invariant, PTL

\* A stream that ends within a chunk is never taken for one that is complete.
THEOREM EofIsClean == Spec => []CleanEof
<1>1. IInv => CleanEof
  BY DEF IInv, ReaderInv
<1> QED BY <1>1, Invariant, PTL

\* The pooled slice is held as long as a byte of it has to be handed out, and no
\* second one is acquired.
THEOREM BufferIsHeld == Spec => []BufferHeld
<1>1. IInv => BufferHeld
  BY DEF IInv, ReaderInv
<1> QED BY <1>1, Invariant, PTL

\* Sequences of consecutive numbers.
Counts(s, k, n) == s \in Seq(Byte) /\ Len(s) = n /\ \A i \in 1 .. n : s[i] = k + i

LEMMA CountsOn ==
    ASSUME NEW s, NEW t, NEW k \in Nat, NEW m \in Nat, NEW n \in Nat,
           Counts(s, k, m), Counts(t, k + m, n)
    PROVE  Counts(s \o t, k, m + n)
<1>1. /\ s \o t \in Seq(Byte) /\ Len(s \o t) = m + n
      /\ \A i \in 1 .. m + n : (s \o t)[i] = IF i <= m THEN s[i] ELSE t[i - m]
  <2>1. s \in Seq(Byte) /\ t \in Seq(Byte) /\ Len(s) = m /\ Len(t) = n
    BY DEF Counts
  <2> QED BY ONLY <2>1, ConcatProperties
<1>2. ASSUME NEW i \in 1 .. m + n PROVE (s \o t)[i] = k + i
  <2>1. CASE i <= m
    BY <1>1, <2>1 DEF Counts
  <2>2. CASE ~ (i <= m)
    <3>1. i - m \in 1 .. n
      BY <2>2
    <3>2. t[i - m] = (k + m) + (i - m)
      BY <3>1 DEF Counts
    <3> QED BY <1>1, <2>2, <3>2
  <2> QED BY <2>1, <2>2
<1> QED BY <1>1, <1>2 DEF Counts

\* Writer's shared buffer: for every interleaving of the timer's Flush with
\* LazyWrite, Write and ReadFrom, what is on the wire and what is held are the
\* bytes the callers gave, in their order.
THEOREM WriterLosesNothing == Spec => []NothingLost
<1>1. IInv => NothingLost
  <2> SUFFICES ASSUME IInv, ~broken
               PROVE  Plain[Len(wire)] \o Held = [i \in 1 .. given |-> i]
    BY DEF NothingLost
  <2> USE DEF IInv, WriterInv
  <2> DEFINE p == PlainOf(wire)[Len(wire)]
             q == SubSeq(buf, 1, pending)
             r == IF wpc = "second" THEN SubSeq(buf, from + 1, from + read) ELSE <<>>
  <2>1. /\ \A i \in 1 .. OnWire : p[i] = i
        /\ \A i \in 1 .. pending : buf[i] = OnWire + i
        /\ \A i \in 1 .. Len(rest) : rest[i] = OnWire + pending + i
        /\ wpc = "second" => \A i \in 1 .. read : buf[from + i] = OnWire + pending + i
        /\ given = OnWire + pending + Len(rest) + InReadBuf
    BY DEF WriterData
  <2>2. /\ p \in Seq(Byte) /\ Len(p) = OnWire /\ OnWire \in Nat
        /\ pending \in Nat /\ rest \in Seq(Byte) /\ Len(rest) \in Nat
        /\ InReadBuf \in Nat /\ read \in Nat /\ from \in Nat /\ given <= MaxBytes
    BY OnWireType, LenProperties, MaxBytesAssumption DEF OnWire, WriterType, InReadBuf
  <2>3. q \in Seq(Byte) /\ Len(q) = pending /\ \A i \in 1 .. pending : q[i] = OnWire + i
    <3>1. \A i \in 1 .. pending : buf[i] \in Byte
      BY <2>1, <2>2, MaxBytesAssumption DEF Byte
    <3>2. /\ q \in Seq(Byte)
          /\ Len(q) = IF 1 <= pending THEN pending - 1 + 1 ELSE 0
          /\ \A i \in 1 .. pending - 1 + 1 : q[i] = buf[1 + i - 1]
      BY <2>2, <3>1, SubSeqProperties
    <3>3. \A i \in 1 .. pending : 1 + i - 1 = i
      BY <2>2
    <3>4. pending - 1 + 1 = pending
      BY <2>2
    <3> QED BY <2>1, <2>2, <3>2, <3>3, <3>4
  <2>4. /\ r \in Seq(Byte) /\ Len(r) = InReadBuf
        /\ \A i \in 1 .. InReadBuf : r[i] = OnWire + pending + i
    <3>1. CASE wpc = "second"
      <4> DEFINE m == from + 1
                 n == from + read
      <4>1. InReadBuf = read /\ rest = <<>> /\ Len(rest) = 0
        BY <3>1, EmptySeq DEF InReadBuf, WriterPlace
      <4>2. \A i \in m .. n : buf[i] \in Byte
        <5> SUFFICES ASSUME NEW i \in m .. n PROVE buf[i] \in Byte OBVIOUS
        <5>1. i - from \in 1 .. read /\ from + (i - from) = i
          BY <2>2
        <5>2. buf[i] = OnWire + pending + (i - from)
          BY <2>1, <3>1, <5>1
        <5> QED BY <2>1, <2>2, <4>1, <5>1, <5>2, MaxBytesAssumption DEF Byte
      <4>3. m \in Int /\ n \in Int /\ n - m + 1 = read
        BY <2>2
      <4>4. /\ SubSeq(buf, m, n) \in Seq(Byte)
            /\ Len(SubSeq(buf, m, n)) = IF m <= n THEN n - m + 1 ELSE 0
            /\ \A i \in 1 .. n - m + 1 : SubSeq(buf, m, n)[i] = buf[m + i - 1]
        <5> HIDE DEF m, n
        <5> QED BY <4>2, <4>3, SubSeqProperties
      <4>5. Len(SubSeq(buf, m, n)) = read
        BY <2>2, <4>4
      <4>6. \A i \in 1 .. read : m + i - 1 = from + i
        BY <2>2
      <4>7. r = SubSeq(buf, m, n)
        BY <3>1
      <4> HIDE DEF r, m, n
      <4> QED BY <2>1, <3>1, <4>1, <4>3, <4>4, <4>5, <4>6, <4>7
    <3>2. CASE wpc # "second"
      BY <3>2, EmptySeq DEF InReadBuf
    <3> QED BY <3>1, <3>2
  <2>5. Plain[Len(wire)] = p /\ Held = (q \o rest) \o r
    BY PlainIsPlainOf DEF Held
  <2> HIDE DEF p, q, r
  <2>6. /\ Counts(p, 0, OnWire) /\ Counts(q, OnWire, pending)
        /\ Counts(rest, OnWire + pending, Len(rest))
        /\ Counts(r, OnWire + (pending + Len(rest)), InReadBuf)
    <3>1. Counts(p, 0, OnWire)
      BY <2>1, <2>2 DEF Counts
    <3>2. Counts(q, OnWire, pending) /\ Counts(rest, OnWire + pending, Len(rest))
      BY <2>1, <2>2, <2>3 DEF Counts
    <3>3. InReadBuf # 0 => Len(rest) = 0
      BY EmptySeq DEF InReadBuf, WriterPlace
    <3>4. Counts(r, OnWire + (pending + Len(rest)), InReadBuf)
      <4>1. CASE InReadBuf = 0
        BY <2>4, <4>1 DEF Counts
      <4>2. CASE InReadBuf # 0
        <5>1. OnWire + (pending + Len(rest)) = OnWire + pending
          BY <2>2, <3>3, <4>2
        <5> QED BY <2>4, <5>1 DEF Counts
      <4> QED BY <4>1, <4>2
    <3> QED BY <3>1, <3>2, <3>4
  <2>7. Counts(q \o rest, OnWire, pending + Len(rest))
    BY <2>2, <2>6, CountsOn
  <2>8. Counts((q \o rest) \o r, OnWire, (pending + Len(rest)) + InReadBuf)
    BY <2>2, <2>6, <2>7, CountsOn
  <2>9. Counts(p \o ((q \o rest) \o r), 0, given)
    <3>1. OnWire = 0 + OnWire /\ given = OnWire + ((pending + Len(rest)) + InReadBuf)
      BY <2>1, <2>2
    <3>2. (pending + Len(rest)) + InReadBuf \in Nat
      BY <2>2
    <3> QED BY <2>2, <2>6, <2>8, <3>1, <3>2, CountsOn
  <2>10. p \o ((q \o rest) \o r) = [i \in 1 .. given |-> i]
    <3> DEFINE f == p \o ((q \o rest) \o r)
    <3>1. f \in Seq(Byte) /\ Len(f) = given /\ \A i \in 1 .. given : f[i] = 0 + i
      BY <2>9 DEF Counts
    <3> HIDE DEF f
    <3>2. f \in [1 .. given -> Byte]
      BY <3>1, LenProperties
    <3>3. \A i \in 1 .. given : f[i] = i
      BY <3>1
    <3> QED BY <3>2, <3>3 DEF f
  <2> QED BY <2>5, <2>10
<1> QED BY <1>1, Invariant, PTL

\* What the reader hands out is what the writers gave, from the first byte on; a
\* chunk that does not decrypt was damaged on the way.
THEOREM ReaderGetsWhatWasGiven == Spec => []ReadsWhatWasWritten
<1>1. IInv => ReadsWhatWasWritten
  <2> SUFFICES ASSUME IInv PROVE ReadsWhatWasWritten OBVIOUS
  <2> USE DEF IInv, WriterInv, ReaderInv
  <2> DEFINE s == out \o leftover
             t == PlainOf(wire)[Len(wire)]
  <2>1. wire \in Seq(BlockType) /\ Len(wire) \in Nat /\ consumed \in 0 .. Len(wire)
    BY LenProperties DEF WriterType, ReaderType
  <2>2. Len(wire) \in consumed .. Len(wire) /\ Len(wire) \in 0 .. Len(wire)
    BY <2>1
  <2>3. s = PlainOf(wire)[consumed]
    BY DEF ReaderData
  <2>4. Starts(s, t) /\ s \in Seq(Byte) /\ t \in Seq(Byte)
    BY <2>1, <2>2, <2>3, PlainGrows, PlainType
  <2> HIDE DEF s, t
  <2>5. s = SubSeq(t, 1, Len(s))
    <3>1. Len(s) \in Nat /\ Len(t) \in Nat /\ Len(s) <= Len(t)
          /\ \A i \in 1 .. Len(s) : t[i] = s[i]
      BY <2>4, LenProperties DEF Starts
    <3>2. \A i \in 1 .. Len(s) : t[i] \in Byte
      BY <2>4, <3>1, ElementOfSeq
    <3>3. /\ SubSeq(t, 1, Len(s)) \in Seq(Byte)
          /\ Len(SubSeq(t, 1, Len(s))) = IF 1 <= Len(s) THEN Len(s) - 1 + 1 ELSE 0
          /\ \A i \in 1 .. Len(s) - 1 + 1 : SubSeq(t, 1, Len(s))[i] = t[1 + i - 1]
      BY <3>1, <3>2, SubSeqProperties
    <3>4. Len(s) - 1 + 1 = Len(s) /\ \A i \in 1 .. Len(s) : 1 + i - 1 = i
      BY <3>1
    <3>5. Len(SubSeq(t, 1, Len(s))) = Len(s)
      BY <3>1, <3>3
    <3>6. \A i \in 1 .. Len(s) : s[i] = SubSeq(t, 1, Len(s))[i]
      BY <3>1, <3>3, <3>4
    <3> QED BY <2>4, <3>3, <3>5, <3>6, SeqEqual
  <2> QED BY <2>5, PlainIsPlainOf DEF s, t, ReadsWhatWasWritten, DecryptsAll
<1> QED BY <1>1, Invariant, PTL

=============================================================================
