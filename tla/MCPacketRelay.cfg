CONSTANTS
    p1 = p1
    w1 = w1
    w2 = w2
    r1 = r1
    fitting = fitting
    long = long
    private = private
    answer = answer
    largeAnswer = largeAnswer
    hugeAnswer = hugeAnswer
    zoned = zoned
    Addr = {p1}
    CipherOf <- MCCipherOf
    Keys <- MCKeys
    Writer = {w1, w2}
    Reader = {r1}
    AddrOf <- MCAddrOf
    Slice = {b1, b2, b3}
    Nil = Nil
    Damaged = Damaged
    Message = {fitting, long, private}
    Answer = {answer, largeAnswer, hugeAnswer, zoned}
    Shape <- MCShape
    AppBuf <- MCAppBuf

CHECK_DEADLOCK FALSE
SYMMETRY Symmetry
SPECIFICATION Spec

INVARIANTS
    SlicesAreExclusive
    BilledToSender
    RefusedForAReason

PROPERTY RefinesDatagrams
