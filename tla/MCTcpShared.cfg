CONSTANTS
    Conn = {c1, c2}
    k1 = k1
    s1 = s1
    s2 = s2
    a = a
    Key = {k1, k2}
    Salt = {s1, s2}
    ServerSalts <- MCServerSalts
    Garbage = Garbage
    Hash <- Handshake
    HashOf <- MCHashOf
    Capacity = 1
    IP = {a}
    NoIP = NoIP
    ClientIP <- MCClientIP
    MaxUpdates = 1
    MaxChunks = 0
    None = None

CHECK_DEADLOCK FALSE
SYMMETRY Symmetry
SPECIFICATION Spec

INVARIANTS
    NoReplay
    SilentClose
    JudgedByOfferedKeys
