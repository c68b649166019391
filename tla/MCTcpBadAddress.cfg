CONSTANTS
    Conn = {c1}
    k1 = k1
    s1 = s1
    s2 = s2
    a = a
    Key = {k1}
    Salt = {s1}
    ServerSalts = {}
    Garbage = Garbage
    Hash <- Handshake
    HashOf <- MCHashOf
    Capacity = 1
    IP = {a}
    NoIP = NoIP
    ClientIP <- MCClientIP
    MaxUpdates = 1
    MaxChunks = 1
    None = None

CHECK_DEADLOCK FALSE
SPECIFICATION FairSpec

PROPERTY BadAddressTimesOut
