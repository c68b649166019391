CONSTANTS
    Conn = {c1}
    k1 = k1
    s1 = s1
    s2 = s2
    a = a
    Key = {k1, k2}
    Salt = {s1, s2}
    ServerSalts <- MCServerSalts
    Garbage = Garbage
    Hash <- Handshake
    HashOf <- MCHashOf
    Capacity = 0
    IP = {a}
    NoIP = NoIP
    ClientIP <- MCClientIP
    MaxUpdates = 2
    MaxChunks = 2
    None = None

CHECK_DEADLOCK FALSE
SPECIFICATION FairSpec

INVARIANTS
    NothingLeftBehind
    FinAfterDrain
    MetersAgree

PROPERTIES
    AuthenticationEnds
    
