CONSTANTS
    Client = {c1, c2}
    Stopper = {t1}
    NoClient = NoClient
    DnsTimeout = 1
    NatTimeout = 2
    MaxEntries = 2
    MaxTime = 2

CHECK_DEADLOCK FALSE
SPECIFICATION FairSpec

INVARIANTS
    MapMatchesCopiers
    GracefulStopCleansUp

PROPERTIES
    NoEarlyExpiry
    GracefulStopReturns
    EntriesExpire
