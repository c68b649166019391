CONSTANTS
    Server = {v1, v2}
    Stopper = {t1, t2}
    Conn = {c1, c2}
    None = None

CHECK_DEADLOCK FALSE
SPECIFICATION FairSpec

INVARIANTS
    ListenerClosedBeforeReturn
    GracefulStopCleansUp

PROPERTIES
    NoAddDuringWait
    GracefulStopReturns
