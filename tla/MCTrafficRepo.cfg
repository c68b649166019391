CONSTANTS
    e1 = e1
    e2 = e2
    e3 = e3
    a1 = a1
    a2 = a2
    a3 = a3
    u1 = u1
    u2 = u2
    Call = {e1, e2, e3, a1, a2, a3}
    Earlier <- MCEarlier
    Spare = 1
    Word = {id, amount}
    UID = {u1, u2}
    NoUID = NoUID
    Traffic <- MCTraffic
    RetryCount = 3
    Nil = Nil

CHECK_DEADLOCK FALSE
SPECIFICATION FairSpec

INVARIANTS
    NothingInvented
    NoLossWithoutRace
    NoDoubleBilling

PROPERTY EventuallyReported
