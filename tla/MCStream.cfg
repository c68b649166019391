CONSTANTS
    Mask = 3
    Overhead = 1
    Junk = Junk
    MaxBytes = 4

CHECK_DEADLOCK FALSE
SPECIFICATION FairSpec

INVARIANTS
    NothingLost
    NonceOnce
    ReadsWhatWasWritten
    CleanEof
    BufferHeld

PROPERTIES
    LazyWritesAreSent
