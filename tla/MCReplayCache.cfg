CONSTANTS
    h1 = h1
    h2 = h2
    h3 = h3
    h4 = h4
    h5 = h5
    Handshake <- MCHandshake
    Hash <- MCHash
    HashOf <- MCHashOf
    Capacity = 2

SPECIFICATION CacheSpec

INVARIANTS
    Bounded
    Remembers

PROPERTY RefinesMemory
