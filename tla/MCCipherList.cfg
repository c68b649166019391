CONSTANTS
    Key = {k1, k2, k3}
    IP = {a}
    NoIP = NoIP
    User = {u1, u2}
    MaxUpdates = 2

SYMMETRY Symmetry

SPECIFICATION Spec

INVARIANTS
    ListIsInstalled
    RecencyOrder
