CONSTANTS
    k1 = k1
    k2 = k2
    k3 = k3
    k4 = k4
    p1 = p1
    p2 = p2
    Key = {k1, k2, k3, k4}
    Port = {p1, p2}
    PortOf <- MCPortOf
    BadCipher = {k4}
    LostRows = TRUE

SPECIFICATION Spec

SYMMETRY Symmetry

INVARIANTS
    RunApplied
    NoHalfAppliedKeys
    SocketsMatchPorts

PROPERTY KeptPortsStay
