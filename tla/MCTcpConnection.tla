--------------------------- MODULE MCTcpConnection ---------------------------
(***************************************************************************)
(* Instances of TcpConnection.  All clients come from one address.         *)
(***************************************************************************)
EXTENDS TcpConnection, TLC

CONSTANTS k1, s1, s2, a

MCClientIP == [c \in Conn |-> a]
MCServerSalts == {<<k1, s2>>}
MCHashOf == [h \in Handshake |-> h]

Symmetry == Permutations(Conn)

=============================================================================
