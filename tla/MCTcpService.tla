---------------------------- MODULE MCTcpService ----------------------------
(***************************************************************************)
(* Two callers of Serve, two of Stop or GracefulStop, two connections.     *)
(***************************************************************************)
EXTENDS TcpService

=============================================================================
