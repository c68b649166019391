---------------------------- MODULE MCUdpService ----------------------------
(***************************************************************************)
(* Two clients and two NAT entries, so that a client may return after its  *)
(* entry has expired; a DNS timeout shorter than the NAT timeout.          *)
(***************************************************************************)
EXTENDS UdpService

=============================================================================
