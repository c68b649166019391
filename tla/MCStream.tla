------------------------------ MODULE MCStream ------------------------------
(***************************************************************************)
(* Four bytes through a buffer of three with a tag of one: LazyWrites that *)
(* do and do not fit, and chunks that are handed out in several reads.     *)
(***************************************************************************)
EXTENDS Stream

=============================================================================
