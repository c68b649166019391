---------------------------- MODULE MCCipherList ----------------------------
(***************************************************************************)
(* Three keys, two updates and two users: a snapshot can be overtaken by   *)
(* an update and by the marks of the other user.                           *)
(***************************************************************************)
EXTENDS CipherList, TLC

Symmetry == Permutations(User) \cup Permutations(Key)

=============================================================================
