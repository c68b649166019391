---------------------------- MODULE MCTrafficRepo ----------------------------
(***************************************************************************)
(* A list of three elements on an array of four, so that the first append  *)
(* is in place and later ones meet full arrays; two more calls for the     *)
(* same users and one without a user.                                      *)
(***************************************************************************)
EXTENDS TrafficRepo, TLC

CONSTANTS e1, e2, e3, a1, a2, a3, u1, u2

MCEarlier == <<e1, e2, e3>>

Of(u, up, down) == [UID |-> u, U |-> up, D |-> down]

MCTraffic ==
    (e1 :> Of(u1, 1, 0)) @@ (e2 :> Of(u2, 2, 0)) @@ (e3 :> Of(u1, 0, 4)) @@
    (a1 :> Of(u1, 8, 0)) @@ (a2 :> Of(u2, 0, 16)) @@ (a3 :> Of(NoUID, 0, 1))

=============================================================================
