----------------------------- MODULE MCSSServer -----------------------------
(***************************************************************************)
(* Two ports with two keys each, one of them with a cipher that NewCipher  *)
(* does not know.                                                          *)
(***************************************************************************)
EXTENDS SSServer, TLC

CONSTANTS k1, k2, k3, k4, p1, p2

MCPortOf == (k1 :> p1) @@ (k2 :> p1) @@ (k3 :> p2) @@ (k4 :> p2)

\* k1 and k2 differ in nothing.
Symmetry == Permutations({k1, k2})

=============================================================================
