---------------------------- MODULE MCReplayCache ----------------------------
(***************************************************************************)
(* Five handshakes, two of which preHash maps to one value, so that false  *)
(* positives happen; a capacity of 2, so that rotations and evictions do.  *)
(***************************************************************************)
EXTENDS ReplayCache, TLC

CONSTANTS h1, h2, h3, h4, h5

MCHandshake == {h1, h2, h3, h4, h5}
MCHash == 1 .. 4
MCHashOf == (h1 :> 1) @@ (h2 :> 2) @@ (h3 :> 3) @@ (h4 :> 4) @@ (h5 :> 4)

=============================================================================
