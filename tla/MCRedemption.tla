---------------------------- MODULE MCRedemption ----------------------------
(* Two clients race for one code, one of them syncing an offline override, *)
(* and a third submits a token that names no code.                         *)
EXTENDS Redemption, TLC

CONSTANTS k1, k2, k3, c1, r1, r2

OneCode == (k1 :> c1) @@ (k2 :> c1) @@ (k3 :> Unknown)
=============================================================================
