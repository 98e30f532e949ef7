--------------------------- MODULE MCCrossPacker ---------------------------
(* Three balls of colour 1 and two of colour 2: every pair is followed by
   others on both sides; and one pair of colours 3 and 4 beside them. *)
EXTENDS CrossPacker, TLC

CONSTANTS a1, a2, a3, b1, b2, c1, d1

ThreeAndTwo == a1 :> 1 @@ a2 :> 1 @@ a3 :> 1 @@ b1 :> 2 @@ b2 :> 2 @@ c1 :> 3 @@ d1 :> 4
=============================================================================
