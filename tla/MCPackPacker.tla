---------------------------- MODULE MCPackPacker ----------------------------
(* Balls are numbered; the first ones are of colour 1, the others of 2. *)
EXTENDS PackPacker

CONSTANT Same   \* how many balls are of colour 1

TwoColours == [b \in Balls |-> IF b <= Same THEN 1 ELSE 2]

(* The first two have the same id. *)
TwoAlike == [b \in Balls |-> IF b = 1 THEN 102 ELSE 100 + b]
=============================================================================
