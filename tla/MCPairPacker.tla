---------------------------- MODULE MCPairPacker ----------------------------
(* Model checking PairPacker: five balls of one colour, two of another. *)
EXTENDS PairPacker

FiveAndTwo == [b \in Balls |-> IF b < 6 THEN 1 ELSE 2]
=============================================================================
