------------------------------ MODULE Packing ------------------------------
(***************************************************************************)
(* What the packers of src/cs2106 lab3 promise their callers: pack_ball    *)
(* holds a ball back until it belongs to a full pack, puts it into one     *)
(* pack only, and tells it the other balls of its own pack.                *)
(***************************************************************************)
CONSTANTS
  Balls,
  Packs   \* the sets of balls that may be packed together

VARIABLES
  pack,   \* pack[b]: the pack of b; empty until b is packed
  told    \* told[b]: what pack_ball returned to b; empty before it returns

packingVars == <<pack, told>>

Init ==
  /\ pack = [b \in Balls |-> {}]
  /\ told = [b \in Balls |-> {}]

Pack(S) ==
  /\ S \in Packs
  /\ \A b \in S : pack[b] = {}
  /\ pack' = [b \in Balls |-> IF b \in S THEN S ELSE pack[b]]
  /\ UNCHANGED told

Return(b) ==
  /\ pack[b] # {}
  /\ told[b] = {}
  /\ told' = [told EXCEPT ![b] = pack[b] \ {b}]
  /\ UNCHANGED pack

Next == (\E b \in Balls : Return(b)) \/ (\E S \in Packs : Pack(S))

Spec == Init /\ [][Next]_packingVars
=============================================================================
