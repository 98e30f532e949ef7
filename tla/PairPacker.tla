----------------------------- MODULE PairPacker -----------------------------
(***************************************************************************)
(* The packer of pairs, src/cs2106 lab3/ex1/packer.c: the first ball of a  *)
(* colour leaves its id and waits; the second one answers, keeps the mutex *)
(* until the first has read the answer, and clears the slots.              *)
(***************************************************************************)
EXTENDS Integers

CONSTANTS
  Balls,
  Colours,
  ColourOf,   \* the colour of each ball
  MinusOnes,  \* the balls whose id is -1, the mark of an empty slot
  NoBall      \* a slot as it is initialised and reset

ASSUME BallsAssumption ==
  /\ ColourOf \in [Balls -> Colours]
  /\ MinusOnes \subseteq Balls
  /\ NoBall \notin Balls

(* A slot with the id of a ball holds that ball here: the code compares an id
   with -1 only, so it does not matter which of the others are equal.  A seeded
   fault: every ball takes itself for the first. *)
ReadsAsEmptyAlways(slot) == TRUE
ReadsAsEmpty(slot) == slot \in MinusOnes \cup {NoBall}

VARIABLES
  ball_one_id, ball_two_id, mutex, second_ball_arrived, safe_to_reset,
  pc,     \* where each ball is in pack_ball
  other   \* its local variable, which pack_ball returns

colourVars == <<ball_one_id, ball_two_id, mutex, second_ball_arrived, safe_to_reset>>
vars == <<colourVars, pc, other>>

Goto(b, label) == pc' = [pc EXCEPT ![b] = label]

(* packer_init *)
Init ==
  /\ ball_one_id = [c \in Colours |-> NoBall]
  /\ ball_two_id = [c \in Colours |-> NoBall]
  /\ mutex = [c \in Colours |-> 1]
  /\ second_ball_arrived = [c \in Colours |-> 0]
  /\ safe_to_reset = [c \in Colours |-> 0]
  /\ pc = [b \in Balls |-> "start"]
  /\ other = [b \in Balls |-> NoBall]

(* A slot without an id: the ball is the first; it gives the mutex back. *)
FirstArrives(b) ==
  LET c == ColourOf[b] IN
  /\ pc[b] = "start"
  /\ mutex[c] > 0
  /\ ReadsAsEmpty(ball_one_id[c])
  /\ ball_one_id' = [ball_one_id EXCEPT ![c] = b]
  /\ Goto(b, "waiting")
  /\ UNCHANGED <<ball_two_id, mutex, second_ball_arrived, safe_to_reset, other>>

(* Otherwise it is the second; it keeps the mutex. *)
SecondArrives(b) ==
  LET c == ColourOf[b] IN
  /\ pc[b] = "start"
  /\ mutex[c] > 0
  /\ ~ReadsAsEmpty(ball_one_id[c])
  /\ mutex' = [mutex EXCEPT ![c] = @ - 1]
  /\ ball_two_id' = [ball_two_id EXCEPT ![c] = b]
  /\ second_ball_arrived' = [second_ball_arrived EXCEPT ![c] = @ + 1]
  /\ Goto(b, "answering")
  /\ UNCHANGED <<ball_one_id, safe_to_reset, other>>

FirstWakes(b) ==
  LET c == ColourOf[b] IN
  /\ pc[b] = "waiting"
  /\ second_ball_arrived[c] > 0
  /\ second_ball_arrived' = [second_ball_arrived EXCEPT ![c] = @ - 1]
  /\ Goto(b, "woken")
  /\ UNCHANGED <<ball_one_id, ball_two_id, mutex, safe_to_reset, other>>

FirstReturns(b) ==
  LET c == ColourOf[b] IN
  /\ pc[b] = "woken"
  /\ other' = [other EXCEPT ![b] = ball_two_id[c]]
  /\ safe_to_reset' = [safe_to_reset EXCEPT ![c] = @ + 1]
  /\ Goto(b, "done")
  /\ UNCHANGED <<ball_one_id, ball_two_id, mutex, second_ball_arrived>>

SecondReads(b) ==
  /\ pc[b] = "answering"
  /\ other' = [other EXCEPT ![b] = ball_one_id[ColourOf[b]]]
  /\ Goto(b, "resetting")
  /\ UNCHANGED colourVars

(* The wait of the second ball.  A seeded fault: it waits after the reset. *)
ResetsAtOnce(c) == TRUE
MayReset(c) == safe_to_reset[c] > 0

SecondReturns(b) ==
  LET c == ColourOf[b] IN
  /\ pc[b] = "resetting"
  /\ MayReset(c)
  /\ safe_to_reset' = [safe_to_reset EXCEPT ![c] = @ - 1]
  /\ ball_one_id' = [ball_one_id EXCEPT ![c] = NoBall]
  /\ ball_two_id' = [ball_two_id EXCEPT ![c] = NoBall]
  /\ mutex' = [mutex EXCEPT ![c] = @ + 1]
  /\ Goto(b, "done")
  /\ UNCHANGED <<second_ball_arrived, other>>

PackBall(b) ==
  \/ FirstArrives(b) \/ SecondArrives(b) \/ FirstWakes(b)
  \/ FirstReturns(b) \/ SecondReads(b) \/ SecondReturns(b)

Next == \E b \in Balls : PackBall(b)

Spec == Init /\ [][Next]_vars

(* Every ball's thread is created and keeps running when it can.  Each calls
   pack_ball once, so no ball can overtake another at the mutex for ever. *)
FairSpec == Spec /\ \A b \in Balls : WF_vars(PackBall(b))

-----------------------------------------------------------------------------

Labels == {"start", "waiting", "woken", "answering", "resetting", "done"}

TypeOK ==
  /\ ball_one_id \in [Colours -> Balls \cup {NoBall}]
  /\ ball_two_id \in [Colours -> Balls \cup {NoBall}]
  /\ mutex \in [Colours -> {0, 1}]
  /\ second_ball_arrived \in [Colours -> {0, 1}]
  /\ safe_to_reset \in [Colours -> {0, 1}]
  /\ pc \in [Balls -> Labels]
  /\ other \in [Balls -> Balls \cup {NoBall}]

(***************************************************************************)
(* "Returns the id of the other ball of the pack": a ball that returns was *)
(* paired with another ball of its colour, and that ball, once it returns, *)
(* was told of the first.                                                  *)
(***************************************************************************)
PairsAreMutual ==
  \A a \in Balls : pc[a] = "done" =>
    /\ other[a] \in Balls \ {a}
    /\ ColourOf[other[a]] = ColourOf[a]
    /\ pc[other[a]] = "done" => other[other[a]] = a

(***************************************************************************)
(* Each step of the semaphores is a step of Packing, or none: the second   *)
(* ball of a colour makes a pack of itself and the one that waits.         *)
(***************************************************************************)
Partner(b) ==
  LET c == ColourOf[b] IN
  IF pc[b] = "done" THEN other[b]
  ELSE IF pc[b] \in {"answering", "resetting"} THEN ball_one_id[c]
  ELSE IF pc[b] \in {"waiting", "woken"} THEN ball_two_id[c]
  ELSE NoBall

PackOf(b) == IF Partner(b) = NoBall THEN {} ELSE {b, Partner(b)}

packs == [b \in Balls |-> PackOf(b)]
returned == [b \in Balls |-> IF pc[b] = "done" THEN {other[b]} ELSE {}]

PairPacks == {S \in SUBSET Balls :
                \E a, b \in Balls : S = {a, b} /\ a # b /\ ColourOf[a] = ColourOf[b]}

Packing == INSTANCE Packing WITH Packs <- PairPacks, pack <- packs, told <- returned

ImplementsPacking == Packing!Spec

(***************************************************************************)
(* At most one ball of a colour is left without a partner in the end.      *)
(***************************************************************************)
AllPairsReturn ==
  <>[](\A a, b \in Balls :
         ColourOf[a] = ColourOf[b] /\ pc[a] # "done" /\ pc[b] # "done" => a = b)
=============================================================================
