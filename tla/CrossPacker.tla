---------------------------- MODULE CrossPacker ----------------------------
(***************************************************************************)
(* The packer of two colours, src/cs2106 lab3/ex3/packer.c: a ball of      *)
(* colour 1 goes with one of colour 2, and 3 with 4.  Each colour lets one *)
(* ball at a time in; the two inside signal that they have arrived, read   *)
(* each other's id, and clear their slots in turn, the even colour first.  *)
(***************************************************************************)
EXTENDS Integers

Colours == 1..4

CONSTANTS
  Balls,
  ColourOf,
  NoBall    \* a slot as it is initialised and reset

ASSUME BallsAssumption ==
  /\ ColourOf \in [Balls -> Colours]
  /\ NoBall \notin Balls

VARIABLES
  ball_id, mutex, other_ball_arrived, safe_to_reset,
  pc,     \* where each ball is in pack_ball
  other   \* its local variable, which pack_ball returns

colourVars == <<ball_id, mutex, other_ball_arrived, safe_to_reset>>
vars == <<colourVars, pc, other>>

OtherColour(c) == IF c % 2 = 0 THEN c - 1 ELSE c + 1

Odd(b) == ColourOf[b] \in {1, 3}

Goto(b, label) == pc' = [pc EXCEPT ![b] = label]

Post(sem, c) == [sem EXCEPT ![c] = @ + 1]
Wait(sem, c) == sem[c] > 0
Taken(sem, c) == [sem EXCEPT ![c] = @ - 1]

(* packer_init *)
Init ==
  /\ ball_id = [c \in Colours |-> NoBall]
  /\ mutex = [c \in Colours |-> 1]
  /\ other_ball_arrived = [c \in Colours |-> 0]
  /\ safe_to_reset = [c \in Colours |-> 0]
  /\ pc = [b \in Balls |-> "start"]
  /\ other = [b \in Balls |-> NoBall]

-----------------------------------------------------------------------------
(* Colours 1 and 3. *)

OddArrives(b) ==
  LET c == ColourOf[b] IN
  /\ pc[b] = "start" /\ Odd(b)
  /\ Wait(mutex, c)
  /\ mutex' = Taken(mutex, c)
  /\ ball_id' = [ball_id EXCEPT ![c] = b]
  /\ other_ball_arrived' = Post(other_ball_arrived, c)
  /\ Goto(b, "arrived")
  /\ UNCHANGED <<safe_to_reset, other>>

(* The wait for the even ball.  A seeded fault: the ball does not wait. *)
OddMeetsNobody(d) == TRUE
OddMayMeet(d) == Wait(other_ball_arrived, d)

OddMeets(b) ==
  LET d == OtherColour(ColourOf[b]) IN
  /\ pc[b] = "arrived" /\ Odd(b)
  /\ OddMayMeet(d)
  /\ other_ball_arrived' = Taken(other_ball_arrived, d)
  /\ Goto(b, "met")
  /\ UNCHANGED <<ball_id, mutex, safe_to_reset, other>>

OddReads(b) ==
  LET d == OtherColour(ColourOf[b]) IN
  /\ pc[b] = "met" /\ Odd(b)
  /\ other' = [other EXCEPT ![b] = ball_id[d]]
  /\ safe_to_reset' = Post(safe_to_reset, d)
  /\ Goto(b, "read")
  /\ UNCHANGED <<ball_id, mutex, other_ball_arrived>>

OddReturns(b) ==
  LET c == ColourOf[b] IN
  /\ pc[b] = "read" /\ Odd(b)
  /\ Wait(safe_to_reset, c)
  /\ safe_to_reset' = Taken(safe_to_reset, c)
  /\ ball_id' = [ball_id EXCEPT ![c] = NoBall]
  /\ mutex' = Post(mutex, c)
  /\ Goto(b, "done")
  /\ UNCHANGED <<other_ball_arrived, other>>

-----------------------------------------------------------------------------
(* Colours 2 and 4. *)

EvenArrives(b) ==
  LET c == ColourOf[b] IN
  /\ pc[b] = "start" /\ ~Odd(b)
  /\ Wait(mutex, c)
  /\ mutex' = Taken(mutex, c)
  /\ ball_id' = [ball_id EXCEPT ![c] = b]
  /\ Goto(b, "arrived")
  /\ UNCHANGED <<other_ball_arrived, safe_to_reset, other>>

EvenMeets(b) ==
  LET d == OtherColour(ColourOf[b]) IN
  /\ pc[b] = "arrived" /\ ~Odd(b)
  /\ Wait(other_ball_arrived, d)
  /\ other_ball_arrived' = Taken(other_ball_arrived, d)
  /\ Goto(b, "met")
  /\ UNCHANGED <<ball_id, mutex, safe_to_reset, other>>

EvenReads(b) ==
  LET c == ColourOf[b] IN
  /\ pc[b] = "met" /\ ~Odd(b)
  /\ other' = [other EXCEPT ![b] = ball_id[OtherColour(c)]]
  /\ other_ball_arrived' = Post(other_ball_arrived, c)
  /\ Goto(b, "read")
  /\ UNCHANGED <<ball_id, mutex, safe_to_reset>>

(* The semaphores when the even ball of colour c clears its slot.  A seeded
   fault: the odd ball is not told. *)
ClearedSilently(c) == Taken(safe_to_reset, c)
Cleared(c) == Post(Taken(safe_to_reset, c), OtherColour(c))

EvenClears(b) ==
  LET c == ColourOf[b] IN
  /\ pc[b] = "read" /\ ~Odd(b)
  /\ Wait(safe_to_reset, c)
  /\ ball_id' = [ball_id EXCEPT ![c] = NoBall]
  /\ safe_to_reset' = Cleared(c)
  /\ Goto(b, "cleared")
  /\ UNCHANGED <<mutex, other_ball_arrived, other>>

EvenReturns(b) ==
  LET c == ColourOf[b] IN
  /\ pc[b] = "cleared"
  /\ mutex' = Post(mutex, c)
  /\ Goto(b, "done")
  /\ UNCHANGED <<ball_id, other_ball_arrived, safe_to_reset, other>>

PackBall(b) ==
  \/ OddArrives(b) \/ OddMeets(b) \/ OddReads(b) \/ OddReturns(b)
  \/ EvenArrives(b) \/ EvenMeets(b) \/ EvenReads(b) \/ EvenClears(b) \/ EvenReturns(b)

Next == \E b \in Balls : PackBall(b)

Spec == Init /\ [][Next]_vars

(* As for the packer of pairs: every thread keeps running when it can, and
   calls pack_ball once. *)
FairSpec == Spec /\ \A b \in Balls : WF_vars(PackBall(b))

-----------------------------------------------------------------------------

Labels == {"start", "arrived", "met", "read", "cleared", "done"}

TypeOK ==
  /\ ball_id \in [Colours -> Balls \cup {NoBall}]
  /\ mutex \in [Colours -> {0, 1}]
  /\ other_ball_arrived \in [Colours -> {0, 1}]
  /\ safe_to_reset \in [Colours -> {0, 1}]
  /\ pc \in [Balls -> Labels]
  /\ other \in [Balls -> Balls \cup {NoBall}]

(***************************************************************************)
(* A ball that returns has the id of a ball of the other colour, which was *)
(* told of no ball but this one, even while later balls of the two colours *)
(* are already inside.                                                     *)
(***************************************************************************)
PairsAreMutual ==
  \A a \in Balls : pc[a] = "done" =>
    /\ other[a] \in Balls
    /\ ColourOf[other[a]] = OtherColour(ColourOf[a])
    /\ other[other[a]] = a

(***************************************************************************)
(* The handshake is a step of Packing, or none: the even ball makes the    *)
(* pack when it takes the odd one's signal.                                *)
(***************************************************************************)
Met(b) == pc[b] \in {"met", "read", "cleared"}

Partner(b) ==
  LET mate == ball_id[OtherColour(ColourOf[b])] IN
  IF other[b] # NoBall THEN other[b]
  ELSE IF Odd(b) /\ pc[b] \in {"arrived", "met"} /\ mate # NoBall /\ Met(mate) THEN mate
  ELSE IF ~Odd(b) /\ pc[b] = "met" THEN mate
  ELSE NoBall

PackOf(b) == IF Partner(b) = NoBall THEN {} ELSE {b, Partner(b)}

packs == [b \in Balls |-> PackOf(b)]
returned == [b \in Balls |-> IF pc[b] = "done" THEN {other[b]} ELSE {}]

CrossPacks == {S \in SUBSET Balls :
                 \E a, b \in Balls : S = {a, b} /\ ColourOf[b] = OtherColour(ColourOf[a])}

Packing == INSTANCE Packing WITH Packs <- CrossPacks, pack <- packs, told <- returned

ImplementsPacking == Packing!Spec

(***************************************************************************)
(* Two balls that go together are never both left waiting in the end.      *)
(***************************************************************************)
AllPairsReturn ==
  <>[](\A a, b \in Balls :
         ~ /\ ColourOf[b] = OtherColour(ColourOf[a])
           /\ pc[a] # "done" /\ pc[b] # "done")
=============================================================================
