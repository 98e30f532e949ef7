---------------------------- MODULE PackerProofs ----------------------------
(***************************************************************************)
(* The packers of two balls, of one colour (PairPacker) and of two colours *)
(* (CrossPacker): what each tells the balls of one another agrees, and it  *)
(* implements Packing.                                                     *)
(*                                                                         *)
(* First the pairs of one colour, for all sets of balls and colours, as    *)
(* long as no ball has the id -1.  PairsAreMutual alone is not inductive:  *)
(* it says nothing of the balls still inside pack_ball.  SlotsInv ties the *)
(* two slots and the three semaphores of a colour to the balls that wait   *)
(* for them, and BallsInv says which slot a ball inside has, and who was   *)
(* told of a ball outside.                                                 *)
(***************************************************************************)
EXTENDS PairPacker, TLAPS

SlotsInv(c) ==
  LET one == ball_one_id[c]
      two == ball_two_id[c]
  IN /\ one # NoBall => ColourOf[one] = c /\ pc[one] \in {"waiting", "woken", "done"}
     /\ two # NoBall => /\ one # NoBall /\ ColourOf[two] = c
                        /\ pc[two] \in {"answering", "resetting"}
     /\ two = NoBall /\ one # NoBall => pc[one] = "waiting"
     /\ mutex[c] = IF two = NoBall THEN 1 ELSE 0
     /\ second_ball_arrived[c] = IF two # NoBall /\ pc[one] = "waiting" THEN 1 ELSE 0
     /\ safe_to_reset[c] = IF two # NoBall /\ pc[one] = "done" THEN 1 ELSE 0
     /\ two # NoBall /\ pc[one] = "done" => other[one] = two
     /\ two # NoBall /\ pc[two] = "resetting" => other[two] = one

BallsInv(b) ==
  LET c == ColourOf[b]
  IN /\ pc[b] \in {"waiting", "woken"} => ball_one_id[c] = b
     /\ pc[b] \in {"answering", "resetting"} => ball_two_id[c] = b
     /\ pc[b] = "done" =>
          /\ other[b] \in Balls \ {b}
          /\ ColourOf[other[b]] = c
          /\ \/ pc[other[b]] = "done" /\ other[other[b]] = b
             \/ ball_one_id[c] = b /\ ball_two_id[c] = other[b]

Inv ==
  /\ TypeOK
  /\ \A c \in Colours : SlotsInv(c)
  /\ \A b \in Balls : BallsInv(b)

(* packer_init *)
LEMMA InitInv == Init => Inv
  BY BallsAssumption DEF Init, Inv, TypeOK, SlotsInv, BallsInv, Labels

(* The invariant gives the property the callers see. *)
LEMMA InvMutual == Inv => PairsAreMutual
  BY BallsAssumption DEF Inv, BallsInv, SlotsInv, TypeOK, PairsAreMutual

(* Each step of each ball preserves the invariant. *)
LEMMA StepInv ==
  ASSUME MinusOnes = {}, Inv, NEW b \in Balls, PackBall(b)
  PROVE  Inv'
<1> DEFINE c == ColourOf[b]
<1> USE BallsAssumption DEF TypeOK, Labels
<1>0. c \in Colours /\ TypeOK /\ SlotsInv(c) /\ BallsInv(b)
  BY DEF Inv
<1>1. CASE FirstArrives(b)
  <2>1. TypeOK'
    BY <1>0, <1>1 DEF FirstArrives, Goto
  <2>2. ASSUME NEW d \in Colours PROVE SlotsInv(d)'
    BY <1>0, <1>1 DEF Inv, SlotsInv, BallsInv, FirstArrives, Goto, ReadsAsEmpty
  <2>3. ASSUME NEW a \in Balls PROVE BallsInv(a)'
    BY <1>0, <1>1 DEF Inv, SlotsInv, BallsInv, FirstArrives, Goto, ReadsAsEmpty
  <2> QED BY <2>1, <2>2, <2>3 DEF Inv
<1>2. CASE SecondArrives(b)
  <2>1. TypeOK'
    BY <1>0, <1>2 DEF SecondArrives, Goto, SlotsInv
  <2>2. ASSUME NEW d \in Colours PROVE SlotsInv(d)'
    BY <1>0, <1>2 DEF Inv, SlotsInv, BallsInv, SecondArrives, Goto, ReadsAsEmpty
  <2>3. ASSUME NEW a \in Balls PROVE BallsInv(a)'
    BY <1>0, <1>2 DEF Inv, SlotsInv, BallsInv, SecondArrives, Goto, ReadsAsEmpty
  <2> QED BY <2>1, <2>2, <2>3 DEF Inv
<1>3. CASE FirstWakes(b)
  <2>1. TypeOK'
    BY <1>0, <1>3 DEF FirstWakes, Goto
  <2>2. ASSUME NEW d \in Colours PROVE SlotsInv(d)'
    BY <1>0, <1>3 DEF Inv, SlotsInv, BallsInv, FirstWakes, Goto
  <2>3. ASSUME NEW a \in Balls PROVE BallsInv(a)'
    BY <1>0, <1>3 DEF Inv, SlotsInv, BallsInv, FirstWakes, Goto
  <2> QED BY <2>1, <2>2, <2>3 DEF Inv
<1>4. CASE FirstReturns(b)
  <2>1. TypeOK'
    BY <1>0, <1>4 DEF FirstReturns, Goto, SlotsInv, BallsInv
  <2>2. ASSUME NEW d \in Colours PROVE SlotsInv(d)'
    BY <1>0, <1>4 DEF Inv, SlotsInv, BallsInv, FirstReturns, Goto
  <2>3. ASSUME NEW a \in Balls PROVE BallsInv(a)'
    BY <1>0, <1>4 DEF Inv, SlotsInv, BallsInv, FirstReturns, Goto
  <2> QED BY <2>1, <2>2, <2>3 DEF Inv
<1>5. CASE SecondReads(b)
  <2>1. TypeOK'
    BY <1>0, <1>5 DEF SecondReads, Goto, colourVars
  <2>2. ASSUME NEW d \in Colours PROVE SlotsInv(d)'
    BY <1>0, <1>5 DEF Inv, SlotsInv, BallsInv, SecondReads, Goto, colourVars
  <2>3. ASSUME NEW a \in Balls PROVE BallsInv(a)'
    BY <1>0, <1>5 DEF Inv, SlotsInv, BallsInv, SecondReads, Goto, colourVars
  <2> QED BY <2>1, <2>2, <2>3 DEF Inv
<1>6. CASE SecondReturns(b)
  <2>1. TypeOK'
    BY <1>0, <1>6 DEF SecondReturns, MayReset, Goto, SlotsInv, BallsInv
  <2>2. ASSUME NEW d \in Colours PROVE SlotsInv(d)'
    BY <1>0, <1>6 DEF Inv, SlotsInv, BallsInv, SecondReturns, MayReset, Goto
  <2>3. ASSUME NEW a \in Balls PROVE BallsInv(a)'
    BY <1>0, <1>6 DEF Inv, SlotsInv, BallsInv, SecondReturns, MayReset, Goto
  <2> QED BY <2>1, <2>2, <2>3 DEF Inv
<1> QED BY <1>1, <1>2, <1>3, <1>4, <1>5, <1>6 DEF PackBall

(* The invariant holds in every state. *)
LEMMA AlwaysInv == ASSUME MinusOnes = {} PROVE Spec => []Inv
<1>1. Inv /\ [Next]_vars => Inv'
  <2> SUFFICES ASSUME Inv, [Next]_vars PROVE Inv'
    OBVIOUS
  <2>1. CASE UNCHANGED vars
    BY <2>1 DEF vars, colourVars, Inv, TypeOK, SlotsInv, BallsInv
  <2> QED BY <2>1, StepInv DEF Next
<1> QED BY InitInv, <1>1, PTL DEF Spec

(***************************************************************************)
(* Slots and semaphores stay in their types: no post is ever lost on a     *)
(* semaphore that is already up.                                           *)
(***************************************************************************)
THEOREM TypeCorrect == ASSUME MinusOnes = {} PROVE Spec => []TypeOK
<1>1. Inv => TypeOK
  BY DEF Inv
<1> QED BY AlwaysInv, <1>1, PTL

(***************************************************************************)
(* Two balls that have returned from the same pack name each other, for    *)
(* all numbers of balls and colours.                                       *)
(***************************************************************************)
THEOREM MutualCorrect == ASSUME MinusOnes = {} PROVE Spec => []PairsAreMutual
<1> QED BY AlwaysInv, InvMutual, PTL

-----------------------------------------------------------------------------
(* The refinement.  A step of ball b leaves packs and returned as they are,
   except the arrival of the second ball and the two returns. *)

(* Steps that show nothing to the callers. *)
LEMMA InnerSteps ==
  ASSUME MinusOnes = {}, Inv, NEW b \in Balls,
         FirstArrives(b) \/ FirstWakes(b) \/ SecondReads(b)
  PROVE  packs' = packs /\ returned' = returned
<1> USE BallsAssumption
<1>1. ASSUME NEW a \in Balls PROVE Partner(a)' = Partner(a)
  <2>0. /\ ColourOf[a] \in Colours /\ ColourOf[b] \in Colours
        /\ SlotsInv(ColourOf[b]) /\ BallsInv(a) /\ BallsInv(b) /\ TypeOK
    BY DEF Inv
  <2>1. CASE FirstArrives(b)
    BY <2>0, <2>1 DEF TypeOK, SlotsInv, BallsInv, FirstArrives, Goto, ReadsAsEmpty, Partner
  <2>2. CASE FirstWakes(b)
    BY <2>0, <2>2 DEF TypeOK, FirstWakes, Goto, Partner
  <2>3. CASE SecondReads(b)
    BY <2>0, <2>3 DEF TypeOK, SecondReads, Goto, colourVars, Partner
  <2> QED BY <2>1, <2>2, <2>3
<1>2. ASSUME NEW a \in Balls
      PROVE (pc'[a] = "done" <=> pc[a] = "done") /\ (pc[a] = "done" => other'[a] = other[a])
  BY DEF Inv, TypeOK, FirstArrives, FirstWakes, SecondReads, Goto
<1>3. packs' = packs
  BY <1>1 DEF packs, PackOf
<1>4. ASSUME NEW a \in Balls
      PROVE (IF pc'[a] = "done" THEN {other'[a]} ELSE {})
              = (IF pc[a] = "done" THEN {other[a]} ELSE {})
  BY <1>2
<1>5. returned' = returned
  BY <1>4 DEF returned
<1> QED BY <1>3, <1>5

(* The second ball makes a pack. *)
LEMMA ArrivalPacks ==
  ASSUME MinusOnes = {}, Inv, NEW b \in Balls, SecondArrives(b)
  PROVE  Packing!Pack({ball_one_id[ColourOf[b]], b})
<1> DEFINE c == ColourOf[b]
           a == ball_one_id[c]
           S == {a, b}
<1> USE BallsAssumption
<1>0. c \in Colours /\ TypeOK /\ SlotsInv(c) /\ BallsInv(b)
  BY DEF Inv
<1>1. /\ a \in Balls /\ ColourOf[a] = c /\ pc[b] = "start" /\ a # NoBall
      /\ pc[a] = "waiting" /\ a # b /\ ball_two_id[c] = NoBall
  BY <1>0 DEF TypeOK, SlotsInv, SecondArrives, ReadsAsEmpty
<1>2. S \in PairPacks
  BY <1>1 DEF PairPacks
<1>3. \A d \in S : packs[d] = {}
  BY <1>1 DEF packs, PackOf, Partner
<1>4. ASSUME NEW d \in Balls
      PROVE Partner(d)' = IF d = a THEN b ELSE IF d = b THEN a ELSE Partner(d)
  <2>0. ColourOf[d] \in Colours /\ BallsInv(d)
    BY DEF Inv
  <2>1. CASE d = a
    BY <1>0, <1>1, <2>1 DEF TypeOK, SecondArrives, Goto, Partner
  <2>2. CASE d = b
    BY <1>0, <1>1, <2>2 DEF TypeOK, SecondArrives, Goto, Partner
  <2>3. CASE d # a /\ d # b
    BY <1>0, <1>1, <2>0, <2>3 DEF TypeOK, BallsInv, SecondArrives, Goto, Partner
  <2> QED BY <2>1, <2>2, <2>3
<1>5. ASSUME NEW d \in Balls PROVE PackOf(d)' = IF d \in S THEN S ELSE PackOf(d)
  <2> HIDE DEF a, c
  <2>1. b # NoBall /\ a # NoBall
    BY <1>1
  <2>2. CASE d = a
    BY <1>1, <1>4, <2>1, <2>2 DEF PackOf
  <2>3. CASE d = b
    BY <1>1, <1>4, <2>1, <2>3 DEF PackOf
  <2>4. CASE d # a /\ d # b
    BY <1>4, <2>4 DEF PackOf
  <2> QED BY <2>2, <2>3, <2>4
<1>6. packs' = [d \in Balls |-> IF d \in S THEN S ELSE packs[d]]
  BY <1>5 DEF packs
<1>7. ASSUME NEW d \in Balls
      PROVE (pc'[d] = "done" <=> pc[d] = "done") /\ other'[d] = other[d]
  BY <1>0, <1>1 DEF TypeOK, SecondArrives, Goto
<1>8. returned' = returned
  BY <1>7 DEF returned
<1> QED BY <1>2, <1>3, <1>6, <1>8 DEF Packing!Pack

(* A ball that returns was packed, and is told its partner. *)
LEMMA ReturnTells ==
  ASSUME MinusOnes = {}, Inv, NEW b \in Balls, FirstReturns(b) \/ SecondReturns(b)
  PROVE  Packing!Return(b)
<1> DEFINE c == ColourOf[b]
<1> USE BallsAssumption
<1>0. c \in Colours /\ TypeOK /\ SlotsInv(c) /\ BallsInv(b)
  BY DEF Inv
<1>1. /\ Partner(b) \in Balls \ {b} /\ pc[b] # "done"
      /\ pc'[b] = "done" /\ other'[b] = Partner(b)
  <2>1. CASE FirstReturns(b)
    BY <1>0, <2>1 DEF TypeOK, SlotsInv, BallsInv, FirstReturns, Goto, Partner
  <2>2. CASE SecondReturns(b)
    BY <1>0, <2>2 DEF TypeOK, SlotsInv, BallsInv, SecondReturns, MayReset, Goto, Partner
  <2> QED BY <2>1, <2>2
<1>2. packs[b] = {b, Partner(b)} /\ returned[b] = {}
  BY <1>1 DEF packs, PackOf, returned
<1>3. ASSUME NEW a \in Balls PROVE Partner(a)' = Partner(a)
  <2>0. ColourOf[a] \in Colours /\ BallsInv(a)
    BY DEF Inv
  <2>1. CASE a = b
    BY <1>1, <2>1 DEF Partner
  <2>2. CASE a # b /\ FirstReturns(b)
    BY <1>0, <2>0, <2>2 DEF TypeOK, FirstReturns, Goto, Partner
  <2>3. CASE a # b /\ SecondReturns(b)
    BY <1>0, <2>0, <2>3 DEF TypeOK, SlotsInv, BallsInv, SecondReturns, MayReset, Goto, Partner
  <2> QED BY <2>1, <2>2, <2>3
<1>4. packs' = packs
  BY <1>3 DEF packs, PackOf
<1>5. ASSUME NEW a \in Balls, a # b
      PROVE (pc'[a] = "done" <=> pc[a] = "done") /\ other'[a] = other[a]
  BY <1>0, <1>5 DEF TypeOK, FirstReturns, SecondReturns, MayReset, Goto
<1>6. packs[b] \ {b} = {Partner(b)}
  BY <1>1, <1>2
<1>7. returned' = [returned EXCEPT ![b] = packs[b] \ {b}]
  <2>1. returned' = [a \in Balls |-> IF a = b THEN {Partner(b)} ELSE returned[a]]
    BY <1>1, <1>5 DEF returned
  <2> QED BY <1>6, <2>1 DEF returned
<1> QED BY <1>1, <1>2, <1>4, <1>7 DEF Packing!Return

(***************************************************************************)
(* The semaphores implement Packing: every ball is put into one pack of    *)
(* two balls of its colour and told the other one.                         *)
(***************************************************************************)
THEOREM PackingImplemented == ASSUME MinusOnes = {} PROVE Spec => ImplementsPacking
<1>1. Init => Packing!Init
  BY DEF Init, Packing!Init, packs, returned, PackOf, Partner
<1>2. Inv /\ [Next]_vars => [Packing!Next]_(Packing!packingVars)
  <2> SUFFICES ASSUME Inv, [Next]_vars PROVE [Packing!Next]_(Packing!packingVars)
    OBVIOUS
  <2>1. CASE UNCHANGED vars
    BY <2>1 DEF vars, colourVars, Packing!packingVars, packs, returned, PackOf, Partner
  <2>2. ASSUME NEW b \in Balls, PackBall(b) PROVE [Packing!Next]_(Packing!packingVars)
    <3>1. CASE SecondArrives(b)
      <4>1. {ball_one_id[ColourOf[b]], b} \in PairPacks
        BY <3>1, ArrivalPacks DEF Packing!Pack
      <4> QED BY <3>1, <4>1, ArrivalPacks DEF Packing!Next
    <3>2. CASE FirstReturns(b) \/ SecondReturns(b)
      BY <3>2, ReturnTells DEF Packing!Next
    <3>3. CASE FirstArrives(b) \/ FirstWakes(b) \/ SecondReads(b)
      BY <3>3, InnerSteps DEF Packing!packingVars
    <3> QED BY <2>2, <3>1, <3>2, <3>3 DEF PackBall
  <2> QED BY <2>1, <2>2 DEF Next
<1> QED BY AlwaysInv, <1>1, <1>2, PTL DEF Spec, ImplementsPacking, Packing!Spec

-----------------------------------------------------------------------------
(***************************************************************************)
(* The packer of two colours for any number of balls: the handshake gives  *)
(* each of the two the other's id, and implements Packing.                 *)
(*                                                                         *)
(* CouplesInv says, for an odd colour and the even one that goes with it,  *)
(* which phase of the handshake the two balls inside are in, what each of  *)
(* the four semaphores holds in that phase, and that the even ball may     *)
(* already be another one once the odd ball only waits to leave.           *)
(***************************************************************************)
VARIABLES ball_id, other_ball_arrived

(* Its balls and their threads are named as above; its colours are four. *)
Cross == INSTANCE CrossPacker

Inside(b) == pc[b] \in {"arrived", "met", "read"}

CouplesInv(c) ==
  LET d == Cross!OtherColour(c)
      o == ball_id[c]
      e == ball_id[d]
      eMet == e # NoBall /\ pc[e] = "met"
      eRead == e # NoBall /\ pc[e] = "read"
  IN /\ o # NoBall => ColourOf[o] = c /\ Inside(o) /\ mutex[c] = 0
     /\ e # NoBall => ColourOf[e] = d /\ Inside(e) /\ mutex[d] = 0
     /\ eMet => o # NoBall /\ pc[o] = "arrived"
     /\ eRead => o # NoBall /\ other[e] = o
     /\ o # NoBall /\ pc[o] = "met" => eRead
     /\ o # NoBall /\ pc[o] = "read" => IF eRead THEN other[o] = e ELSE other[other[o]] = o
     /\ other_ball_arrived[c] =
          IF o # NoBall /\ pc[o] = "arrived" /\ ~eMet /\ ~eRead THEN 1 ELSE 0
     /\ other_ball_arrived[d] = IF eRead /\ pc[o] = "arrived" THEN 1 ELSE 0
     /\ safe_to_reset[d] = IF eRead /\ pc[o] = "read" THEN 1 ELSE 0
     /\ safe_to_reset[c] = IF o # NoBall /\ pc[o] = "read" /\ ~eRead THEN 1 ELSE 0

BallInv(b) ==
  LET c == ColourOf[b]
  IN /\ pc[b] \in {"start", "arrived", "met"} <=> other[b] = NoBall
     /\ Inside(b) => ball_id[c] = b
     /\ other[b] # NoBall => ColourOf[other[b]] = Cross!OtherColour(c)
     /\ pc[b] \in {"cleared", "done"} => other[b] # NoBall /\ other[other[b]] = b
     /\ pc[b] = "cleared" =>
          /\ ~Cross!Odd(b) /\ ball_id[c] = NoBall /\ mutex[c] = 0
          /\ \A a \in Balls : pc[a] = "cleared" /\ ColourOf[a] = c => a = b

CrossInv ==
  /\ Cross!TypeOK
  /\ \A c \in {1, 3} : CouplesInv(c)
  /\ \A b \in Balls : BallInv(b)

(* Colours go in pairs of an odd and an even one. *)
LEMMA ColourPairs ==
  ASSUME NEW c \in Cross!Colours
  PROVE  /\ Cross!OtherColour(c) \in Cross!Colours
         /\ Cross!OtherColour(Cross!OtherColour(c)) = c
         /\ c \in {1, 3} <=> Cross!OtherColour(c) \notin {1, 3}
         /\ Cross!OtherColour(c) # c
<1>1. c = 1 \/ c = 2 \/ c = 3 \/ c = 4
  BY DEF Cross!Colours
<1> QED BY <1>1 DEF Cross!Colours, Cross!OtherColour

LEMMA CrossInitInv ==
  ASSUME ColourOf \in [Balls -> Cross!Colours]
  PROVE  Cross!Init => CrossInv
<1> SUFFICES ASSUME Cross!Init PROVE CrossInv
  OBVIOUS
<1>1. Cross!TypeOK
  BY DEF Cross!Init, Cross!TypeOK, Cross!Labels
<1>2. ASSUME NEW c \in {1, 3} PROVE CouplesInv(c)
  <2>1. c \in Cross!Colours /\ Cross!OtherColour(c) \in Cross!Colours
    BY ColourPairs DEF Cross!Colours
  <2> QED BY <2>1 DEF Cross!Init, CouplesInv
<1>3. ASSUME NEW b \in Balls PROVE BallInv(b)
  BY BallsAssumption DEF Cross!Init, BallInv, Inside
<1> QED BY <1>1, <1>2, <1>3 DEF CrossInv

(* What the invariant says of a ball, of its colour and of the other one. *)
LEMMA BallFacts ==
  ASSUME ColourOf \in [Balls -> Cross!Colours], CrossInv,
         NEW b \in Balls
  PROVE  /\ ColourOf[b] \in Cross!Colours /\ Cross!OtherColour(ColourOf[b]) \in Cross!Colours
         /\ Cross!TypeOK /\ BallInv(b) /\ b # NoBall
         /\ Cross!Odd(b) => ColourOf[b] \in {1, 3} /\ CouplesInv(ColourOf[b])
         /\ ~Cross!Odd(b) => /\ Cross!OtherColour(ColourOf[b]) \in {1, 3}
                       /\ CouplesInv(Cross!OtherColour(ColourOf[b]))
                       /\ Cross!OtherColour(Cross!OtherColour(ColourOf[b])) = ColourOf[b]
  BY BallsAssumption, ColourPairs DEF CrossInv, Cross!Odd

(* Each step of each ball preserves the invariant. *)
LEMMA CrossStepInv ==
  ASSUME ColourOf \in [Balls -> Cross!Colours], CrossInv,
         NEW b \in Balls, Cross!PackBall(b)
  PROVE  CrossInv'
<1> DEFINE c == ColourOf[b]
<1> USE BallsAssumption
<1>0. /\ c \in Cross!Colours /\ Cross!OtherColour(c) \in Cross!Colours /\ Cross!OtherColour(c) # c
      /\ Cross!OtherColour(Cross!OtherColour(c)) = c
      /\ Cross!TypeOK /\ BallInv(b) /\ b # NoBall
      /\ Cross!Odd(b) => c \in {1, 3} /\ CouplesInv(c)
      /\ ~Cross!Odd(b) => Cross!OtherColour(c) \in {1, 3} /\ CouplesInv(Cross!OtherColour(c))
  BY BallFacts, ColourPairs
<1>p. ASSUME NEW p \in {1, 3}
      PROVE  /\ p \in Cross!Colours /\ Cross!OtherColour(p) \in Cross!Colours
             /\ Cross!OtherColour(p) # p
             /\ Cross!OtherColour(Cross!OtherColour(p)) = p
             /\ Cross!OtherColour(p) \notin {1, 3} /\ CouplesInv(p)
  BY ColourPairs DEF Cross!Colours, CrossInv
<1>a. ASSUME NEW a \in Balls
      PROVE  ColourOf[a] \in Cross!Colours /\ BallInv(a) /\ a # NoBall
  BY BallFacts
<1>1. CASE Cross!OddArrives(b)
  <2> USE <1>1 DEF Cross!OddArrives, Cross!Goto, Cross!Post, Cross!Wait, Cross!Taken
  <2>1. Cross!TypeOK'
    BY <1>0 DEF Cross!TypeOK, Cross!Labels, Cross!Odd, CouplesInv, BallInv, Inside
  <2>2. ASSUME NEW p \in {1, 3} PROVE CouplesInv(p)'
    BY <1>0, <1>p, <1>a DEF Cross!TypeOK, Cross!Odd, CouplesInv, BallInv, Inside
  <2>3. ASSUME NEW a \in Balls PROVE BallInv(a)'
    BY <1>0, <1>a DEF Cross!TypeOK, Cross!Odd, CouplesInv, BallInv, Inside
  <2> QED BY <2>1, <2>2, <2>3 DEF CrossInv
<1>2. CASE Cross!OddMeets(b)
  <2> USE <1>2 DEF Cross!OddMeets, Cross!OddMayMeet, Cross!Goto, Cross!Post, Cross!Wait, Cross!Taken
  <2>1. Cross!TypeOK'
    BY <1>0 DEF Cross!TypeOK, Cross!Labels, Cross!Odd, CouplesInv, BallInv, Inside
  <2>2. ASSUME NEW p \in {1, 3} PROVE CouplesInv(p)'
    BY <1>0, <1>p, <1>a DEF Cross!TypeOK, Cross!Odd, CouplesInv, BallInv, Inside
  <2>3. ASSUME NEW a \in Balls PROVE BallInv(a)'
    BY <1>0, <1>a DEF Cross!TypeOK, Cross!Odd, CouplesInv, BallInv, Inside
  <2> QED BY <2>1, <2>2, <2>3 DEF CrossInv
<1>3. CASE Cross!OddReads(b)
  <2> USE <1>3 DEF Cross!OddReads, Cross!Goto, Cross!Post, Cross!Wait, Cross!Taken
  <2>1. Cross!TypeOK'
    BY <1>0 DEF Cross!TypeOK, Cross!Labels, Cross!Odd, CouplesInv, BallInv, Inside
  <2>2. ASSUME NEW p \in {1, 3} PROVE CouplesInv(p)'
    BY <1>0, <1>p, <1>a DEF Cross!TypeOK, Cross!Odd, CouplesInv, BallInv, Inside
  <2>3. ASSUME NEW a \in Balls PROVE BallInv(a)'
    BY <1>0, <1>a DEF Cross!TypeOK, Cross!Odd, CouplesInv, BallInv, Inside
  <2> QED BY <2>1, <2>2, <2>3 DEF CrossInv
<1>4. CASE Cross!OddReturns(b)
  <2> USE <1>4 DEF Cross!OddReturns, Cross!Goto, Cross!Post, Cross!Wait, Cross!Taken
  <2>1. Cross!TypeOK'
    BY <1>0 DEF Cross!TypeOK, Cross!Labels, Cross!Odd, CouplesInv, BallInv, Inside
  <2>2. ASSUME NEW p \in {1, 3} PROVE CouplesInv(p)'
    BY <1>0, <1>p, <1>a DEF Cross!TypeOK, Cross!Odd, CouplesInv, BallInv, Inside
  <2>3. ASSUME NEW a \in Balls PROVE BallInv(a)'
    BY <1>0, <1>a DEF Cross!TypeOK, Cross!Odd, CouplesInv, BallInv, Inside
  <2> QED BY <2>1, <2>2, <2>3 DEF CrossInv
<1>5. CASE Cross!EvenArrives(b)
  <2> USE <1>5 DEF Cross!EvenArrives, Cross!Goto, Cross!Post, Cross!Wait, Cross!Taken
  <2>1. Cross!TypeOK'
    BY <1>0 DEF Cross!TypeOK, Cross!Labels, Cross!Odd, CouplesInv, BallInv, Inside
  <2>2. ASSUME NEW p \in {1, 3} PROVE CouplesInv(p)'
    BY <1>0, <1>p, <1>a DEF Cross!TypeOK, Cross!Odd, CouplesInv, BallInv, Inside
  <2>3. ASSUME NEW a \in Balls PROVE BallInv(a)'
    BY <1>0, <1>a DEF Cross!TypeOK, Cross!Odd, CouplesInv, BallInv, Inside
  <2> QED BY <2>1, <2>2, <2>3 DEF CrossInv
<1>6. CASE Cross!EvenMeets(b)
  <2> USE <1>6 DEF Cross!EvenMeets, Cross!Goto, Cross!Post, Cross!Wait, Cross!Taken
  <2>1. Cross!TypeOK'
    BY <1>0 DEF Cross!TypeOK, Cross!Labels, Cross!Odd, CouplesInv, BallInv, Inside
  <2>2. ASSUME NEW p \in {1, 3} PROVE CouplesInv(p)'
    BY <1>0, <1>p, <1>a DEF Cross!TypeOK, Cross!Odd, CouplesInv, BallInv, Inside
  <2>3. ASSUME NEW a \in Balls PROVE BallInv(a)'
    BY <1>0, <1>a DEF Cross!TypeOK, Cross!Odd, CouplesInv, BallInv, Inside
  <2> QED BY <2>1, <2>2, <2>3 DEF CrossInv
<1>7. CASE Cross!EvenReads(b)
  <2> USE <1>7 DEF Cross!EvenReads, Cross!Goto, Cross!Post, Cross!Wait, Cross!Taken
  <2>1. Cross!TypeOK'
    BY <1>0 DEF Cross!TypeOK, Cross!Labels, Cross!Odd, CouplesInv, BallInv, Inside
  <2>2. ASSUME NEW p \in {1, 3} PROVE CouplesInv(p)'
    BY <1>0, <1>p, <1>a DEF Cross!TypeOK, Cross!Odd, CouplesInv, BallInv, Inside
  <2>3. ASSUME NEW a \in Balls PROVE BallInv(a)'
    BY <1>0, <1>a DEF Cross!TypeOK, Cross!Odd, CouplesInv, BallInv, Inside
  <2> QED BY <2>1, <2>2, <2>3 DEF CrossInv
<1>8. CASE Cross!EvenClears(b)
  <2> USE <1>8 DEF Cross!EvenClears, Cross!Cleared, Cross!Goto, Cross!Post, Cross!Wait, Cross!Taken
  <2>1. Cross!TypeOK'
    BY <1>0 DEF Cross!TypeOK, Cross!Labels, Cross!Odd, CouplesInv, BallInv, Inside
  <2>2. ASSUME NEW p \in {1, 3} PROVE CouplesInv(p)'
    BY <1>0, <1>p, <1>a DEF Cross!TypeOK, Cross!Odd, CouplesInv, BallInv, Inside
  <2>3. ASSUME NEW a \in Balls PROVE BallInv(a)'
    BY <1>0, <1>a DEF Cross!TypeOK, Cross!Odd, CouplesInv, BallInv, Inside
  <2> QED BY <2>1, <2>2, <2>3 DEF CrossInv
<1>9. CASE Cross!EvenReturns(b)
  <2> USE <1>9 DEF Cross!EvenReturns, Cross!Goto, Cross!Post, Cross!Wait, Cross!Taken
  <2>1. Cross!TypeOK'
    BY <1>0 DEF Cross!TypeOK, Cross!Labels, Cross!Odd, CouplesInv, BallInv, Inside
  <2>2. ASSUME NEW p \in {1, 3} PROVE CouplesInv(p)'
    BY <1>0, <1>p, <1>a DEF Cross!TypeOK, Cross!Odd, CouplesInv, BallInv, Inside
  <2>3. ASSUME NEW a \in Balls PROVE BallInv(a)'
    BY <1>0, <1>a DEF Cross!TypeOK, Cross!Odd, CouplesInv, BallInv, Inside
  <2> QED BY <2>1, <2>2, <2>3 DEF CrossInv
<1> QED BY <1>1, <1>2, <1>3, <1>4, <1>5, <1>6, <1>7, <1>8, <1>9 DEF Cross!PackBall

(* The invariant holds in every state. *)
LEMMA CrossAlwaysInv ==
  ASSUME ColourOf \in [Balls -> Cross!Colours]
  PROVE  Cross!Spec => []CrossInv
<1>1. CrossInv /\ [Cross!Next]_(Cross!vars) => CrossInv'
  <2> SUFFICES ASSUME CrossInv, [Cross!Next]_(Cross!vars) PROVE CrossInv'
    OBVIOUS
  <2>1. CASE UNCHANGED Cross!vars
    BY <2>1 DEF Cross!vars, Cross!colourVars, CrossInv, Cross!TypeOK, CouplesInv, BallInv,
       Inside
  <2> QED BY <2>1, CrossStepInv DEF Cross!Next
<1> QED BY CrossInitInv, <1>1, PTL DEF Cross!Spec

(***************************************************************************)
(* Slots and semaphores stay in their types: no signal of the handshake is *)
(* ever posted twice, however many balls of both colours come.             *)
(***************************************************************************)
THEOREM CrossTypeCorrect ==
  ASSUME ColourOf \in [Balls -> Cross!Colours]
  PROVE  Cross!Spec => []Cross!TypeOK
<1>1. CrossInv => Cross!TypeOK
  BY DEF CrossInv
<1> QED BY CrossAlwaysInv, <1>1, PTL

(***************************************************************************)
(* The two balls of a pair have each other's id, for every number of balls *)
(* of each colour.                                                         *)
(***************************************************************************)
THEOREM CrossMutualCorrect ==
  ASSUME ColourOf \in [Balls -> Cross!Colours]
  PROVE  Cross!Spec => []Cross!PairsAreMutual
<1>1. CrossInv => Cross!PairsAreMutual
  BY DEF CrossInv, Cross!TypeOK, BallInv, Cross!PairsAreMutual
<1> QED BY CrossAlwaysInv, <1>1, PTL

-----------------------------------------------------------------------------
(* The refinement.  Only EvenMeets makes a pack, and only the two returns
   tell a caller of one. *)

(* Whom a ball goes with changes in EvenMeets alone. *)
LEMMA SamePartner ==
  ASSUME ColourOf \in [Balls -> Cross!Colours], CrossInv,
         NEW b \in Balls, Cross!PackBall(b), ~Cross!EvenMeets(b), NEW a \in Balls
  PROVE  Cross!Partner(a)' = Cross!Partner(a)
<1> DEFINE c == ColourOf[b]
<1> USE BallsAssumption
<1>0. /\ c \in Cross!Colours /\ Cross!OtherColour(c) \in Cross!Colours /\ Cross!OtherColour(c) # c
      /\ Cross!OtherColour(Cross!OtherColour(c)) = c
      /\ Cross!TypeOK /\ BallInv(b) /\ b # NoBall
      /\ Cross!Odd(b) => c \in {1, 3} /\ CouplesInv(c)
      /\ ~Cross!Odd(b) => Cross!OtherColour(c) \in {1, 3} /\ CouplesInv(Cross!OtherColour(c))
  BY BallFacts, ColourPairs
<1>1. /\ ColourOf[a] \in Cross!Colours /\ Cross!OtherColour(ColourOf[a]) \in Cross!Colours
      /\ Cross!OtherColour(Cross!OtherColour(ColourOf[a])) = ColourOf[a]
      /\ Cross!OtherColour(ColourOf[a]) # ColourOf[a]
      /\ BallInv(a) /\ a # NoBall
      /\ Cross!Odd(a) => ColourOf[a] \in {1, 3} /\ CouplesInv(ColourOf[a])
      /\ ~Cross!Odd(a) => /\ Cross!OtherColour(ColourOf[a]) \in {1, 3}
                          /\ CouplesInv(Cross!OtherColour(ColourOf[a]))
  BY BallFacts, ColourPairs
<1>2. CASE Cross!OddArrives(b)
  BY <1>0, <1>1, <1>2 DEF Cross!TypeOK, Cross!Odd, CouplesInv, BallInv, Inside,
     Cross!Partner, Cross!Met,
     Cross!OddArrives, Cross!Goto, Cross!Post, Cross!Wait, Cross!Taken, Cross!colourVars
<1>3. CASE Cross!OddMeets(b)
  BY <1>0, <1>1, <1>3 DEF Cross!TypeOK, Cross!Odd, CouplesInv, BallInv, Inside,
     Cross!Partner, Cross!Met,
     Cross!OddMeets, Cross!OddMayMeet, Cross!Goto, Cross!Post, Cross!Wait, Cross!Taken,
     Cross!colourVars
<1>4. CASE Cross!OddReads(b)
  BY <1>0, <1>1, <1>4 DEF Cross!TypeOK, Cross!Odd, CouplesInv, BallInv, Inside,
     Cross!Partner, Cross!Met,
     Cross!OddReads, Cross!Goto, Cross!Post, Cross!Wait, Cross!Taken, Cross!colourVars
<1>5. CASE Cross!OddReturns(b)
  BY <1>0, <1>1, <1>5 DEF Cross!TypeOK, Cross!Odd, CouplesInv, BallInv, Inside,
     Cross!Partner, Cross!Met,
     Cross!OddReturns, Cross!Goto, Cross!Post, Cross!Wait, Cross!Taken, Cross!colourVars
<1>6. CASE Cross!EvenArrives(b)
  BY <1>0, <1>1, <1>6 DEF Cross!TypeOK, Cross!Odd, CouplesInv, BallInv, Inside,
     Cross!Partner, Cross!Met,
     Cross!EvenArrives, Cross!Goto, Cross!Post, Cross!Wait, Cross!Taken, Cross!colourVars
<1>7. CASE Cross!EvenReads(b)
  BY <1>0, <1>1, <1>7 DEF Cross!TypeOK, Cross!Odd, CouplesInv, BallInv, Inside,
     Cross!Partner, Cross!Met,
     Cross!EvenReads, Cross!Goto, Cross!Post, Cross!Wait, Cross!Taken, Cross!colourVars
<1>8. CASE Cross!EvenClears(b)
  BY <1>0, <1>1, <1>8 DEF Cross!TypeOK, Cross!Odd, CouplesInv, BallInv, Inside,
     Cross!Partner, Cross!Met,
     Cross!EvenClears, Cross!Cleared, Cross!Goto, Cross!Post, Cross!Wait, Cross!Taken,
     Cross!colourVars
<1>9. CASE Cross!EvenReturns(b)
  BY <1>0, <1>1, <1>9 DEF Cross!TypeOK, Cross!Odd, CouplesInv, BallInv, Inside,
     Cross!Partner, Cross!Met,
     Cross!EvenReturns, Cross!Goto, Cross!Post, Cross!Wait, Cross!Taken, Cross!colourVars
<1> QED BY <1>2, <1>3, <1>4, <1>5, <1>6, <1>7, <1>8, <1>9 DEF Cross!PackBall

(* The even ball makes a pack of itself and the odd ball that has arrived. *)
LEMMA MeetingPacks ==
  ASSUME ColourOf \in [Balls -> Cross!Colours], CrossInv,
         NEW b \in Balls, Cross!EvenMeets(b)
  PROVE  Cross!Packing!Pack({ball_id[Cross!OtherColour(ColourOf[b])], b})
<1> DEFINE c == ColourOf[b]
           a == ball_id[Cross!OtherColour(c)]
           S == {a, b}
<1> USE BallsAssumption
<1>0. /\ c \in Cross!Colours /\ Cross!OtherColour(c) \in {1, 3} /\ Cross!OtherColour(c) # c /\ Cross!OtherColour(c) \in Cross!Colours
      /\ Cross!OtherColour(Cross!OtherColour(c)) = c /\ c \notin {1, 3}
      /\ Cross!TypeOK /\ BallInv(b) /\ b # NoBall /\ CouplesInv(Cross!OtherColour(c))
      /\ ~Cross!Odd(b)
  BY BallFacts, ColourPairs DEF Cross!EvenMeets
<1>1. /\ a \in Balls /\ a # NoBall /\ ColourOf[a] = Cross!OtherColour(c) /\ a # b
      /\ pc[a] = "arrived" /\ pc[b] = "arrived" /\ ball_id[c] = b
  BY <1>0 DEF Cross!TypeOK, CouplesInv, BallInv, Inside, Cross!EvenMeets, Cross!Wait
<1>2. BallInv(a) /\ other[a] = NoBall /\ other[b] = NoBall /\ Cross!Odd(a)
  BY <1>0, <1>1 DEF CrossInv, BallInv, Cross!Odd
<1>3. S \in Cross!CrossPacks
  BY <1>0, <1>1 DEF Cross!CrossPacks
<1>4. Cross!Partner(a) = NoBall /\ Cross!Partner(b) = NoBall
  BY <1>0, <1>1, <1>2 DEF Cross!Partner, Cross!Met
<1>5. \A d \in S : Cross!packs[d] = {}
  BY <1>1, <1>4 DEF Cross!packs, Cross!PackOf
<1>6. ASSUME NEW d \in Balls
      PROVE Cross!Partner(d)' = IF d = a THEN b ELSE IF d = b THEN a ELSE Cross!Partner(d)
  <2>0. /\ ColourOf[d] \in Cross!Colours /\ Cross!OtherColour(ColourOf[d]) \in Cross!Colours
        /\ Cross!OtherColour(Cross!OtherColour(ColourOf[d])) = ColourOf[d] /\ BallInv(d)
        /\ d # NoBall
        /\ Cross!Odd(d) => CouplesInv(ColourOf[d])
        /\ ~Cross!Odd(d) => CouplesInv(Cross!OtherColour(ColourOf[d]))
    BY BallFacts, ColourPairs
  <2>1. pc' = [pc EXCEPT ![b] = "met"] /\ other' = other /\ ball_id' = ball_id
    BY DEF Cross!EvenMeets, Cross!Goto
  <2>2. CASE d = a
    BY <1>0, <1>1, <1>2, <2>1, <2>2 DEF Cross!TypeOK, Cross!Partner, Cross!Met, Cross!Odd
  <2>3. CASE d = b
    BY <1>0, <1>1, <1>2, <2>1, <2>3 DEF Cross!TypeOK, Cross!Partner, Cross!Met, Cross!Odd
  <2>4. CASE d # a /\ d # b
    BY <1>0, <1>1, <2>0, <2>1, <2>4 DEF Cross!TypeOK, CouplesInv, BallInv, Inside,
       Cross!Partner, Cross!Met, Cross!Odd
  <2> QED BY <2>2, <2>3, <2>4
<1>7. ASSUME NEW d \in Balls PROVE Cross!PackOf(d)' = IF d \in S THEN S ELSE Cross!PackOf(d)
  <2> HIDE DEF a, c
  <2>1. CASE d = a
    BY <1>0, <1>1, <1>6, <2>1 DEF Cross!PackOf
  <2>2. CASE d = b
    BY <1>0, <1>1, <1>6, <2>2 DEF Cross!PackOf
  <2>3. CASE d # a /\ d # b
    BY <1>6, <2>3 DEF Cross!PackOf
  <2> QED BY <2>1, <2>2, <2>3
<1>8. Cross!packs' = [d \in Balls |-> IF d \in S THEN S ELSE Cross!packs[d]]
  BY <1>7 DEF Cross!packs
<1>9. ASSUME NEW d \in Balls
      PROVE (pc'[d] = "done" <=> pc[d] = "done") /\ other'[d] = other[d]
  BY <1>0, <1>1 DEF Cross!TypeOK, Cross!EvenMeets, Cross!Goto
<1>10. Cross!returned' = Cross!returned
  BY <1>9 DEF Cross!returned
<1> QED BY <1>3, <1>5, <1>8, <1>10 DEF Cross!Packing!Pack

(* A ball that returns has met its partner, and is told its id. *)
LEMMA CrossReturnTells ==
  ASSUME ColourOf \in [Balls -> Cross!Colours], CrossInv,
         NEW b \in Balls, Cross!OddReturns(b) \/ Cross!EvenReturns(b)
  PROVE  Cross!Packing!Return(b)
<1> USE BallsAssumption
<1>0. Cross!TypeOK /\ BallInv(b) /\ b # NoBall
  BY BallFacts
<1>1. /\ other' = other /\ other[b] # NoBall
      /\ pc[b] # "done" /\ pc' = [pc EXCEPT ![b] = "done"]
  BY <1>0 DEF BallInv, Cross!OddReturns, Cross!EvenReturns, Cross!Goto
<1>2. other[b] \in Balls /\ other[b] # b
  <2>1. ColourOf[b] \in Cross!Colours /\ Cross!OtherColour(ColourOf[b]) # ColourOf[b]
    BY ColourPairs
  <2> QED BY <1>0, <1>1, <2>1 DEF Cross!TypeOK, BallInv
<1>3. Cross!packs[b] = {b, other[b]} /\ Cross!returned[b] = {}
  BY <1>1 DEF Cross!packs, Cross!PackOf, Cross!Partner, Cross!returned
<1>4. Cross!packs' = Cross!packs
  <2>1. Cross!PackBall(b) /\ ~Cross!EvenMeets(b)
    BY DEF Cross!PackBall, Cross!OddReturns, Cross!EvenReturns, Cross!EvenMeets
  <2> QED BY <2>1, SamePartner DEF Cross!packs, Cross!PackOf
<1>5. Cross!packs[b] \ {b} = {other[b]}
  BY <1>2, <1>3
<1>6. Cross!returned' = [a \in Balls |-> IF a = b THEN {other[b]} ELSE Cross!returned[a]]
  BY <1>0, <1>1 DEF Cross!TypeOK, Cross!returned
<1>7. Cross!returned' = [Cross!returned EXCEPT ![b] = Cross!packs[b] \ {b}]
  BY <1>5, <1>6 DEF Cross!returned
<1> QED BY <1>3, <1>4, <1>7 DEF Cross!Packing!Return

(* Every other step shows nothing to the callers. *)
LEMMA CrossInnerSteps ==
  ASSUME ColourOf \in [Balls -> Cross!Colours], CrossInv,
         NEW b \in Balls, Cross!PackBall(b),
         ~Cross!EvenMeets(b), ~Cross!OddReturns(b), ~Cross!EvenReturns(b)
  PROVE  Cross!packs' = Cross!packs /\ Cross!returned' = Cross!returned
<1>1. Cross!packs' = Cross!packs
  BY SamePartner DEF Cross!packs, Cross!PackOf
<1>2. ASSUME NEW a \in Balls
      PROVE (pc'[a] = "done" <=> pc[a] = "done") /\ (pc[a] = "done" => other'[a] = other[a])
  BY DEF CrossInv, Cross!TypeOK, Cross!PackBall, Cross!OddArrives, Cross!OddMeets,
     Cross!OddReads, Cross!EvenArrives, Cross!EvenReads,
     Cross!EvenClears, Cross!Cleared, Cross!Goto, Cross!colourVars
<1>3. ASSUME NEW a \in Balls
      PROVE (IF pc'[a] = "done" THEN {other'[a]} ELSE {})
              = (IF pc[a] = "done" THEN {other[a]} ELSE {})
  BY <1>2
<1>4. Cross!returned' = Cross!returned
  BY <1>3 DEF Cross!returned
<1> QED BY <1>1, <1>4

(***************************************************************************)
(* The handshake implements Packing: every ball is put into one pack, with *)
(* a ball of the colour that goes with its own, and is told that ball.     *)
(***************************************************************************)
THEOREM CrossPackingImplemented ==
  ASSUME ColourOf \in [Balls -> Cross!Colours]
  PROVE  Cross!Spec => Cross!ImplementsPacking
<1>1. Cross!Init => Cross!Packing!Init
  BY DEF Cross!Init, Cross!Packing!Init, Cross!packs, Cross!returned, Cross!PackOf,
     Cross!Partner
<1>2. CrossInv /\ [Cross!Next]_(Cross!vars) => [Cross!Packing!Next]_(Cross!Packing!packingVars)
  <2> SUFFICES ASSUME CrossInv, [Cross!Next]_(Cross!vars) PROVE [Cross!Packing!Next]_(Cross!Packing!packingVars)
    OBVIOUS
  <2>1. CASE UNCHANGED Cross!vars
    BY <2>1 DEF Cross!vars, Cross!colourVars, Cross!Packing!packingVars, Cross!packs,
       Cross!returned, Cross!PackOf, Cross!Partner, Cross!Met
  <2>2. ASSUME NEW b \in Balls, Cross!PackBall(b) PROVE [Cross!Packing!Next]_(Cross!Packing!packingVars)
    <3>1. CASE Cross!EvenMeets(b)
      <4>1. {ball_id[Cross!OtherColour(ColourOf[b])], b} \in Cross!CrossPacks
        BY <3>1, MeetingPacks DEF Cross!Packing!Pack
      <4> QED BY <3>1, <4>1, MeetingPacks DEF Cross!Packing!Next
    <3>2. CASE Cross!OddReturns(b) \/ Cross!EvenReturns(b)
      BY <3>2, CrossReturnTells DEF Cross!Packing!Next
    <3>3. CASE ~Cross!EvenMeets(b) /\ ~Cross!OddReturns(b) /\ ~Cross!EvenReturns(b)
      BY <2>2, <3>3, CrossInnerSteps DEF Cross!Packing!packingVars
    <3> QED BY <3>1, <3>2, <3>3
  <2> QED BY <2>1, <2>2 DEF Cross!Next
<1> QED BY CrossAlwaysInv, <1>1, <1>2, PTL DEF Cross!Spec, Cross!ImplementsPacking, Cross!Packing!Spec
=============================================================================
