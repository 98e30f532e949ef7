---------------------------- MODULE PackPacker ----------------------------
(***************************************************************************)
(* The packer of packs of N balls, src/cs2106 lab3/ex2/packer.c, and the   *)
(* driver ex2.c that frees the array of a ball once its thread is done.    *)
(* The first ball lends its own result array to the pack; the balls of the *)
(* middle add their ids to it and wait; the last one wakes them all, and   *)
(* lets the next pack in when they have all copied their results.          *)
(***************************************************************************)
EXTENDS Integers, SequencesExt

CONSTANTS
  Balls,
  Colours,
  ColourOf,
  Id,            \* the id of each ball
  N,             \* balls_per_pack
  Collected,     \* the balls the driver gets to (a bound: it frees them all)
  Junk,          \* what malloc'd memory holds before it is written and after it is freed
  NULL

ASSUME BallsAssumption ==
  /\ ColourOf \in [Balls -> Colours]
  /\ Id \in [Balls -> Int]
  /\ N \in Nat \ {0, 1}
  /\ NULL \notin Balls

NoBall == -1  \* ball_one_id of a pack without balls

VARIABLES
  ball_one_id,
  other_ball_ids,     \* the ball whose array the pack uses
  count_other_balls,
  mutex, safe_to_reset, last_ball_arrived,
  pc,                 \* where each ball is in pack_ball
  posts,              \* the loop counter of the last ball
  other_ids,          \* the array the driver gave each ball
  freed,              \* the balls whose array the driver has freed
  leader,             \* history: the first ball of the pack that each ball is in
  place,              \* history: the place its id got in that ball's array
  spoilt              \* history: the balls that copied an array that was freed
                      \* and reused

colourVars == <<ball_one_id, other_ball_ids, count_other_balls, mutex, safe_to_reset,
                last_ball_arrived>>
history == <<leader, place, spoilt>>
vars == <<colourVars, pc, posts, other_ids, freed, history>>

Goto(b, label) == pc' = [pc EXCEPT ![b] = label]

(* packer_init; the arrays are as malloc leaves them. *)
Init ==
  /\ ball_one_id = [c \in Colours |-> NoBall]
  /\ other_ball_ids = [c \in Colours |-> NULL]
  /\ count_other_balls = [c \in Colours |-> 0]
  /\ mutex = [c \in Colours |-> 1]
  /\ safe_to_reset = [c \in Colours |-> 0]
  /\ last_ball_arrived = [c \in Colours |-> 0]
  /\ pc = [b \in Balls |-> "start"]
  /\ posts = [b \in Balls |-> 0]
  /\ other_ids = [b \in Balls |-> [i \in 1..(N - 1) |-> Junk]]
  /\ freed = {}
  /\ leader = [b \in Balls |-> NULL]
  /\ place = [b \in Balls |-> 0]
  /\ spoilt = {}

-----------------------------------------------------------------------------

(* A seeded fault: the place of the own id is not closed. *)
OwnOverwritten(src, dest, own, first) ==
  [i \in 1..(N - 1) |-> IF i = N - 1 THEN first ELSE src[i]]

(* set_other_ids: the ids other than the ball's own move up, each to the place
   that the number of those before it gives, and the last place is the first
   ball's, whatever was copied there before. *)
WithoutOwn(src, dest, own, first) ==
  LET destIndex(j) == Cardinality({k \in 1..j : src[k] # own})
      MovesTo(j, i) == src[j] # own /\ destIndex(j) = i
  IN [i \in 1..(N - 1) |->
        IF i = N - 1 THEN first
        ELSE IF \E j \in 1..N : MovesTo(j, i) THEN src[CHOOSE j \in 1..N : MovesTo(j, i)]
        ELSE dest[i]]

(* It reads N entries, of which the last is beyond the end of the array.  The
   array may have been freed and reused. *)
SetOtherIds(b) ==
  LET c == ColourOf[b]
      owner == other_ball_ids[c]
      CopiedFrom(src) == [other_ids EXCEPT ![b] = WithoutOwn(src, @, Id[b], ball_one_id[c])]
  IN \/ other_ids' = CopiedFrom(Append(other_ids[owner], Junk)) /\ spoilt' = spoilt
     \/ /\ owner \in freed
        /\ other_ids' = CopiedFrom([i \in 1..N |-> Junk])
        /\ spoilt' = spoilt \cup {b}

(* The next place of the pack's array gets the id of ball b. *)
AddOtherBall(b) ==
  LET c == ColourOf[b] IN
  /\ other_ids' = [other_ids EXCEPT ![other_ball_ids[c]][count_other_balls[c] + 1] = Id[b]]
  /\ count_other_balls' = [count_other_balls EXCEPT ![c] = @ + 1]
  /\ leader' = [leader EXCEPT ![b] = other_ball_ids[c]]
  /\ place' = [place EXCEPT ![b] = count_other_balls[c] + 1]
  /\ UNCHANGED spoilt

-----------------------------------------------------------------------------

(* Case 1.  The mutex is taken and given back. *)
FirstArrives(b) ==
  LET c == ColourOf[b] IN
  /\ pc[b] = "start"
  /\ mutex[c] > 0
  /\ ball_one_id[c] = NoBall
  /\ ball_one_id' = [ball_one_id EXCEPT ![c] = Id[b]]
  /\ count_other_balls' = [count_other_balls EXCEPT ![c] = 0]
  /\ other_ball_ids' = [other_ball_ids EXCEPT ![c] = b]
  /\ Goto(b, "first")
  /\ leader' = [leader EXCEPT ![b] = b]
  /\ UNCHANGED <<mutex, safe_to_reset, last_ball_arrived, posts, other_ids, freed, place, spoilt>>

(* A ball tells the last one that it has its results.  A seeded fault: it does
   not. *)
NotTold(c) == safe_to_reset
ToldToReset(c) == [safe_to_reset EXCEPT ![c] = @ + 1]

FirstReturns(b) ==
  LET c == ColourOf[b] IN
  /\ pc[b] = "first"
  /\ last_ball_arrived[c] > 0
  /\ last_ball_arrived' = [last_ball_arrived EXCEPT ![c] = @ - 1]
  /\ safe_to_reset' = ToldToReset(c)
  /\ Goto(b, "done")
  /\ UNCHANGED <<ball_one_id, other_ball_ids, count_other_balls, mutex, posts, other_ids, freed,
                 history>>

(* Case 2.  The mutex is taken and given back. *)
MiddleArrives(b) ==
  LET c == ColourOf[b] IN
  /\ pc[b] = "start"
  /\ mutex[c] > 0
  /\ ball_one_id[c] # NoBall
  /\ count_other_balls[c] < N - 2
  /\ AddOtherBall(b)
  /\ Goto(b, "middle")
  /\ UNCHANGED <<ball_one_id, other_ball_ids, mutex, safe_to_reset, last_ball_arrived, posts, freed>>

MiddleWakes(b) ==
  LET c == ColourOf[b] IN
  /\ pc[b] = "middle"
  /\ last_ball_arrived[c] > 0
  /\ last_ball_arrived' = [last_ball_arrived EXCEPT ![c] = @ - 1]
  /\ Goto(b, "copying")
  /\ UNCHANGED <<ball_one_id, other_ball_ids, count_other_balls, mutex, safe_to_reset, posts,
                 other_ids, freed, history>>

MiddleReturns(b) ==
  LET c == ColourOf[b] IN
  /\ pc[b] = "copying"
  /\ SetOtherIds(b)
  /\ safe_to_reset' = ToldToReset(c)
  /\ Goto(b, "done")
  /\ UNCHANGED <<ball_one_id, other_ball_ids, count_other_balls, mutex, last_ball_arrived, posts,
                 freed, leader, place>>

(* Case 3.  The last ball keeps the mutex. *)
LastArrives(b) ==
  LET c == ColourOf[b] IN
  /\ pc[b] = "start"
  /\ mutex[c] > 0
  /\ ball_one_id[c] # NoBall
  /\ count_other_balls[c] >= N - 2
  /\ mutex' = [mutex EXCEPT ![c] = @ - 1]
  /\ AddOtherBall(b)
  /\ Goto(b, "last")
  /\ UNCHANGED <<ball_one_id, other_ball_ids, safe_to_reset, last_ball_arrived, posts, freed>>

LastPosts(b) ==
  LET c == ColourOf[b] IN
  /\ pc[b] = "last"
  /\ posts[b] < N - 1
  /\ last_ball_arrived' = [last_ball_arrived EXCEPT ![c] = @ + 1]
  /\ posts' = [posts EXCEPT ![b] = @ + 1]
  /\ UNCHANGED <<ball_one_id, other_ball_ids, count_other_balls, mutex, safe_to_reset, pc,
                 other_ids, freed, history>>

LastCopies(b) ==
  /\ pc[b] = "last"
  /\ posts[b] = N - 1
  /\ SetOtherIds(b)
  /\ posts' = [posts EXCEPT ![b] = 0]
  /\ Goto(b, "collecting")
  /\ UNCHANGED <<colourVars, freed, leader, place>>

LastWaits(b) ==
  LET c == ColourOf[b] IN
  /\ pc[b] = "collecting"
  /\ posts[b] < N - 1
  /\ safe_to_reset[c] > 0
  /\ safe_to_reset' = [safe_to_reset EXCEPT ![c] = @ - 1]
  /\ posts' = [posts EXCEPT ![b] = @ + 1]
  /\ UNCHANGED <<ball_one_id, other_ball_ids, count_other_balls, mutex, last_ball_arrived, pc,
                 other_ids, freed, history>>

LastReturns(b) ==
  LET c == ColourOf[b] IN
  /\ pc[b] = "collecting"
  /\ posts[b] = N - 1
  /\ other_ball_ids' = [other_ball_ids EXCEPT ![c] = NULL]
  /\ ball_one_id' = [ball_one_id EXCEPT ![c] = NoBall]
  /\ mutex' = [mutex EXCEPT ![c] = @ + 1]
  /\ Goto(b, "done")
  /\ UNCHANGED <<count_other_balls, safe_to_reset, last_ball_arrived, posts, other_ids, freed,
                 history>>

PackBall(b) ==
  \/ FirstArrives(b) \/ FirstReturns(b)
  \/ MiddleArrives(b) \/ MiddleWakes(b) \/ MiddleReturns(b)
  \/ LastArrives(b) \/ LastPosts(b) \/ LastCopies(b) \/ LastWaits(b) \/ LastReturns(b)

(* The driver prints the result of a ball whose thread is done, and frees it:
   after its sleep, in which the other balls of the pack need not have run. *)
Collect(b) ==
  /\ b \in Collected \ freed
  /\ pc[b] = "done"
  /\ freed' = freed \cup {b}
  /\ UNCHANGED <<colourVars, pc, posts, other_ids, history>>

Next == \E b \in Balls : PackBall(b) \/ Collect(b)

Spec == Init /\ [][Next]_vars

(* Every ball's thread keeps running when it can, and calls pack_ball once;
   nothing is assumed of the driver. *)
FairSpec == Spec /\ \A b \in Balls : WF_vars(PackBall(b))

-----------------------------------------------------------------------------

(* The balls that arrived since the first one of b's pack did, b included. *)
Group(b) == {a \in Balls : leader[a] = leader[b]}

Others(b) == Group(b) \ {b}

(* The other balls, whose ids b is to be told.  After the first of the pack the
   code takes every ball with the id of b for b itself. *)
Heard(b) == {a \in Others(b) : leader[b] \in {a, b} \/ Id[a] # Id[b]}

(* "Write the ids of the other balls (in any order)": each of them has a place
   of its own in the array of b. *)
ToldOthers(b) ==
  \E f \in Injection(Heard(b), 1..(N - 1)) : \A a \in Heard(b) : other_ids[b][f[a]] = Id[a]

(* An array that was freed tells nothing. *)
IsTold(b) == ToldOthers(b) \/ b \in spoilt

(***************************************************************************)
(* Each step is a step of Packing, or none: the ball that fills a group    *)
(* makes it a pack.  A ball that returns without having been told of the   *)
(* others counts as one that was told of itself, which Packing never does. *)
(***************************************************************************)
IsFull(b) == leader[b] # NULL /\ Cardinality(Group(b)) = N

packs == [b \in Balls |-> IF IsFull(b) THEN Group(b) ELSE {}]
returned ==
  [b \in Balls |-> IF pc[b] # "done" THEN {} ELSE IF IsTold(b) THEN Others(b) ELSE {b}]

FullPacks == UNION {kSubset(N, {b \in Balls : ColourOf[b] = c}) : c \in Colours}

Packing == INSTANCE Packing WITH Packs <- FullPacks, pack <- packs, told <- returned

ImplementsPacking == Packing!Spec

(***************************************************************************)
(* Fewer balls of a colour than fill a pack are left waiting in the end.   *)
(***************************************************************************)
AllPacksReturn ==
  <>[](\A c \in Colours :
         Cardinality({b \in Balls : ColourOf[b] = c /\ pc[b] # "done"}) < N)
=============================================================================
