-------------------------- MODULE PackPackerProofs --------------------------
(***************************************************************************)
(* The packer of packs of N balls, for all N > 1, all sets of balls and    *)
(* colours, ids that may be the same and a driver that frees an array at   *)
(* any time: it implements Packing, as long as no ball has the id that     *)
(* stands for an empty pack.                                               *)
(*                                                                         *)
(* A colour is open while its mutex is up and closed while the last ball   *)
(* of a pack has it.  Of an open colour the invariant says who the first   *)
(* ball is and which places of its array the others have (OpenInv).  Of a  *)
(* closed one it counts (LastInv): the posts the last ball has made are    *)
(* those still in last_ball_arrived and the balls they woke, and the balls *)
(* that are back are those still in safe_to_reset and those the last ball  *)
(* has waited for; so the array is not reused before every ball of the     *)
(* pack has copied it, and no post is left for the pack that comes next.   *)
(* Of a ball that has its results, BallInv says that its group is a full   *)
(* pack and that it was told of the others.                                *)
(***************************************************************************)
EXTENDS PackPacker, FiniteSetTheorems, SequenceTheorems, TLAPS

(* No id is the mark of an empty pack. *)
NoMinusOne == \A b \in Balls : Id[b] # NoBall

Labels == {"start", "first", "middle", "copying", "last", "collecting", "done"}

TypeOK ==
  /\ ball_one_id \in [Colours -> Int]
  /\ other_ball_ids \in [Colours -> Balls \cup {NULL}]
  /\ count_other_balls \in [Colours -> Nat]
  /\ mutex \in [Colours -> {0, 1}]
  /\ safe_to_reset \in [Colours -> Nat]
  /\ last_ball_arrived \in [Colours -> Nat]
  /\ pc \in [Balls -> Labels]
  /\ posts \in [Balls -> Nat]
  /\ other_ids \in [Balls -> [1..(N - 1) -> Int \cup {Junk}]]
  /\ freed \in SUBSET Balls
  /\ leader \in [Balls -> Balls \cup {NULL}]
  /\ place \in [Balls -> Nat]
  /\ spoilt \in SUBSET Balls

Owner(c) == other_ball_ids[c]

(* The balls whose ids the array of the pack holds. *)
Added(c) == {a \in Balls : ColourOf[a] = c /\ leader[a] = Owner(c) /\ a # Owner(c)}

Members(c) == Added(c) \cup {Owner(c)}

PackInv(c) ==
  LET o == Owner(c)
      count == count_other_balls[c]
  IN /\ o \in Balls /\ ColourOf[o] = c /\ Id[o] = ball_one_id[c] /\ leader[o] = o
     /\ count \in 0..(N - 1)
     /\ \A a \in Added(c) : place[a] \in 1..count /\ other_ids[o][place[a]] = Id[a]
     /\ \A a, x \in Added(c) : place[a] = place[x] => a = x
     /\ \A i \in 1..count : \E a \in Added(c) : place[a] = i
     /\ IsFiniteSet(Added(c)) /\ Cardinality(Added(c)) = count

OpenInv(c) ==
  /\ last_ball_arrived[c] = 0 /\ safe_to_reset[c] = 0
  /\ \A b \in Balls : ColourOf[b] = c =>
       /\ pc[b] \in {"start", "first", "middle", "done"}
       /\ pc[b] = "first" <=> ball_one_id[c] # NoBall /\ b = Owner(c)
       /\ pc[b] = "middle" <=> ball_one_id[c] # NoBall /\ b \in Added(c)
  /\ ball_one_id[c] # NoBall => PackInv(c) /\ count_other_balls[c] <= N - 2

Woken(c) == {a \in Members(c) : pc[a] \in {"copying", "done"}}
Back(c) == {a \in Members(c) : pc[a] = "done"}

LastInv(c, l) ==
  /\ l \in Added(c)
  /\ pc[l] \in {"last", "collecting"}
  /\ posts[l] <= N - 1
  /\ pc[Owner(c)] \in {"first", "done"}
  /\ \A a \in Added(c) \ {l} : pc[a] \in {"middle", "copying", "done"}
  /\ last_ball_arrived[c] + Cardinality(Woken(c)) = IF pc[l] = "last" THEN posts[l] ELSE N - 1
  /\ safe_to_reset[c] + (IF pc[l] = "collecting" THEN posts[l] ELSE 0) = Cardinality(Back(c))

ClosedInv(c) ==
  /\ ball_one_id[c] # NoBall /\ PackInv(c) /\ count_other_balls[c] = N - 1
  /\ \E l \in Balls : LastInv(c, l)
  /\ \A b \in Balls : ColourOf[b] = c /\ b \notin Members(c) => pc[b] \in {"start", "done"}

ColourInv(c) == IF mutex[c] = 1 THEN OpenInv(c) ELSE ClosedInv(c)

(* A ball that has its results. *)
HasResults(b) == pc[b] \in {"collecting", "done"}

BallInv(b) ==
  /\ pc[b] = "start" => posts[b] = 0
  /\ pc[b] = "start" <=> leader[b] = NULL
  /\ leader[b] # NULL => ColourOf[leader[b]] = ColourOf[b] /\ leader[leader[b]] = leader[b]
  /\ HasResults(b) => IsFull(b) /\ IsTold(b)

Inv ==
  /\ TypeOK
  /\ \A c \in Colours : ColourInv(c)
  /\ \A b \in Balls : BallInv(b)

-----------------------------------------------------------------------------

(* Where set_other_ids puts what it finds at place j of array src. *)
MovedTo(src, own, j) == Cardinality({m \in 1..j : src[m] # own})

(* Every id of src that is not the own one has a place of its own in w, before
   that of the first. *)
OthersMoved(w, src, own, first) ==
  /\ w[N - 1] = first
  /\ \A j \in 1..(N - 1) : src[j] # own =>
       MovedTo(src, own, j) \in 1..(N - 2) /\ w[MovedTo(src, own, j)] = src[j]
  /\ \A i, j \in 1..(N - 1) :
       src[i] # own /\ src[j] # own /\ MovedTo(src, own, i) = MovedTo(src, own, j) => i = j

LEMMA OwnRemoved ==
  ASSUME NEW src, NEW dest, NEW own, NEW first, NEW k \in 1..(N - 1), src[k] = own
  PROVE  OthersMoved(WithoutOwn(src, dest, own, first), src, own, first)
<1> DEFINE before(j) == {m \in 1..j : src[m] # own}
           to(j) == MovedTo(src, own, j)
           MovesTo(j, i) == src[j] # own /\ to(j) = i
           w == WithoutOwn(src, dest, own, first)
<1>0. N \in Nat /\ N > 1 /\ k \in Nat /\ k > 0 /\ k < N
  BY BallsAssumption
<1>1. \A j : to(j) = Cardinality(before(j))
  BY DEF MovedTo
<1>2. ASSUME NEW j \in 1..N PROVE IsFiniteSet(before(j)) /\ to(j) \in Nat
  <2>1. IsFiniteSet(1..j) /\ before(j) \subseteq 1..j
    BY <1>0, FS_Interval
  <2> HIDE DEF before
  <2>2. IsFiniteSet(before(j))
    BY <2>1, FS_Subset
  <2> QED BY <1>1, <2>2, FS_CardinalityType
<1> HIDE DEF to
<1>3. ASSUME NEW i \in 1..N, NEW j \in 1..N, i < j, src[j] # own PROVE to(i) < to(j)
  <2>1. before(i) \cup {j} \subseteq before(j) /\ j \notin before(i)
    BY <1>0, <1>3
  <2> HIDE DEF before
  <2>2. Cardinality(before(i) \cup {j}) = to(i) + 1
    BY <1>1, <1>2, <2>1, FS_AddElement
  <2>3. Cardinality(before(i) \cup {j}) <= to(j)
    BY <1>1, <1>2, <2>1, FS_Subset
  <2> QED BY <1>2, <2>2, <2>3
<1>4. ASSUME NEW i \in 1..N, NEW j \in 1..N, src[i] # own, src[j] # own, to(i) = to(j) PROVE i = j
  <2>1. to(i) \in Nat /\ to(j) \in Nat
    BY <1>2
  <2>2. ~ i < j /\ ~ j < i
    BY <1>3, <1>4, <2>1
  <2> QED BY <1>0, <2>2
<1>5. ASSUME NEW j \in 1..(N - 1), src[j] # own PROVE j \in 1..N /\ to(j) \in 1..(N - 2)
  <2>1. j \in 1..N
    BY <1>0
  <2>2. before(j) # {}
    BY <1>0, <1>5
  <2>3. before(j) \subseteq (1..(N - 1)) \ {k}
    BY <1>0
  <2>4. IsFiniteSet((1..(N - 1)) \ {k}) /\ Cardinality((1..(N - 1)) \ {k}) = N - 2
    <3>1. IsFiniteSet(1..(N - 1)) /\ Cardinality(1..(N - 1)) = N - 1
      BY <1>0, FS_Interval
    <3>2. PICK S : S = 1..(N - 1)
      OBVIOUS
    <3>3. IsFiniteSet(S \ {k}) /\ Cardinality(S \ {k}) = N - 1 - 1
      BY <3>1, <3>2, FS_RemoveElement
    <3> QED BY <1>0, <3>2, <3>3
  <2> HIDE DEF before
  <2>5. to(j) <= N - 2
    BY <1>1, <2>3, <2>4, FS_Subset
  <2>6. to(j) # 0
    BY <1>1, <1>2, <2>1, <2>2, FS_EmptySet
  <2> QED BY <1>0, <1>2, <2>1, <2>5, <2>6
<1>6. w = [i \in 1..(N - 1) |->
             IF i = N - 1 THEN first
             ELSE IF \E j \in 1..N : MovesTo(j, i) THEN src[CHOOSE j \in 1..N : MovesTo(j, i)]
             ELSE dest[i]]
  BY DEF WithoutOwn, to, MovedTo
<1>7. ASSUME NEW j \in 1..(N - 1), src[j] # own PROVE w[to(j)] = src[j]
  <2>1. j \in 1..N /\ to(j) \in 1..(N - 1) /\ to(j) # N - 1
    BY <1>0, <1>5, <1>7
  <2>2. \A m \in 1..N : MovesTo(m, to(j)) <=> m = j
    BY <1>4, <1>7, <2>1
  <2> HIDE DEF MovesTo, w
  <2>3. (CHOOSE m \in 1..N : MovesTo(m, to(j))) = j
    BY <2>1, <2>2
  <2> QED BY <1>6, <2>1, <2>2, <2>3
<1>8. w[N - 1] = first
  BY <1>0, <1>6
<1>9. \A i \in 1..(N - 1) : i \in 1..N
  BY <1>0
<1> QED BY <1>4, <1>5, <1>7, <1>8, <1>9 DEF to, OthersMoved

(* Whatever it reads, it fills an array. *)
LEMMA CopyTyped ==
  ASSUME NEW src \in [1..N -> Int \cup {Junk}], NEW dest \in [1..(N - 1) -> Int \cup {Junk}],
         NEW own, NEW first \in Int
  PROVE  WithoutOwn(src, dest, own, first) \in [1..(N - 1) -> Int \cup {Junk}]
<1> DEFINE MovesTo(j, i) == src[j] # own /\ Cardinality({k \in 1..j : src[k] # own}) = i
           entry(i) == IF i = N - 1 THEN first
                       ELSE IF \E j \in 1..N : MovesTo(j, i)
                            THEN src[CHOOSE j \in 1..N : MovesTo(j, i)]
                            ELSE dest[i]
<1>1. WithoutOwn(src, dest, own, first) = [i \in 1..(N - 1) |-> entry(i)]
  BY DEF WithoutOwn
<1> HIDE DEF MovesTo
<1>2. ASSUME NEW i \in 1..(N - 1) PROVE entry(i) \in Int \cup {Junk}
  OBVIOUS
<1> HIDE DEF entry
<1> QED BY <1>1, <1>2

-----------------------------------------------------------------------------
(* What the steps have in common. *)

(* packer_init: every colour is open and empty. *)
LEMMA InitInv == Init => Inv
<1> SUFFICES ASSUME Init PROVE Inv
  OBVIOUS
<1>1. TypeOK
  BY BallsAssumption DEF Init, TypeOK, Labels, NoBall
<1>2. ASSUME NEW c \in Colours PROVE ColourInv(c)
  BY DEF Init, ColourInv, OpenInv, NoBall
<1>3. ASSUME NEW b \in Balls PROVE BallInv(b)
  BY DEF Init, BallInv, HasResults
<1> QED BY <1>1, <1>2, <1>3 DEF Inv

(* A step that changes nothing of colour d or its balls. *)
Keeps(d) ==
  /\ ball_one_id'[d] = ball_one_id[d] /\ other_ball_ids'[d] = other_ball_ids[d]
  /\ count_other_balls'[d] = count_other_balls[d] /\ mutex'[d] = mutex[d]
  /\ safe_to_reset'[d] = safe_to_reset[d] /\ last_ball_arrived'[d] = last_ball_arrived[d]
  /\ \A a \in Balls : ColourOf[a] = d =>
       /\ pc'[a] = pc[a] /\ posts'[a] = posts[a] /\ other_ids'[a] = other_ids[a]
       /\ leader'[a] = leader[a] /\ place'[a] = place[a]

(* A pack whose variables are left alone stays as it is. *)
LEMMA PackStays ==
  ASSUME NEW c \in Colours, PackInv(c),
         ball_one_id'[c] = ball_one_id[c], other_ball_ids'[c] = other_ball_ids[c],
         count_other_balls'[c] = count_other_balls[c],
         other_ids'[Owner(c)] = other_ids[Owner(c)],
         \A a \in Balls : ColourOf[a] = c => leader'[a] = leader[a] /\ place'[a] = place[a]
  PROVE  PackInv(c)' /\ Owner(c)' = Owner(c) /\ Added(c)' = Added(c) /\ Members(c)' = Members(c)
<1>1. Owner(c)' = Owner(c)
  BY DEF Owner
<1>2. Added(c)' = Added(c) /\ \A a \in Added(c) : place'[a] = place[a]
  BY <1>1 DEF Added
<1>3. Members(c)' = Members(c)
  BY <1>1, <1>2 DEF Members
<1>4. leader'[Owner(c)] = leader[Owner(c)]
  BY DEF PackInv
<1>5. PackInv(c)'
  BY <1>1, <1>2, <1>4 DEF PackInv
<1> QED BY <1>1, <1>2, <1>3, <1>5

(* The balls of a pack are of its colour, and one more than the array holds. *)
LEMMA PackOfColour ==
  ASSUME NEW c \in Colours, PackInv(c)
  PROVE  /\ \A a \in Members(c) : a \in Balls /\ ColourOf[a] = c /\ leader[a] = Owner(c)
         /\ Owner(c) \in Members(c) /\ Owner(c) \notin Added(c)
         /\ \A a : a \in Members(c) <=> a \in Added(c) \/ a = Owner(c)
         /\ IsFiniteSet(Members(c)) /\ Cardinality(Members(c)) = count_other_balls[c] + 1
<1>1. Owner(c) \notin Added(c)
  BY DEF Added
<1>2. IsFiniteSet(Members(c)) /\ Cardinality(Members(c)) = count_other_balls[c] + 1
  BY <1>1, FS_AddElement DEF PackInv, Members
<1> QED BY <1>1, <1>2 DEF PackInv, Members, Added

(* A pack is the group of each of its balls, and has all balls that follow its
   first one. *)
LEMMA PackIsGroup ==
  ASSUME \A x \in Balls : BallInv(x), NULL \notin Balls, NEW c \in Colours, PackInv(c),
         NEW a \in Balls
  PROVE  /\ leader[a] = Owner(c) <=> a \in Members(c)
         /\ a \in Members(c) => Group(a) = Members(c)
<1>1. ASSUME NEW x \in Balls PROVE leader[x] = Owner(c) <=> x \in Members(c)
  <2>1. leader[x] = Owner(c) => ColourOf[x] = c
    BY DEF PackInv, BallInv
  <2> QED BY <2>1, PackOfColour DEF Members, Added
<1>2. a \in Members(c) => Group(a) = {x \in Balls : leader[x] = Owner(c)}
  BY <1>1 DEF Group
<1>3. Members(c) \subseteq Balls
  BY PackOfColour
<1> QED BY <1>1, <1>2, <1>3

(* Only the balls of its colour matter to a pack. *)
LEMMA OtherColour ==
  ASSUME TypeOK, NEW d \in Colours, ColourInv(d), Keeps(d)
  PROVE  ColourInv(d)'
<1> USE DEF Keeps
<1>1. Owner(d)' = Owner(d)
  BY DEF Owner
<1>2. ASSUME ball_one_id[d] # NoBall, PackInv(d)
      PROVE  /\ Added(d)' = Added(d) /\ Members(d)' = Members(d) /\ PackInv(d)'
             /\ \A a \in Members(d) : a \in Balls /\ ColourOf[a] = d
  <2>1. Owner(d) \in Balls /\ ColourOf[Owner(d)] = d /\ other_ids'[Owner(d)] = other_ids[Owner(d)]
    BY <1>2 DEF PackInv
  <2>2. Added(d)' = Added(d) /\ Members(d)' = Members(d) /\ PackInv(d)'
    BY <1>2, <2>1, PackStays
  <2> QED BY <1>2, <2>2, PackOfColour
<1>3. CASE mutex[d] = 1
  <2>1. OpenInv(d)'
    BY <1>1, <1>2, <1>3 DEF ColourInv, OpenInv
  <2> QED BY <1>3, <2>1 DEF ColourInv
<1>4. CASE mutex[d] # 1
  <2>1. ClosedInv(d)
    BY <1>4 DEF ColourInv
  <2>2. /\ Added(d)' = Added(d) /\ Members(d)' = Members(d) /\ PackInv(d)'
        /\ \A a \in Members(d) : a \in Balls /\ ColourOf[a] = d
    BY <1>2, <2>1 DEF ClosedInv
  <2>3. Woken(d)' = Woken(d) /\ Back(d)' = Back(d)
    BY <2>2 DEF Woken, Back
  <2>4. ASSUME NEW l \in Balls, LastInv(d, l) PROVE LastInv(d, l)'
    <3>1. l \in Members(d) /\ Owner(d) \in Members(d) /\ Added(d) \subseteq Members(d)
      BY <2>4 DEF LastInv, Members
    <3>2. /\ pc'[l] = pc[l] /\ posts'[l] = posts[l] /\ pc'[Owner(d)] = pc[Owner(d)]
          /\ \A a \in Added(d) : pc'[a] = pc[a]
      BY <2>2, <3>1
    <3> QED BY <1>1, <2>2, <2>3, <2>4, <3>2 DEF LastInv
  <2>6. ClosedInv(d)'
    BY <2>1, <2>2, <2>4 DEF ClosedInv
  <2> QED BY <1>4, <2>6 DEF ColourInv
<1> QED BY <1>3, <1>4

(* A ball that arrives is in the group of its leader only. *)
LEMMA ArrivalGroups ==
  ASSUME TypeOK, NEW b \in Balls, leader[b] = NULL, NEW o \in Balls,
         leader' = [leader EXCEPT ![b] = o], NEW a \in Balls, a # b, leader[a] # o
  PROVE  leader'[a] = leader[a] /\ (leader[a] # NULL => Group(a)' = Group(a))
<1>1. \A x \in Balls : leader'[x] = IF x = b THEN o ELSE leader[x]
  BY DEF TypeOK
<1> QED BY <1>1 DEF Group

(* A ball keeps its results. *)
LEMMA ResultsStay ==
  ASSUME NEW a \in Balls, HasResults(a), BallInv(a), leader'[a] = leader[a], Group(a)' = Group(a),
         other_ids'[a] = other_ids[a], spoilt \subseteq spoilt'
  PROVE  IsFull(a)' /\ IsTold(a)'
<1>1. IsFull(a) /\ IsTold(a)
  BY DEF BallInv
<1>2. Heard(a)' = Heard(a)
  BY DEF Heard, Others
<1>3. ToldOthers(a) => ToldOthers(a)'
  BY <1>2 DEF ToldOthers
<1> QED BY <1>1, <1>3 DEF IsFull, IsTold

(* The array of the pack gets the id of another ball. *)
LEMMA BallAdded ==
  ASSUME TypeOK, \A x \in Balls : BallInv(x), NEW b \in Balls, NEW c, c = ColourOf[b], c \in Colours,
         PackInv(c), pc[b] = "start", count_other_balls[c] <= N - 2,
         AddOtherBall(b), UNCHANGED <<ball_one_id, other_ball_ids>>
  PROVE  /\ PackInv(c)' /\ Owner(c)' = Owner(c) /\ Added(c)' = Added(c) \cup {b}
         /\ b \notin Members(c)
         /\ count_other_balls'[c] = count_other_balls[c] + 1
         /\ \A d \in Colours \ {c} : count_other_balls'[d] = count_other_balls[d]
         /\ \A a \in Balls \ {Owner(c)} : other_ids'[a] = other_ids[a]
         /\ count_other_balls' \in [Colours -> Nat]
         /\ other_ids' \in [Balls -> [1..(N - 1) -> Int \cup {Junk}]]
         /\ leader' \in [Balls -> Balls \cup {NULL}]
         /\ place' \in [Balls -> Nat]
<1> DEFINE o == Owner(c)
           n == count_other_balls[c]
<1>1. /\ N \in Nat /\ n \in Nat /\ n < N - 1 /\ o \in Balls /\ Id[b] \in Int /\ n + 1 \in 1..(N - 1)
      /\ other_ids[o] \in [1..(N - 1) -> Int \cup {Junk}] /\ NULL \notin Balls
  BY BallsAssumption DEF TypeOK, PackInv
<1>2. Owner(c)' = o
  BY DEF Owner
<1>3. /\ count_other_balls' = [count_other_balls EXCEPT ![c] = n + 1]
      /\ other_ids' = [other_ids EXCEPT ![o] = [other_ids[o] EXCEPT ![n + 1] = Id[b]]]
      /\ leader' = [leader EXCEPT ![b] = o]
      /\ place' = [place EXCEPT ![b] = n + 1]
  BY DEF AddOtherBall, Owner
<1>4. /\ count_other_balls'[c] = n + 1
      /\ \A d \in Colours \ {c} : count_other_balls'[d] = count_other_balls[d]
      /\ count_other_balls' \in [Colours -> Nat]
  <2>1. count_other_balls \in [Colours -> Nat]
    BY DEF TypeOK
  <2> QED BY <1>1, <1>3, <2>1
<1>5. /\ \A a \in Balls \ {o} : other_ids'[a] = other_ids[a]
      /\ other_ids'[o] = [other_ids[o] EXCEPT ![n + 1] = Id[b]]
      /\ other_ids' \in [Balls -> [1..(N - 1) -> Int \cup {Junk}]]
  <2>1. other_ids \in [Balls -> [1..(N - 1) -> Int \cup {Junk}]]
    BY DEF TypeOK
  <2> QED BY <1>1, <1>3, <2>1
<1>l. /\ leader'[b] = o /\ \A a \in Balls \ {b} : leader'[a] = leader[a] /\ place'[a] = place[a]
      /\ place'[b] = n + 1
      /\ leader' \in [Balls -> Balls \cup {NULL}] /\ place' \in [Balls -> Nat]
  <2>1. leader \in [Balls -> Balls \cup {NULL}] /\ place \in [Balls -> Nat]
    BY DEF TypeOK
  <2> QED BY <1>1, <1>3, <2>1
<1>6. /\ \A i \in 1..n : other_ids'[o][i] = other_ids[o][i]
      /\ other_ids'[o][n + 1] = Id[b]
      /\ 1..(n + 1) = (1..n) \cup {n + 1}
  BY <1>1, <1>5
<1>8. b \notin Members(c) /\ b # o /\ b \notin Added(c)
  BY <1>1, PackOfColour DEF BallInv
<1>7. Added(c)' = Added(c) \cup {b}
  BY <1>2, <1>l, <1>8 DEF Added
<1>9. IsFiniteSet(Added(c)') /\ Cardinality(Added(c)') = n + 1
  BY <1>7, <1>8, FS_AddElement DEF PackInv
<1>10. \A a \in Added(c) : a \in Balls \ {b} /\ place[a] \in 1..n /\ other_ids[o][place[a]] = Id[a]
  BY <1>8 DEF PackInv, Added
<1>11. /\ \A a \in Added(c)' : place'[a] \in 1..(n + 1) /\ other_ids'[o][place'[a]] = Id[a]
       /\ \A a, x \in Added(c)' : place'[a] = place'[x] => a = x
       /\ \A i \in 1..(n + 1) : \E a \in Added(c)' : place'[a] = i
  <2>1. ASSUME NEW a \in Added(c)'
        PROVE place'[a] \in 1..(n + 1) /\ other_ids'[o][place'[a]] = Id[a]
    <3>1. CASE a = b
      BY <1>1, <1>6, <1>l, <3>1
    <3>2. CASE a # b
      <4>1. a \in Added(c) /\ place'[a] = place[a]
        BY <1>7, <1>10, <1>l, <3>2
      <4> QED BY <1>6, <1>10, <4>1
    <3> QED BY <3>1, <3>2
  <2>2. ASSUME NEW a \in Added(c)', NEW x \in Added(c)', place'[a] = place'[x] PROVE a = x
    <3>1. \A y \in Added(c) : place'[y] = place[y] /\ place[y] # n + 1
      BY <1>1, <1>10, <1>l
    <3> QED BY <1>7, <1>l, <2>2, <3>1 DEF PackInv
  <2>3. ASSUME NEW i \in 1..(n + 1) PROVE \E a \in Added(c)' : place'[a] = i
    <3>1. CASE i = n + 1
      BY <1>7, <1>l, <3>1
    <3>2. CASE i \in 1..n
      <4>1. PICK a \in Added(c) : place[a] = i
        BY <3>2 DEF PackInv
      <4> QED BY <1>7, <1>10, <1>l, <4>1
    <3> QED BY <1>6, <3>1, <3>2
  <2> QED BY <2>1, <2>2, <2>3
<1>12. PackInv(c)'
  <2>1. o \in Balls /\ ColourOf[o] = c /\ Id[o] = ball_one_id'[c] /\ leader'[o] = o
    BY <1>8, <1>l DEF PackInv
  <2>2. n + 1 \in 0..(N - 1)
    BY <1>1
  <2> QED BY <1>2, <1>4, <1>9, <1>11, <2>1, <2>2 DEF PackInv
<1> QED BY <1>2, <1>4, <1>5, <1>7, <1>8, <1>l, <1>12

(* The first ball of a full pack has the others in its own array. *)
LEMMA FirstTold ==
  ASSUME \A x \in Balls : BallInv(x), NEW c \in Colours, PackInv(c),
         count_other_balls[c] = N - 1
  PROVE  ToldOthers(Owner(c))
<1> DEFINE o == Owner(c)
           f == [a \in Added(c) |-> place[a]]
<1>1. Heard(o) = Added(c) /\ o \in Balls
  BY BallsAssumption, PackOfColour, PackIsGroup DEF Heard, Others, PackInv
<1>2. \A a \in Added(c) : place[a] \in 1..(N - 1) /\ other_ids[o][place[a]] = Id[a]
  BY DEF PackInv
<1>3. f \in [Added(c) -> 1..(N - 1)]
  BY <1>2
<1>4. IsInjective(f)
  BY DEF IsInjective, PackInv
<1>5. f \in Injection(Heard(o), 1..(N - 1)) /\ \A a \in Heard(o) : other_ids[o][f[a]] = Id[a]
  BY <1>1, <1>2, <1>3, <1>4 DEF Injection
<1> HIDE DEF f
<1> QED BY <1>5 DEF ToldOthers

(* A ball after the first copies the ids of the others that differ from its own,
   unless what it reads was freed. *)
LEMMA OthersTold ==
  ASSUME TypeOK, \A x \in Balls : BallInv(x), NEW b \in Balls, NEW c, c = ColourOf[b], c \in Colours,
         PackInv(c), count_other_balls[c] = N - 1, b \in Added(c),
         SetOtherIds(b), UNCHANGED leader
  PROVE  /\ IsTold(b)'
         /\ \A a \in Balls \ {b} : other_ids'[a] = other_ids[a]
         /\ other_ids' \in [Balls -> [1..(N - 1) -> Int \cup {Junk}]]
         /\ spoilt \subseteq spoilt' /\ spoilt' \subseteq Balls
<1> DEFINE o == Owner(c)
           first == ball_one_id[c]
<1>1. /\ N \in Nat /\ N > 1 /\ N - 1 \in Nat /\ o \in Balls /\ b # o
      /\ other_ids[o] \in [1..(N - 1) -> Int \cup {Junk}] /\ first = Id[o] /\ first \in Int
      /\ other_ids[b] \in [1..(N - 1) -> Int \cup {Junk}]
  <2>1. N \in Nat /\ N > 1 /\ Id \in [Balls -> Int]
    BY BallsAssumption
  <2>2. o \in Balls /\ b # o /\ first = Id[o]
    BY DEF PackInv, Added
  <2>3. other_ids[o] \in [1..(N - 1) -> Int \cup {Junk}] /\ other_ids[b] \in [1..(N - 1) -> Int \cup {Junk}]
    BY <2>2 DEF TypeOK
  <2> QED BY <2>1, <2>2, <2>3
<1>2. ASSUME NEW src \in [1..N -> Int \cup {Junk}],
             other_ids' = [other_ids EXCEPT ![b] = WithoutOwn(src, @, Id[b], first)]
      PROVE  /\ \A a \in Balls \ {b} : other_ids'[a] = other_ids[a]
             /\ other_ids'[b] = WithoutOwn(src, other_ids[b], Id[b], first)
             /\ other_ids' \in [Balls -> [1..(N - 1) -> Int \cup {Junk}]]
  <2>1. WithoutOwn(src, other_ids[b], Id[b], first) \in [1..(N - 1) -> Int \cup {Junk}]
    BY <1>1, CopyTyped
  <2> QED BY <1>2, <2>1 DEF TypeOK
<1>3. CASE /\ other_ids' = [other_ids EXCEPT ![b] =
                              WithoutOwn(Append(other_ids[o], Junk), @, Id[b], first)]
           /\ spoilt' = spoilt
  <2> DEFINE arr == other_ids[o]
             src == Append(arr, Junk)
             w == other_ids'[b]
  <2>1. arr \in Seq(Int \cup {Junk}) /\ Len(arr) = N - 1
    <3>1. arr \in [1..(N - 1) -> Int \cup {Junk}]
      BY <1>1
    <3> HIDE DEF arr
    <3>2. arr \in Seq(Int \cup {Junk})
      BY <1>1, <3>1, SeqDef
    <3> QED BY <1>1, <3>1, <3>2, LenProperties
  <2>2. \A j \in 1..(N - 1) : src[j] = other_ids[o][j]
    <3> HIDE DEF arr
    <3>1. \A j \in 1..(N - 1) : Append(arr, Junk)[j] = arr[j]
      BY <1>1, <2>1, AppendProperties
    <3> QED BY <3>1 DEF arr
  <2>3. src \in [1..N -> Int \cup {Junk}]
    <3> HIDE DEF arr
    <3>1. src \in Seq(Int \cup {Junk}) /\ Len(src) = N
      BY <1>1, <2>1, AppendProperties
    <3> HIDE DEF src
    <3> QED BY <3>1, LenProperties, ElementOfSeq
  <2> HIDE DEF arr, src, w
  <2>4. /\ \A a \in Balls \ {b} : other_ids'[a] = other_ids[a]
        /\ w = WithoutOwn(src, other_ids[b], Id[b], first)
        /\ other_ids' \in [Balls -> [1..(N - 1) -> Int \cup {Junk}]]
    BY <1>2, <1>3, <2>3 DEF src, arr, w
  <2> DEFINE k == place[b]
             own == Id[b]
  <2>5. /\ \A a \in Added(c) : place[a] \in 1..(N - 1) /\ src[place[a]] = Id[a]
        /\ \A a, x \in Added(c) : place[a] = place[x] => a = x
    BY <2>2 DEF PackInv
  <2>6. Others(b) = Members(c) \ {b} /\ leader[b] = o
    BY BallsAssumption, PackOfColour, PackIsGroup DEF Others
  <2>7. OthersMoved(w, src, own, first)
    <3>1. k \in 1..(N - 1) /\ src[k] = own
      BY <2>5
    <3> HIDE DEF k, own
    <3>2. OthersMoved(WithoutOwn(src, other_ids[b], own, first), src, own, first)
      BY <3>1, OwnRemoved
    <3> QED BY <2>4, <3>2 DEF own
  <2> DEFINE to(a) == IF a = o THEN N - 1 ELSE MovedTo(src, own, place[a])
             f == [a \in Heard(b) |-> to(a)]
  <2>8. ASSUME NEW a \in Heard(b)
        PROVE  /\ to(a) \in 1..(N - 1) /\ w[to(a)] = Id[a]
               /\ a # o => /\ a \in Added(c) /\ place[a] \in 1..(N - 1) /\ src[place[a]] # own
                           /\ to(a) \in 1..(N - 2)
    <3>1. CASE a = o
      BY <1>1, <2>7, <3>1 DEF OthersMoved
    <3>2. CASE a # o
      <4>1. a \in Added(c) /\ Id[a] # own
        BY <1>1, <2>6, <3>2 DEF Heard, Members
      <4>2. place[a] \in 1..(N - 1) /\ src[place[a]] = Id[a]
        BY <2>5, <4>1
      <4>3. to(a) \in 1..(N - 2) /\ w[to(a)] = Id[a]
        BY <2>7, <3>2, <4>1, <4>2 DEF OthersMoved
      <4>4. to(a) \in 1..(N - 1)
        BY <1>1, <4>3
      <4> QED BY <3>2, <4>1, <4>2, <4>3, <4>4
    <3> QED BY <3>1, <3>2
  <2>9. ASSUME NEW a \in Heard(b), NEW x \in Heard(b), to(a) = to(x) PROVE a = x
    <3>1. CASE a = o \/ x = o
      <4>1. N - 1 \notin 1..(N - 2)
        BY <1>1
      <4> QED BY <2>8, <2>9, <3>1, <4>1
    <3>2. CASE a # o /\ x # o
      <4>1. place[a] = place[x]
        BY <2>7, <2>8, <2>9, <3>2 DEF OthersMoved
      <4> QED BY <2>5, <2>8, <3>2, <4>1
    <3> QED BY <3>1, <3>2
  <2> HIDE DEF to
  <2>10. f \in Injection(Heard(b), 1..(N - 1)) /\ \A a \in Heard(b) : w[f[a]] = Id[a]
    BY <2>8, <2>9 DEF Injection, IsInjective
  <2>11. Heard(b)' = Heard(b)
    BY DEF Heard, Others, Group
  <2> HIDE DEF f
  <2>12. ToldOthers(b)'
    BY <2>10, <2>11 DEF ToldOthers, w
  <2> QED BY <1>3, <2>4, <2>12 DEF IsTold, TypeOK
<1>4. CASE /\ other_ids' = [other_ids EXCEPT ![b] =
                              WithoutOwn([i \in 1..N |-> Junk], @, Id[b], first)]
           /\ spoilt' = spoilt \cup {b}
  <2>1. [i \in 1..N |-> Junk] \in [1..N -> Int \cup {Junk}]
    OBVIOUS
  <2> QED BY <1>2, <1>4, <2>1 DEF IsTold, TypeOK
<1> QED BY <1>3, <1>4 DEF SetOtherIds, Owner

(* No step of a ball touches another colour. *)
LEMMA OneColourOnly ==
  ASSUME Inv, NEW b \in Balls, PackBall(b) \/ Collect(b),
         NEW d \in Colours, d # ColourOf[b]
  PROVE  Keeps(d)
<1> DEFINE c == ColourOf[b]
<1>0. c \in Colours /\ TypeOK /\ ColourInv(c)
  BY BallsAssumption DEF Inv
<1>1. CASE MiddleArrives(b) \/ LastArrives(b)
  <2>1. mutex[c] = 1 /\ ball_one_id[c] # NoBall
    BY <1>0, <1>1 DEF MiddleArrives, LastArrives, TypeOK
  <2>2. ColourOf[other_ball_ids[c]] = c
    BY <1>0, <2>1 DEF ColourInv, OpenInv, PackInv, Owner
  <2>3. /\ ball_one_id' = ball_one_id /\ other_ball_ids' = other_ball_ids
        /\ safe_to_reset' = safe_to_reset /\ last_ball_arrived' = last_ball_arrived
        /\ posts' = posts /\ AddOtherBall(b) /\ mutex'[d] = mutex[d]
    BY <1>0, <1>1 DEF TypeOK, MiddleArrives, LastArrives
  <2>4. \A a \in Balls : a # b => pc'[a] = pc[a]
    <3>1. PICK label : pc' = [pc EXCEPT ![b] = label]
      BY <1>1 DEF MiddleArrives, LastArrives, Goto
    <3>2. pc \in [Balls -> Labels]
      BY <1>0 DEF TypeOK
    <3> QED BY <3>1, <3>2
  <2> QED BY <1>0, <2>2, <2>3, <2>4 DEF Keeps, TypeOK, AddOtherBall
<1>2. CASE MiddleReturns(b) \/ LastCopies(b)
  BY <1>0, <1>2 DEF Keeps, TypeOK, MiddleReturns, LastCopies, SetOtherIds, ToldToReset, Goto, colourVars
<1>3. CASE FirstArrives(b)
  BY <1>0, <1>3 DEF Keeps, TypeOK, FirstArrives, Goto
<1>4. CASE FirstReturns(b)
  BY <1>0, <1>4 DEF Keeps, TypeOK, FirstReturns, ToldToReset, Goto, history
<1>5. CASE MiddleWakes(b)
  BY <1>0, <1>5 DEF Keeps, TypeOK, MiddleWakes, Goto, history
<1>6. CASE LastPosts(b)
  BY <1>0, <1>6 DEF Keeps, TypeOK, LastPosts, history
<1>7. CASE LastWaits(b)
  BY <1>0, <1>7 DEF Keeps, TypeOK, LastWaits, history
<1>8. CASE LastReturns(b)
  BY <1>0, <1>8 DEF Keeps, TypeOK, LastReturns, Goto, history
<1>9. CASE Collect(b)
  BY <1>0, <1>9 DEF Keeps, Collect, colourVars, history
<1> QED BY <1>1, <1>2, <1>3, <1>4, <1>5, <1>6, <1>7, <1>8, <1>9 DEF PackBall

(* The balls that arrive are in the group of the first ball of the pack, which
   no ball with results is. *)
LEMMA Arrival ==
  ASSUME Inv, NEW b \in Balls, MiddleArrives(b) \/ LastArrives(b)
  PROVE  LET c == ColourOf[b]
         IN /\ OpenInv(c) /\ PackInv(c) /\ mutex[c] = 1 /\ pc[b] = "start" /\ leader[b] = NULL
            /\ count_other_balls[c] <= N - 2
            /\ AddOtherBall(b) /\ UNCHANGED <<ball_one_id, other_ball_ids>>
            /\ leader' = [leader EXCEPT ![b] = Owner(c)]
            /\ \A a \in Balls : leader[a] = Owner(c) <=> a \in Members(c)
            /\ \A a \in Members(c) : ~HasResults(a) /\ pc[a] # "start"
<1> DEFINE c == ColourOf[b]
<1>0. c \in Colours /\ TypeOK /\ ColourInv(c) /\ BallInv(b) /\ NULL \notin Balls
  BY BallsAssumption DEF Inv
<1>1. /\ OpenInv(c) /\ PackInv(c) /\ mutex[c] = 1 /\ pc[b] = "start" /\ leader[b] = NULL
      /\ count_other_balls[c] <= N - 2 /\ ball_one_id[c] # NoBall
  BY <1>0 DEF MiddleArrives, LastArrives, TypeOK, ColourInv, OpenInv, BallInv
<1>2. \A a \in Balls : leader[a] = Owner(c) <=> a \in Members(c)
  BY <1>0, <1>1, PackIsGroup DEF Inv
<1>3. \A a \in Members(c) : pc[a] \in {"first", "middle"}
  BY <1>0, <1>1, PackOfColour DEF OpenInv
<1> QED BY <1>1, <1>2, <1>3 DEF MiddleArrives, LastArrives, AddOtherBall, Owner, HasResults

(* No step of a ball disturbs what is known of another. *)
LEMMA OtherBalls ==
  ASSUME Inv, NEW b \in Balls, PackBall(b) \/ Collect(b), NEW a \in Balls \ {b}
  PROVE  /\ BallInv(a)'
         /\ leader'[a] = leader[a]
         /\ HasResults(a) => Group(a)' = Group(a)
<1> DEFINE c == ColourOf[b]
<1>0. c \in Colours /\ TypeOK /\ ColourInv(c) /\ BallInv(b) /\ BallInv(a) /\ NULL \notin Balls
  BY BallsAssumption DEF Inv
<1>1. pc'[a] = pc[a] /\ posts'[a] = posts[a]
  BY <1>0 DEF PackBall, Collect, TypeOK, FirstArrives, FirstReturns, MiddleArrives, MiddleWakes,
              MiddleReturns, LastArrives, LastPosts, LastCopies, LastWaits, LastReturns, Goto
<1>2. /\ HasResults(a)' <=> HasResults(a)
      /\ HasResults(a) => leader[a] \in Balls /\ pc[a] # "start"
  BY <1>0, <1>1 DEF HasResults, BallInv, TypeOK
<1>3. spoilt \subseteq spoilt'
  BY DEF PackBall, Collect, FirstArrives, FirstReturns, MiddleArrives, MiddleWakes, AddOtherBall,
         MiddleReturns, LastArrives, LastPosts, LastCopies, LastWaits, LastReturns, SetOtherIds, history
<1>4. CASE FirstArrives(b)
  <2>1. leader[b] = NULL /\ leader' = [leader EXCEPT ![b] = b] /\ other_ids' = other_ids
    BY <1>0, <1>4 DEF FirstArrives, BallInv
  <2>2. leader[a] # b
    BY <1>0, <2>1 DEF BallInv
  <2>3. leader'[a] = leader[a] /\ (leader[a] # NULL => Group(a)' = Group(a))
    BY <1>0, <2>1, <2>2, ArrivalGroups
  <2>4. leader[a] # NULL => leader[a] \in Balls \ {b} /\ leader'[leader[a]] = leader[leader[a]]
    BY <1>0, <2>1, <2>2 DEF TypeOK
  <2>5. HasResults(a) => IsFull(a)' /\ IsTold(a)'
    BY <1>0, <1>2, <1>3, <2>1, <2>3, ResultsStay
  <2> QED BY <1>0, <1>1, <1>2, <2>3, <2>4, <2>5 DEF BallInv
<1>5. CASE MiddleArrives(b) \/ LastArrives(b)
  <2>1. /\ leader[b] = NULL /\ leader' = [leader EXCEPT ![b] = Owner(c)] /\ Owner(c) \in Balls
        /\ HasResults(a) => leader[a] # Owner(c)
        /\ other_ids'[a] = other_ids[a] \/ a = Owner(c)
        /\ a = Owner(c) => ~HasResults(a)
    <3>1. PackInv(c) /\ Owner(c) \in Balls /\ Owner(c) \in Members(c)
      BY <1>0, <1>5, Arrival, PackOfColour
    <3>2. AddOtherBall(b) /\ other_ids \in [Balls -> [1..(N - 1) -> Int \cup {Junk}]]
      BY <1>0, <1>5, Arrival DEF TypeOK
    <3>3. other_ids'[a] = other_ids[a] \/ a = Owner(c)
      BY <3>1, <3>2 DEF AddOtherBall, Owner
    <3> QED BY <1>5, <3>1, <3>3, Arrival
  <2>2. leader'[a] = leader[a]
    BY <1>0, <2>1 DEF TypeOK
  <2>3. HasResults(a) => Group(a)' = Group(a)
    <3>1. HasResults(a) => leader[a] # Owner(c)
      BY <2>1
    <3>2. HasResults(a) => leader[a] # NULL
      BY <1>0 DEF BallInv, HasResults
    <3>3. leader[b] = NULL /\ leader' = [leader EXCEPT ![b] = Owner(c)] /\ Owner(c) \in Balls
      BY <2>1
    <3>4. CASE HasResults(a)
      <4>1. PICK o : o = Owner(c)
        OBVIOUS
      <4>2. o \in Balls /\ leader' = [leader EXCEPT ![b] = o] /\ leader[a] # o
        BY <3>1, <3>3, <3>4, <4>1
      <4>3. leader[b] = NULL /\ TypeOK
        BY <1>0, <3>3
      <4>4. leader[a] # NULL => Group(a)' = Group(a)
        BY <4>2, <4>3, ArrivalGroups
      <4> QED BY <3>2, <3>4, <4>4
    <3> QED BY <3>4
  <2>4. leader[a] # NULL => leader[a] \in Balls \ {b} /\ leader'[leader[a]] = leader[leader[a]]
    BY <1>0, <2>1 DEF TypeOK, BallInv
  <2>5. HasResults(a) => IsFull(a)' /\ IsTold(a)'
    BY <1>0, <1>2, <1>3, <2>1, <2>2, <2>3, ResultsStay
  <2> QED BY <1>0, <1>1, <1>2, <2>2, <2>3, <2>4, <2>5 DEF BallInv
<1>6. CASE ~(FirstArrives(b) \/ MiddleArrives(b) \/ LastArrives(b))
  <2>1. leader' = leader /\ other_ids'[a] = other_ids[a]
    BY <1>0, <1>6 DEF PackBall, Collect, TypeOK, FirstReturns, MiddleWakes, MiddleReturns, LastPosts,
                      LastCopies, LastWaits, LastReturns, SetOtherIds, history
  <2>2. Group(a)' = Group(a)
    BY <2>1 DEF Group
  <2>3. HasResults(a) => IsFull(a)' /\ IsTold(a)'
    BY <1>0, <1>3, <2>1, <2>2, ResultsStay
  <2> QED BY <1>0, <1>1, <1>2, <2>1, <2>2, <2>3 DEF BallInv
<1> QED BY <1>4, <1>5, <1>6

(* A ball of a full pack is counted once when it goes on. *)
LEMMA OneMore ==
  ASSUME NEW S, IsFiniteSet(S), NEW b, NEW T, NEW U, T \subseteq S, b \notin T, U = T \cup {b}
  PROVE  Cardinality(T) \in Nat /\ Cardinality(U) = Cardinality(T) + 1
BY FS_Subset, FS_AddElement, FS_CardinalityType

-----------------------------------------------------------------------------
(* The steps of an open pack. *)

(* One lemma per step: the first ball of an open colour brings the array. *)
LEMMA FirstArrivesInv ==
  ASSUME NoMinusOne, Inv, NEW b \in Balls, FirstArrives(b)
  PROVE  Inv'
<1> DEFINE c == ColourOf[b]
<1> USE BallsAssumption DEF Labels
<1>0. c \in Colours /\ TypeOK /\ ColourInv(c) /\ BallInv(b) /\ N \in Nat /\ N > 1
  BY DEF Inv
<1>1. mutex[c] = 1 /\ OpenInv(c) /\ pc[b] = "start" /\ ball_one_id[c] = NoBall /\ leader[b] = NULL
  BY <1>0 DEF ColourInv, FirstArrives, TypeOK, BallInv
<1>2. /\ ball_one_id'[c] = Id[b] /\ count_other_balls'[c] = 0 /\ other_ball_ids'[c] = b
      /\ Id[b] # NoBall /\ pc' = [pc EXCEPT ![b] = "first"] /\ mutex' = mutex
      /\ UNCHANGED <<safe_to_reset, last_ball_arrived>>
      /\ leader' = [leader EXCEPT ![b] = b] /\ leader'[b] = b
  BY <1>0 DEF FirstArrives, TypeOK, NoMinusOne, Goto
<1>3. Owner(c)' = b /\ Added(c)' = {}
  <2>1. ASSUME NEW a \in Balls \ {b} PROVE leader'[a] = leader[a] /\ leader[a] # b
    <3>1. leader[a] # NULL => leader[leader[a]] = leader[a]
      BY DEF Inv, BallInv
    <3>2. leader'[a] = leader[a]
      BY <1>0, <1>2 DEF TypeOK
    <3> QED BY <1>1, <3>1, <3>2
  <2> QED BY <1>2, <2>1 DEF Owner, Added
<1>4. PackInv(c)'
  <2>1. IsFiniteSet({}) /\ Cardinality({}) = 0
    BY FS_EmptySet
  <2> QED BY <1>0, <1>1, <1>2, <1>3, <2>1 DEF PackInv
<1>6. ColourInv(c)'
  <2>1. OpenInv(c)'
    BY <1>0, <1>1, <1>2, <1>3, <1>4 DEF OpenInv, TypeOK
  <2> QED BY <1>1, <1>2, <2>1 DEF ColourInv
<1>7. TypeOK'
  BY <1>0 DEF FirstArrives, TypeOK, Goto
<1>b. BallInv(b)'
  <2>1. pc'[b] = "first" /\ NULL \notin Balls
    BY <1>0, <1>2 DEF TypeOK
  <2> QED BY <1>2, <2>1 DEF BallInv, HasResults
<1>8. ASSUME NEW a \in Balls PROVE BallInv(a)'
  BY <1>b, OtherBalls DEF PackBall
<1>9. ASSUME NEW d \in Colours, d # c PROVE ColourInv(d)'
  BY <1>0, <1>9, OneColourOnly, OtherColour DEF Inv, PackBall
<1> QED BY <1>7, <1>6, <1>8, <1>9 DEF Inv

(* A ball that adds its id and waits. *)
LEMMA MiddleArrivesInv ==
  ASSUME Inv, NEW b \in Balls, MiddleArrives(b)
  PROVE  Inv'
<1> DEFINE c == ColourOf[b]
<1> USE BallsAssumption DEF Labels
<1>0. c \in Colours /\ TypeOK /\ ColourInv(c) /\ BallInv(b) /\ N \in Nat /\ N > 1
  BY DEF Inv
<1>1. /\ mutex[c] = 1 /\ OpenInv(c) /\ pc[b] = "start" /\ ball_one_id[c] # NoBall /\ PackInv(c)
      /\ count_other_balls[c] + 1 <= N - 2 /\ count_other_balls[c] \in Nat
  BY <1>0 DEF ColourInv, OpenInv, MiddleArrives, TypeOK
<1>2. /\ AddOtherBall(b) /\ pc' = [pc EXCEPT ![b] = "middle"]
      /\ UNCHANGED <<ball_one_id, other_ball_ids, mutex, safe_to_reset, last_ball_arrived>>
  BY DEF MiddleArrives, Goto
<1>4. /\ PackInv(c)' /\ Owner(c)' = Owner(c) /\ Added(c)' = Added(c) \cup {b}
      /\ b \notin Members(c)
      /\ count_other_balls'[c] = count_other_balls[c] + 1
      /\ count_other_balls' \in [Colours -> Nat]
      /\ other_ids' \in [Balls -> [1..(N - 1) -> Int \cup {Junk}]]
      /\ leader' \in [Balls -> Balls \cup {NULL}]
      /\ place' \in [Balls -> Nat]
  BY <1>0, <1>1, <1>2, BallAdded DEF Inv
<1>3. b \notin Members(c)
  BY <1>4
<1>6. ColourInv(c)'
  <2>1. OpenInv(c)'
    <3>1. /\ pc'[b] = "middle" /\ \A a \in Balls \ {b} : pc'[a] = pc[a]
          /\ Owner(c) # b /\ b \notin Added(c)
      <4>1. pc \in [Balls -> Labels]
        BY <1>0 DEF TypeOK
      <4>2. Owner(c) # b /\ b \notin Added(c)
        BY <1>0, <1>1, <1>3, PackOfColour
      <4> QED BY <1>2, <4>1, <4>2
    <3>2. last_ball_arrived'[c] = 0 /\ safe_to_reset'[c] = 0 /\ ball_one_id'[c] = ball_one_id[c]
      BY <1>1, <1>2 DEF OpenInv
    <3>3. ASSUME NEW a \in Balls, ColourOf[a] = c
          PROVE  /\ pc'[a] \in {"start", "first", "middle", "done"}
                 /\ pc'[a] = "first" <=> a = Owner(c)
                 /\ pc'[a] = "middle" <=> a \in Added(c) \cup {b}
      <4>1. CASE a = b
        BY <3>1, <4>1
      <4>2. CASE a # b
        BY <1>1, <3>1, <3>3, <4>2 DEF OpenInv
      <4> QED BY <4>1, <4>2
    <3> QED BY <1>1, <1>4, <3>2, <3>3 DEF OpenInv
  <2> QED BY <1>1, <1>2, <2>1 DEF ColourInv
<1>7. TypeOK'
  BY <1>0, <1>4 DEF MiddleArrives, AddOtherBall, TypeOK, Goto
<1>b. BallInv(b)'
  <2>1. /\ leader' = [leader EXCEPT ![b] = Owner(c)] /\ leader[b] = NULL /\ Owner(c) \in Balls
        /\ ColourOf[Owner(c)] = c /\ leader[Owner(c)] = Owner(c) /\ NULL \notin Balls
    BY <1>1, Arrival DEF PackInv
  <2>2. leader'[b] = Owner(c) /\ leader'[Owner(c)] = Owner(c) /\ pc'[b] \notin {"start", "collecting", "done"}
    BY <1>0, <1>2, <2>1 DEF TypeOK
  <2> QED BY <2>1, <2>2 DEF BallInv, HasResults
<1>8. ASSUME NEW a \in Balls PROVE BallInv(a)'
  BY <1>b, OtherBalls DEF PackBall
<1>9. ASSUME NEW d \in Colours, d # c PROVE ColourInv(d)'
  BY <1>0, <1>9, OneColourOnly, OtherColour DEF Inv, PackBall
<1> QED BY <1>7, <1>6, <1>8, <1>9 DEF Inv

(* The ball that fills the pack closes the colour. *)
LEMMA LastArrivesInv ==
  ASSUME Inv, NEW b \in Balls, LastArrives(b)
  PROVE  Inv'
<1> DEFINE c == ColourOf[b]
<1> USE BallsAssumption DEF Labels
<1>0. c \in Colours /\ TypeOK /\ ColourInv(c) /\ BallInv(b) /\ N \in Nat /\ N > 1
  BY DEF Inv
<1>1. /\ mutex[c] = 1 /\ OpenInv(c) /\ pc[b] = "start" /\ ball_one_id[c] # NoBall /\ PackInv(c)
      /\ count_other_balls[c] = N - 2 /\ posts[b] = 0
  <2>1. count_other_balls[c] >= N - 2 /\ ball_one_id[c] # NoBall /\ count_other_balls[c] \in Nat
    BY <1>0 DEF LastArrives, TypeOK
  <2>2. count_other_balls[c] = N - 2
    BY <1>0, <2>1, Arrival
  <2>3. pc[b] = "start" /\ posts[b] = 0
    BY <1>0 DEF LastArrives, BallInv
  <2> QED BY <2>1, <2>2, <2>3, Arrival
<1>2. /\ AddOtherBall(b) /\ pc' = [pc EXCEPT ![b] = "last"] /\ mutex'[c] = 0 /\ posts' = posts
      /\ UNCHANGED <<ball_one_id, other_ball_ids, safe_to_reset, last_ball_arrived>>
  BY <1>0, <1>1 DEF LastArrives, Goto, TypeOK
<1>4. /\ PackInv(c)' /\ Owner(c)' = Owner(c) /\ Added(c)' = Added(c) \cup {b}
      /\ b \notin Members(c)
      /\ count_other_balls'[c] = count_other_balls[c] + 1
      /\ count_other_balls' \in [Colours -> Nat]
      /\ other_ids' \in [Balls -> [1..(N - 1) -> Int \cup {Junk}]]
      /\ leader' \in [Balls -> Balls \cup {NULL}]
      /\ place' \in [Balls -> Nat]
  BY <1>0, <1>1, <1>2, BallAdded DEF Inv
<1>3. b \notin Members(c)
  BY <1>4
<1>6. ColourInv(c)'
  <2>1. /\ pc'[b] = "last" /\ pc'[Owner(c)] = "first"
        /\ \A a \in Added(c) : pc'[a] = "middle"
        /\ \A a \in Balls : ColourOf[a] = c /\ a \notin Members(c) /\ a # b => pc'[a] \in {"start", "done"}
    BY <1>0, <1>1, <1>2, <1>3, PackOfColour DEF OpenInv, TypeOK
  <2>2. Members(c)' = Members(c) \cup {b} /\ Members(c) = Added(c) \cup {Owner(c)}
    BY <1>4 DEF Members
  <2>3. Woken(c)' = {} /\ Back(c)' = {}
    BY <2>1, <2>2 DEF Woken, Back
  <2>4. LastInv(c, b)'
    BY <1>0, <1>1, <1>2, <1>3, <1>4, <2>1, <2>3, FS_EmptySet DEF LastInv, OpenInv
  <2>6. ClosedInv(c)'
    <3>1. ball_one_id'[c] # NoBall /\ count_other_balls'[c] = N - 1
      BY <1>0, <1>1, <1>2, <1>4
    <3>2. \A a \in Balls : ColourOf[a] = c /\ a \notin Members(c)' => pc'[a] \in {"start", "done"}
      BY <2>1, <2>2
    <3> QED BY <1>4, <2>4, <3>1, <3>2 DEF ClosedInv
  <2> QED BY <1>2, <2>6 DEF ColourInv
<1>7. TypeOK'
  <2>1. mutex' \in [Colours -> {0, 1}]
    BY <1>0, <1>1 DEF LastArrives, TypeOK
  <2>2. pc' \in [Balls -> Labels]
    BY <1>0, <1>2 DEF TypeOK
  <2> QED BY <1>0, <1>4, <2>1, <2>2 DEF LastArrives, AddOtherBall, TypeOK
<1>b. BallInv(b)'
  <2>1. /\ leader' = [leader EXCEPT ![b] = Owner(c)] /\ leader[b] = NULL /\ Owner(c) \in Balls
        /\ ColourOf[Owner(c)] = c /\ leader[Owner(c)] = Owner(c) /\ NULL \notin Balls
    BY <1>1, Arrival DEF PackInv
  <2>2. leader'[b] = Owner(c) /\ leader'[Owner(c)] = Owner(c) /\ pc'[b] \notin {"start", "collecting", "done"}
    BY <1>0, <1>2, <2>1 DEF TypeOK
  <2> QED BY <2>1, <2>2 DEF BallInv, HasResults
<1>8. ASSUME NEW a \in Balls PROVE BallInv(a)'
  BY <1>b, OtherBalls DEF PackBall
<1>9. ASSUME NEW d \in Colours, d # c PROVE ColourInv(d)'
  BY <1>0, <1>9, OneColourOnly, OtherColour DEF Inv, PackBall
<1> QED BY <1>7, <1>6, <1>8, <1>9 DEF Inv

-----------------------------------------------------------------------------
(* The steps of a full pack. *)

(* The first ball needs no copy: the array is its own. *)
LEMMA FirstReturnsInv ==
  ASSUME Inv, NEW b \in Balls, FirstReturns(b)
  PROVE  Inv'
<1> DEFINE c == ColourOf[b]
<1> USE BallsAssumption DEF Labels
<1>0. c \in Colours /\ TypeOK /\ ColourInv(c) /\ BallInv(b) /\ N \in Nat /\ N > 1
  BY DEF Inv
<1>1. mutex[c] # 1 /\ ClosedInv(c)
  BY <1>0 DEF ColourInv, OpenInv, TypeOK, FirstReturns
<1>2. PICK l \in Balls : LastInv(c, l)
  BY <1>1 DEF ClosedInv
<1>m. /\ \A a \in Members(c) : a \in Balls /\ ColourOf[a] = c
      /\ Owner(c) \in Members(c) /\ Owner(c) \notin Added(c)
      /\ \A a : a \in Members(c) <=> a \in Added(c) \/ a = Owner(c)
      /\ IsFiniteSet(Members(c)) /\ Cardinality(Members(c)) = N
  BY <1>0, <1>1, PackOfColour DEF ClosedInv
<1>3. /\ PackInv(c) /\ count_other_balls[c] = N - 1 /\ ball_one_id[c] # NoBall /\ l \in Members(c) /\ l # Owner(c)
      /\ b \in Members(c) /\ b = Owner(c)
  BY <1>0, <1>1, <1>2, <1>m DEF ClosedInv, LastInv, FirstReturns
<1>4. PackInv(c)' /\ Owner(c)' = Owner(c) /\ Added(c)' = Added(c) /\ Members(c)' = Members(c)
  BY <1>0, <1>3, <1>m, PackStays DEF FirstReturns, PackInv, TypeOK, Goto, history
<1>5. /\ pc' = [pc EXCEPT ![b] = "done"] /\ mutex' = mutex /\ posts' = posts /\ other_ids' = other_ids
      /\ last_ball_arrived'[c] = last_ball_arrived[c] - 1 /\ last_ball_arrived[c] \in Nat
      /\ safe_to_reset'[c] = safe_to_reset[c] + 1 /\ safe_to_reset[c] \in Nat
      /\ last_ball_arrived'[c] \in Nat
  <2>1. /\ last_ball_arrived \in [Colours -> Nat] /\ safe_to_reset \in [Colours -> Nat]
    BY <1>0 DEF TypeOK
  <2>2. /\ pc' = [pc EXCEPT ![b] = "done"] /\ mutex' = mutex /\ posts' = posts /\ other_ids' = other_ids
        /\ last_ball_arrived[c] > 0
        /\ last_ball_arrived' = [last_ball_arrived EXCEPT ![c] = @ - 1]
        /\ safe_to_reset' = [safe_to_reset EXCEPT ![c] = @ + 1]
    BY DEF FirstReturns, ToldToReset, Goto
  <2> QED BY <1>0, <2>1, <2>2
<1>6. ColourInv(c)'
  <2>1. pc[b] = "first" /\ pc'[b] = "done" /\ \A a \in Balls \ {b} : pc'[a] = pc[a]
    BY <1>0, <1>5 DEF TypeOK, FirstReturns
  <2>2. Woken(c)' = Woken(c) \cup {b} /\ b \notin Woken(c) /\ Woken(c) \subseteq Members(c)
    BY <1>3, <1>m, <1>4, <2>1 DEF Woken
  <2>3. Back(c)' = Back(c) \cup {b} /\ b \notin Back(c) /\ Back(c) \subseteq Members(c)
    BY <1>3, <1>m, <1>4, <2>1 DEF Back
  <2>4. Cardinality(Woken(c)) \in Nat /\ Cardinality(Woken(c)') = Cardinality(Woken(c)) + 1
    BY <1>m, <2>2, OneMore
  <2>9. Cardinality(Back(c)) \in Nat /\ Cardinality(Back(c)') = Cardinality(Back(c)) + 1
    BY <1>m, <2>3, OneMore
  <2>5. LastInv(c, l)'
    <3>1. l # b /\ b \notin Added(c) /\ \A a \in Added(c) : a \in Balls \ {b}
      BY <1>2, <1>3, <1>m
    <3>2. last_ball_arrived'[c] + Cardinality(Woken(c)') = last_ball_arrived[c] + Cardinality(Woken(c))
      BY <1>5, <2>4
    <3>3. safe_to_reset'[c] = safe_to_reset[c] + 1 /\ pc'[l] = pc[l] /\ posts'[l] = posts[l]
      BY <1>5, <2>1, <3>1
    <3>4. safe_to_reset'[c] + (IF pc'[l] = "collecting" THEN posts'[l] ELSE 0) = Cardinality(Back(c)')
      <4>1. safe_to_reset[c] + (IF pc[l] = "collecting" THEN posts[l] ELSE 0) = Cardinality(Back(c))
        BY <1>2 DEF LastInv
      <4>2. posts[l] \in Nat
        BY <1>0 DEF TypeOK
      <4>3. CASE pc[l] = "collecting"
        BY <1>5, <2>9, <3>3, <4>1, <4>2, <4>3
      <4>4. CASE pc[l] # "collecting"
        BY <1>5, <2>9, <3>3, <4>1, <4>4
      <4> QED BY <4>3, <4>4
    <3> QED BY <1>2, <1>3, <1>4, <2>1, <3>1, <3>2, <3>3, <3>4 DEF LastInv
  <2>8. ClosedInv(c)'
    BY <1>1, <1>3, <1>m, <1>4, <1>5, <2>1, <2>5 DEF ClosedInv, FirstReturns
  <2> QED BY <1>1, <1>5, <2>8 DEF ColourInv
<1>7. TypeOK'
  <2>1. pc' \in [Balls -> Labels]
    BY <1>0 DEF FirstReturns, TypeOK, Goto
  <2>2. last_ball_arrived' \in [Colours -> Nat]
    BY <1>0, <1>5 DEF FirstReturns, TypeOK
  <2>3. safe_to_reset' \in [Colours -> Nat]
    <3>1. safe_to_reset' = ToldToReset(c) /\ safe_to_reset \in [Colours -> Nat]
      BY <1>0 DEF FirstReturns, TypeOK
    <3> QED BY <1>0, <3>1 DEF ToldToReset
  <2> QED BY <1>0, <1>5, <2>1, <2>2, <2>3 DEF FirstReturns, TypeOK, history
<1>b. BallInv(b)'
  <2>1. pc[b] = "first" /\ pc'[b] = "done" /\ leader' = leader
    BY <1>0 DEF FirstReturns, TypeOK, Goto, history
  <2>2. Group(b) = Members(c) /\ leader[b] # NULL
    BY <1>0, <1>3, <2>1, PackIsGroup DEF Inv, BallInv
  <2>3. IsFull(b)'
    BY <1>m, <2>1, <2>2 DEF IsFull, Group
  <2>4. ToldOthers(b)
    BY <1>0, <1>3, FirstTold DEF Inv
  <2>5. Heard(b)' = Heard(b)
    BY <2>1 DEF Heard, Others, Group
  <2>6. IsTold(b)'
    BY <1>5, <2>4, <2>5 DEF IsTold, ToldOthers
  <2> QED BY <1>0, <2>1, <2>3, <2>6 DEF BallInv
<1>8. ASSUME NEW a \in Balls PROVE BallInv(a)'
  BY <1>b, OtherBalls DEF PackBall
<1>9. ASSUME NEW d \in Colours, d # c PROVE ColourInv(d)'
  BY <1>0, <1>9, OneColourOnly, OtherColour DEF Inv, PackBall
<1> QED BY <1>7, <1>6, <1>8, <1>9 DEF Inv

(* A ball in the middle takes a post of the last ball. *)
LEMMA MiddleWakesInv ==
  ASSUME Inv, NEW b \in Balls, MiddleWakes(b)
  PROVE  Inv'
<1> DEFINE c == ColourOf[b]
<1> USE BallsAssumption DEF Labels
<1>0. c \in Colours /\ TypeOK /\ ColourInv(c) /\ BallInv(b) /\ N \in Nat /\ N > 1
  BY DEF Inv
<1>1. mutex[c] # 1 /\ ClosedInv(c)
  BY <1>0 DEF ColourInv, OpenInv, TypeOK, MiddleWakes
<1>2. PICK l \in Balls : LastInv(c, l)
  BY <1>1 DEF ClosedInv
<1>m. /\ \A a \in Members(c) : a \in Balls /\ ColourOf[a] = c
      /\ Owner(c) \in Members(c) /\ Owner(c) \notin Added(c)
      /\ \A a : a \in Members(c) <=> a \in Added(c) \/ a = Owner(c)
      /\ IsFiniteSet(Members(c)) /\ Cardinality(Members(c)) = N
  BY <1>0, <1>1, PackOfColour DEF ClosedInv
<1>3. /\ PackInv(c) /\ count_other_balls[c] = N - 1 /\ ball_one_id[c] # NoBall /\ l \in Members(c) /\ l # Owner(c)
      /\ b \in Members(c) /\ b # l
  BY <1>0, <1>1, <1>2, <1>m DEF ClosedInv, LastInv, MiddleWakes
<1>4. PackInv(c)' /\ Owner(c)' = Owner(c) /\ Added(c)' = Added(c) /\ Members(c)' = Members(c)
  BY <1>0, <1>3, <1>m, PackStays DEF MiddleWakes, PackInv, TypeOK, Goto, history
<1>5. /\ pc' = [pc EXCEPT ![b] = "copying"] /\ mutex' = mutex /\ posts' = posts /\ other_ids' = other_ids
      /\ last_ball_arrived'[c] = last_ball_arrived[c] - 1 /\ last_ball_arrived[c] \in Nat
      /\ safe_to_reset' = safe_to_reset /\ last_ball_arrived'[c] \in Nat
  <2>1. last_ball_arrived \in [Colours -> Nat]
    BY <1>0 DEF TypeOK
  <2>2. /\ pc' = [pc EXCEPT ![b] = "copying"] /\ mutex' = mutex /\ posts' = posts /\ other_ids' = other_ids
        /\ last_ball_arrived[c] > 0 /\ safe_to_reset' = safe_to_reset
        /\ last_ball_arrived' = [last_ball_arrived EXCEPT ![c] = @ - 1]
    BY DEF MiddleWakes, Goto
  <2> QED BY <1>0, <2>1, <2>2
<1>6. ColourInv(c)'
  <2>1. pc[b] = "middle" /\ pc'[b] = "copying" /\ \A a \in Balls \ {b} : pc'[a] = pc[a]
    BY <1>0, <1>5 DEF TypeOK, MiddleWakes
  <2>2. Woken(c)' = Woken(c) \cup {b} /\ b \notin Woken(c) /\ Woken(c) \subseteq Members(c)
    BY <1>3, <1>m, <1>4, <2>1 DEF Woken
  <2>3. Back(c)' = Back(c)
    BY <1>3, <1>m, <1>4, <2>1 DEF Back
  <2>4. Cardinality(Woken(c)) \in Nat /\ Cardinality(Woken(c)') = Cardinality(Woken(c)) + 1
    BY <1>3, <1>m, <2>2, OneMore
  <2>5. LastInv(c, l)'
    <3>1. b \in Added(c) /\ b # l /\ b # Owner(c) /\ \A a \in Added(c) : a \in Balls
      BY <1>0, <1>2, <1>3, <1>m, <2>1 DEF LastInv
    <3>2. last_ball_arrived'[c] + Cardinality(Woken(c)') = last_ball_arrived[c] + Cardinality(Woken(c))
      BY <1>5, <2>4
    <3>3. pc'[l] = pc[l] /\ posts'[l] = posts[l] /\ pc'[Owner(c)] = pc[Owner(c)] /\ safe_to_reset'[c] = safe_to_reset[c]
      BY <1>m, <1>5, <2>1, <3>1
    <3> QED BY <1>2, <1>3, <1>4, <2>1, <2>3, <3>1, <3>2, <3>3 DEF LastInv
  <2>8. ClosedInv(c)'
    BY <1>1, <1>3, <1>m, <1>4, <1>5, <2>1, <2>5 DEF ClosedInv, MiddleWakes
  <2> QED BY <1>1, <1>5, <2>8 DEF ColourInv
<1>7. TypeOK'
  <2>1. pc' \in [Balls -> Labels]
    BY <1>0 DEF MiddleWakes, TypeOK, Goto
  <2>2. last_ball_arrived' \in [Colours -> Nat]
    BY <1>0, <1>5 DEF MiddleWakes, TypeOK
  <2> QED BY <1>0, <1>5, <2>1, <2>2 DEF MiddleWakes, TypeOK, history
<1>b. BallInv(b)'
  <2>1. pc[b] = "middle" /\ pc'[b] = "copying" /\ leader' = leader
    BY <1>0, <1>5 DEF MiddleWakes, TypeOK, history
  <2> QED BY <1>0, <2>1 DEF BallInv, HasResults
<1>8. ASSUME NEW a \in Balls PROVE BallInv(a)'
  BY <1>b, OtherBalls DEF PackBall
<1>9. ASSUME NEW d \in Colours, d # c PROVE ColourInv(d)'
  BY <1>0, <1>9, OneColourOnly, OtherColour DEF Inv, PackBall
<1> QED BY <1>7, <1>6, <1>8, <1>9 DEF Inv

(* It copies the ids and posts that it is back. *)
LEMMA MiddleReturnsInv ==
  ASSUME Inv, NEW b \in Balls, MiddleReturns(b)
  PROVE  Inv'
<1> DEFINE c == ColourOf[b]
<1> USE BallsAssumption DEF Labels
<1>0. c \in Colours /\ TypeOK /\ ColourInv(c) /\ BallInv(b) /\ N \in Nat /\ N > 1
  BY DEF Inv
<1>1. mutex[c] # 1 /\ ClosedInv(c)
  BY <1>0 DEF ColourInv, OpenInv, TypeOK, MiddleReturns
<1>2. PICK l \in Balls : LastInv(c, l)
  BY <1>1 DEF ClosedInv
<1>m. /\ \A a \in Members(c) : a \in Balls /\ ColourOf[a] = c
      /\ Owner(c) \in Members(c) /\ Owner(c) \notin Added(c)
      /\ \A a : a \in Members(c) <=> a \in Added(c) \/ a = Owner(c)
      /\ IsFiniteSet(Members(c)) /\ Cardinality(Members(c)) = N
  BY <1>0, <1>1, PackOfColour DEF ClosedInv
<1>3. /\ PackInv(c) /\ count_other_balls[c] = N - 1 /\ ball_one_id[c] # NoBall /\ l \in Members(c) /\ l # Owner(c)
      /\ b \in Members(c) /\ b # l /\ b \in Added(c)
  BY <1>0, <1>1, <1>2, <1>m DEF ClosedInv, LastInv, MiddleReturns
<1>5. /\ IsTold(b)'
      /\ \A a \in Balls \ {b} : other_ids'[a] = other_ids[a]
      /\ other_ids' \in [Balls -> [1..(N - 1) -> Int \cup {Junk}]]
      /\ spoilt \subseteq spoilt' /\ spoilt' \subseteq Balls
  BY <1>0, <1>3, <1>m, OthersTold DEF Inv, MiddleReturns
<1>4. PackInv(c)' /\ Owner(c)' = Owner(c) /\ Added(c)' = Added(c) /\ Members(c)' = Members(c)
  <2>1. /\ ball_one_id' = ball_one_id /\ other_ball_ids' = other_ball_ids
        /\ count_other_balls' = count_other_balls /\ Owner(c) # b /\ Owner(c) \in Balls
        /\ leader' = leader /\ place' = place
    BY <1>3, <1>m DEF MiddleReturns
  <2>2. other_ids'[Owner(c)] = other_ids[Owner(c)]
    BY <1>5, <2>1
  <2> QED BY <1>0, <1>3, <2>1, <2>2, PackStays
<1>6. ColourInv(c)'
  <2>1. /\ pc[b] = "copying" /\ pc'[b] = "done" /\ \A a \in Balls \ {b} : pc'[a] = pc[a]
        /\ safe_to_reset'[c] = safe_to_reset[c] + 1 /\ safe_to_reset[c] \in Nat
        /\ UNCHANGED <<ball_one_id, count_other_balls, mutex, last_ball_arrived, posts>>
    BY <1>0 DEF TypeOK, MiddleReturns, ToldToReset, Goto
  <2>2. Woken(c)' = Woken(c)
    BY <1>3, <1>m, <1>4, <2>1 DEF Woken
  <2>3. Back(c)' = Back(c) \cup {b} /\ b \notin Back(c) /\ Back(c) \subseteq Members(c)
    BY <1>3, <1>m, <1>4, <2>1 DEF Back
  <2>4. Cardinality(Back(c)) \in Nat /\ Cardinality(Back(c)') = Cardinality(Back(c)) + 1
    BY <1>3, <1>m, <2>3, OneMore
  <2>5. LastInv(c, l)'
    <3>1. b # l /\ b # Owner(c) /\ \A a \in Added(c) : a \in Balls
      BY <1>3, <1>m
    <3>2. pc'[l] = pc[l] /\ posts'[l] = posts[l] /\ pc'[Owner(c)] = pc[Owner(c)]
      BY <1>m, <2>1, <3>1
    <3>3. safe_to_reset'[c] + (IF pc'[l] = "collecting" THEN posts'[l] ELSE 0) = Cardinality(Back(c)')
      <4>1. safe_to_reset[c] + (IF pc[l] = "collecting" THEN posts[l] ELSE 0) = Cardinality(Back(c))
        BY <1>2 DEF LastInv
      <4>2. posts[l] \in Nat
        BY <1>0 DEF TypeOK
      <4>3. CASE pc[l] = "collecting"
        BY <2>1, <2>4, <3>2, <4>1, <4>2, <4>3
      <4>4. CASE pc[l] # "collecting"
        BY <2>1, <2>4, <3>2, <4>1, <4>4
      <4> QED BY <4>3, <4>4
    <3> QED BY <1>2, <1>3, <1>4, <2>1, <2>2, <3>1, <3>2, <3>3 DEF LastInv
  <2>8. ClosedInv(c)'
    <3>2. \A a \in Balls : ColourOf[a] = c /\ a \notin Members(c) => pc'[a] \in {"start", "done"}
      BY <1>1, <1>3, <2>1 DEF ClosedInv
    <3> QED BY <1>3, <1>4, <2>1, <2>5, <3>2 DEF ClosedInv
  <2> QED BY <1>1, <2>1, <2>8 DEF ColourInv
<1>7. TypeOK'
  <2>1. pc' \in [Balls -> Labels]
    BY <1>0 DEF MiddleReturns, TypeOK, Goto
  <2>2. safe_to_reset' \in [Colours -> Nat]
    <3>1. safe_to_reset \in [Colours -> Nat] /\ safe_to_reset' = [safe_to_reset EXCEPT ![c] = @ + 1]
      BY <1>0 DEF MiddleReturns, TypeOK, ToldToReset
    <3> QED BY <1>0, <3>1
  <2> QED BY <1>0, <1>5, <2>1, <2>2 DEF MiddleReturns, TypeOK
<1>b. BallInv(b)'
  <2>1. pc[b] = "copying" /\ pc'[b] = "done" /\ leader' = leader
    BY <1>0 DEF MiddleReturns, TypeOK, Goto, history
  <2>2. Group(b) = Members(c) /\ leader[b] # NULL
    BY <1>0, <1>3, <2>1, PackIsGroup DEF Inv, BallInv
  <2>3. IsFull(b)'
    BY <1>m, <2>1, <2>2 DEF IsFull, Group
  <2> QED BY <1>0, <1>5, <2>1, <2>3 DEF BallInv
<1>8. ASSUME NEW a \in Balls PROVE BallInv(a)'
  BY <1>b, OtherBalls DEF PackBall
<1>9. ASSUME NEW d \in Colours, d # c PROVE ColourInv(d)'
  BY <1>0, <1>9, OneColourOnly, OtherColour DEF Inv, PackBall
<1> QED BY <1>7, <1>6, <1>8, <1>9 DEF Inv

(* The last ball wakes one more. *)
LEMMA LastPostsInv ==
  ASSUME Inv, NEW b \in Balls, LastPosts(b)
  PROVE  Inv'
<1> DEFINE c == ColourOf[b]
<1> USE BallsAssumption DEF Labels
<1>0. c \in Colours /\ TypeOK /\ ColourInv(c) /\ BallInv(b) /\ N \in Nat /\ N > 1
  BY DEF Inv
<1>1. mutex[c] # 1 /\ ClosedInv(c)
  BY <1>0 DEF ColourInv, OpenInv, TypeOK, LastPosts
<1>2. PICK l \in Balls : LastInv(c, l)
  BY <1>1 DEF ClosedInv
<1>m. /\ \A a \in Members(c) : a \in Balls /\ ColourOf[a] = c
      /\ Owner(c) \in Members(c) /\ Owner(c) \notin Added(c)
      /\ \A a : a \in Members(c) <=> a \in Added(c) \/ a = Owner(c)
      /\ IsFiniteSet(Members(c)) /\ Cardinality(Members(c)) = N
  BY <1>0, <1>1, PackOfColour DEF ClosedInv
<1>3. /\ PackInv(c) /\ count_other_balls[c] = N - 1 /\ ball_one_id[c] # NoBall /\ l \in Members(c) /\ l # Owner(c)
      /\ b \in Members(c) /\ b = l
  BY <1>0, <1>1, <1>2, <1>m DEF ClosedInv, LastInv, LastPosts
<1>4. PackInv(c)' /\ Owner(c)' = Owner(c) /\ Added(c)' = Added(c) /\ Members(c)' = Members(c)
  BY <1>0, <1>3, <1>m, PackStays DEF LastPosts, PackInv, TypeOK, Goto, history
<1>5. /\ pc[b] = "last" /\ posts[b] < N - 1 /\ posts[b] \in Nat
      /\ pc' = pc /\ mutex' = mutex /\ posts'[b] = posts[b] + 1 /\ other_ids' = other_ids
      /\ last_ball_arrived'[c] = last_ball_arrived[c] + 1 /\ last_ball_arrived[c] \in Nat
      /\ safe_to_reset' = safe_to_reset
  BY <1>0 DEF LastPosts, TypeOK
<1>6. ColourInv(c)'
  <2>2. Woken(c)' = Woken(c) /\ Back(c)' = Back(c) /\ Woken(c) \subseteq Members(c)
    BY <1>4, <1>5 DEF Woken, Back
  <2>3. Cardinality(Woken(c)) \in Nat
    BY <1>3, <1>m, <2>2, FS_Subset, FS_CardinalityType
  <2>5. LastInv(c, l)'
    BY <1>0, <1>2, <1>3, <1>m, <1>4, <1>5, <2>2, <2>3 DEF LastInv
  <2>8. ClosedInv(c)'
    BY <1>1, <1>3, <1>m, <1>4, <1>5, <2>5 DEF ClosedInv, LastPosts
  <2> QED BY <1>1, <1>5, <2>8 DEF ColourInv
<1>7. TypeOK'
  <2>1. pc' \in [Balls -> Labels]
    BY <1>0 DEF LastPosts, TypeOK, Goto
  <2>2. last_ball_arrived' \in [Colours -> Nat]
    <3>1. /\ last_ball_arrived \in [Colours -> Nat]
          /\ last_ball_arrived' = [last_ball_arrived EXCEPT ![c] = @ + 1]
      BY <1>0 DEF LastPosts, TypeOK
    <3> QED BY <1>0, <3>1
  <2>3. posts' \in [Balls -> Nat]
    <3>1. posts \in [Balls -> Nat] /\ posts' = [posts EXCEPT ![b] = @ + 1]
      BY <1>0 DEF LastPosts, TypeOK
    <3> QED BY <3>1
  <2> QED BY <1>0, <1>5, <2>1, <2>2, <2>3 DEF LastPosts, TypeOK, history
<1>b. BallInv(b)'
  <2>1. pc[b] = "last" /\ pc'[b] = "last" /\ leader' = leader
    BY <1>0, <1>5 DEF LastPosts, TypeOK, history
  <2> QED BY <1>0, <2>1 DEF BallInv, HasResults
<1>8. ASSUME NEW a \in Balls PROVE BallInv(a)'
  BY <1>b, OtherBalls DEF PackBall
<1>9. ASSUME NEW d \in Colours, d # c PROVE ColourInv(d)'
  BY <1>0, <1>9, OneColourOnly, OtherColour DEF Inv, PackBall
<1> QED BY <1>7, <1>6, <1>8, <1>9 DEF Inv

(* It copies the ids itself. *)
LEMMA LastCopiesInv ==
  ASSUME Inv, NEW b \in Balls, LastCopies(b)
  PROVE  Inv'
<1> DEFINE c == ColourOf[b]
<1> USE BallsAssumption DEF Labels
<1>0. c \in Colours /\ TypeOK /\ ColourInv(c) /\ BallInv(b) /\ N \in Nat /\ N > 1
  BY DEF Inv
<1>1. mutex[c] # 1 /\ ClosedInv(c)
  BY <1>0 DEF ColourInv, OpenInv, TypeOK, LastCopies
<1>2. PICK l \in Balls : LastInv(c, l)
  BY <1>1 DEF ClosedInv
<1>m. /\ \A a \in Members(c) : a \in Balls /\ ColourOf[a] = c
      /\ Owner(c) \in Members(c) /\ Owner(c) \notin Added(c)
      /\ \A a : a \in Members(c) <=> a \in Added(c) \/ a = Owner(c)
      /\ IsFiniteSet(Members(c)) /\ Cardinality(Members(c)) = N
  BY <1>0, <1>1, PackOfColour DEF ClosedInv
<1>3. /\ PackInv(c) /\ count_other_balls[c] = N - 1 /\ ball_one_id[c] # NoBall /\ l \in Members(c) /\ l # Owner(c)
      /\ b \in Members(c) /\ b = l /\ b \in Added(c)
  BY <1>0, <1>1, <1>2, <1>m DEF ClosedInv, LastInv, LastCopies
<1>5. /\ IsTold(b)'
      /\ \A a \in Balls \ {b} : other_ids'[a] = other_ids[a]
      /\ other_ids' \in [Balls -> [1..(N - 1) -> Int \cup {Junk}]]
      /\ spoilt \subseteq spoilt' /\ spoilt' \subseteq Balls
  BY <1>0, <1>3, <1>m, OthersTold DEF Inv, LastCopies
<1>4. PackInv(c)' /\ Owner(c)' = Owner(c) /\ Added(c)' = Added(c) /\ Members(c)' = Members(c)
  <2>1. /\ ball_one_id' = ball_one_id /\ other_ball_ids' = other_ball_ids
        /\ count_other_balls' = count_other_balls /\ Owner(c) # b /\ Owner(c) \in Balls
        /\ leader' = leader /\ place' = place
    BY <1>3, <1>m DEF LastCopies, colourVars
  <2>2. other_ids'[Owner(c)] = other_ids[Owner(c)]
    BY <1>5, <2>1
  <2> QED BY <1>0, <1>3, <2>1, <2>2, PackStays
<1>6. ColourInv(c)'
  <2>1. /\ pc[b] = "last" /\ pc'[b] = "collecting" /\ \A a \in Balls \ {b} : pc'[a] = pc[a]
        /\ posts[b] = N - 1 /\ posts'[b] = 0
        /\ UNCHANGED colourVars
    BY <1>0 DEF TypeOK, LastCopies, Goto
  <2>2. Woken(c)' = Woken(c) /\ Back(c)' = Back(c)
    BY <1>3, <1>m, <1>4, <2>1 DEF Woken, Back
  <2>5. LastInv(c, l)'
    BY <1>0, <1>2, <1>3, <1>m, <1>4, <2>1, <2>2 DEF LastInv, TypeOK, colourVars
  <2>8. ClosedInv(c)'
    <3>2. \A a \in Balls : ColourOf[a] = c /\ a \notin Members(c) => pc'[a] \in {"start", "done"}
      BY <1>1, <1>3, <2>1 DEF ClosedInv
    <3> QED BY <1>3, <1>4, <2>1, <2>5, <3>2 DEF ClosedInv, colourVars
  <2> QED BY <1>1, <2>1, <2>8 DEF ColourInv, colourVars
<1>7. TypeOK'
  <2>1. pc' \in [Balls -> Labels]
    BY <1>0 DEF LastCopies, TypeOK, Goto
  <2>2. posts' \in [Balls -> Nat]
    BY <1>0 DEF LastCopies, TypeOK
  <2> QED BY <1>0, <1>5, <2>1, <2>2 DEF LastCopies, TypeOK, colourVars
<1>b. BallInv(b)'
  <2>1. pc[b] = "last" /\ pc'[b] = "collecting" /\ leader' = leader
    BY <1>0 DEF LastCopies, TypeOK, Goto, history
  <2>2. Group(b) = Members(c) /\ leader[b] # NULL
    BY <1>0, <1>3, <2>1, PackIsGroup DEF Inv, BallInv
  <2>3. IsFull(b)'
    BY <1>m, <2>1, <2>2 DEF IsFull, Group
  <2> QED BY <1>0, <1>5, <2>1, <2>3 DEF BallInv
<1>8. ASSUME NEW a \in Balls PROVE BallInv(a)'
  BY <1>b, OtherBalls DEF PackBall
<1>9. ASSUME NEW d \in Colours, d # c PROVE ColourInv(d)'
  BY <1>0, <1>9, OneColourOnly, OtherColour DEF Inv, PackBall
<1> QED BY <1>7, <1>6, <1>8, <1>9 DEF Inv

(* It waits for one more to be back. *)
LEMMA LastWaitsInv ==
  ASSUME Inv, NEW b \in Balls, LastWaits(b)
  PROVE  Inv'
<1> DEFINE c == ColourOf[b]
<1> USE BallsAssumption DEF Labels
<1>0. c \in Colours /\ TypeOK /\ ColourInv(c) /\ BallInv(b) /\ N \in Nat /\ N > 1
  BY DEF Inv
<1>1. mutex[c] # 1 /\ ClosedInv(c)
  BY <1>0 DEF ColourInv, OpenInv, TypeOK, LastWaits
<1>2. PICK l \in Balls : LastInv(c, l)
  BY <1>1 DEF ClosedInv
<1>m. /\ \A a \in Members(c) : a \in Balls /\ ColourOf[a] = c
      /\ Owner(c) \in Members(c) /\ Owner(c) \notin Added(c)
      /\ \A a : a \in Members(c) <=> a \in Added(c) \/ a = Owner(c)
      /\ IsFiniteSet(Members(c)) /\ Cardinality(Members(c)) = N
  BY <1>0, <1>1, PackOfColour DEF ClosedInv
<1>3. /\ PackInv(c) /\ count_other_balls[c] = N - 1 /\ ball_one_id[c] # NoBall /\ l \in Members(c) /\ l # Owner(c)
      /\ b \in Members(c) /\ b = l
  BY <1>0, <1>1, <1>2, <1>m DEF ClosedInv, LastInv, LastWaits
<1>4. PackInv(c)' /\ Owner(c)' = Owner(c) /\ Added(c)' = Added(c) /\ Members(c)' = Members(c)
  BY <1>0, <1>3, <1>m, PackStays DEF LastWaits, PackInv, TypeOK, Goto, history
<1>5. /\ pc[b] = "collecting" /\ posts[b] < N - 1 /\ posts[b] \in Nat
      /\ pc' = pc /\ mutex' = mutex /\ posts'[b] = posts[b] + 1 /\ other_ids' = other_ids
      /\ safe_to_reset'[c] = safe_to_reset[c] - 1 /\ safe_to_reset[c] \in Nat
      /\ safe_to_reset'[c] \in Nat
      /\ last_ball_arrived' = last_ball_arrived
  <2>1. posts \in [Balls -> Nat] /\ safe_to_reset \in [Colours -> Nat]
    BY <1>0 DEF TypeOK
  <2>2. /\ pc[b] = "collecting" /\ posts[b] < N - 1 /\ safe_to_reset[c] > 0
        /\ pc' = pc /\ mutex' = mutex /\ other_ids' = other_ids /\ last_ball_arrived' = last_ball_arrived
        /\ posts' = [posts EXCEPT ![b] = @ + 1]
        /\ safe_to_reset' = [safe_to_reset EXCEPT ![c] = @ - 1]
    BY DEF LastWaits
  <2> QED BY <1>0, <2>1, <2>2
<1>6. ColourInv(c)'
  <2>2. Woken(c)' = Woken(c) /\ Back(c)' = Back(c)
    BY <1>4, <1>5 DEF Woken, Back
  <2>5. LastInv(c, l)'
    BY <1>0, <1>2, <1>3, <1>m, <1>4, <1>5, <2>2 DEF LastInv
  <2>8. ClosedInv(c)'
    BY <1>1, <1>3, <1>m, <1>4, <1>5, <2>5 DEF ClosedInv, LastWaits
  <2> QED BY <1>1, <1>5, <2>8 DEF ColourInv
<1>7. TypeOK'
  <2>1. pc' \in [Balls -> Labels]
    BY <1>0 DEF LastWaits, TypeOK, Goto
  <2>2. safe_to_reset' \in [Colours -> Nat]
    BY <1>0, <1>5 DEF LastWaits, TypeOK
  <2>3. posts' \in [Balls -> Nat]
    <3>1. posts \in [Balls -> Nat] /\ posts' = [posts EXCEPT ![b] = @ + 1]
      BY <1>0 DEF LastWaits, TypeOK
    <3> QED BY <3>1
  <2> QED BY <1>0, <1>5, <2>1, <2>2, <2>3 DEF LastWaits, TypeOK, history
<1>b. BallInv(b)'
  <2>1. pc[b] = "collecting" /\ pc'[b] = "collecting" /\ leader' = leader
    BY <1>0, <1>5 DEF LastWaits, TypeOK, history
  <2>2. IsFull(b)' /\ IsTold(b)'
    BY <1>0, <1>5, <2>1, ResultsStay DEF HasResults, Group, LastWaits, history
  <2> QED BY <1>0, <2>1, <2>2 DEF BallInv
<1>8. ASSUME NEW a \in Balls PROVE BallInv(a)'
  BY <1>b, OtherBalls DEF PackBall
<1>9. ASSUME NEW d \in Colours, d # c PROVE ColourInv(d)'
  BY <1>0, <1>9, OneColourOnly, OtherColour DEF Inv, PackBall
<1> QED BY <1>7, <1>6, <1>8, <1>9 DEF Inv

(* When the last ball has waited N - 1 times, every other ball of the pack has
   returned, and the semaphores are down. *)
LEMMA AllBack ==
  ASSUME TypeOK, NEW c \in Colours, ClosedInv(c), NEW l \in Balls, LastInv(c, l),
         pc[l] = "collecting", posts[l] = N - 1
  PROVE  /\ safe_to_reset[c] = 0 /\ last_ball_arrived[c] = 0
         /\ \A a \in Members(c) : a # l => pc[a] = "done"
<1> DEFINE S == Members(c) \ {l}
<1>0. /\ N \in Nat /\ N > 1 /\ l \in Members(c) /\ safe_to_reset[c] \in Nat /\ last_ball_arrived[c] \in Nat
      /\ PackInv(c) /\ count_other_balls[c] = N - 1
  BY BallsAssumption DEF TypeOK, LastInv, Members, ClosedInv
<1>1. IsFiniteSet(S) /\ Cardinality(S) = N - 1
  <2>1. IsFiniteSet(Members(c)) /\ Cardinality(Members(c)) = N
    BY <1>0, PackOfColour
  <2> QED BY <1>0, <2>1, FS_RemoveElement
<1>2. Back(c) \subseteq Woken(c) /\ Woken(c) \subseteq S
  BY DEF Back, Woken
<1>3. /\ Cardinality(Woken(c)) <= N - 1 /\ IsFiniteSet(Woken(c))
      /\ Cardinality(Back(c)) <= Cardinality(Woken(c)) /\ Back(c) \subseteq S
      /\ Cardinality(Back(c)) = N - 1 => Back(c) = S
  BY <1>1, <1>2, FS_Subset
<1>4. Cardinality(Back(c)) \in Nat /\ Cardinality(Woken(c)) \in Nat
  BY <1>1, <1>2, <1>3, FS_Subset, FS_CardinalityType
<1>5. /\ safe_to_reset[c] + (N - 1) = Cardinality(Back(c))
      /\ last_ball_arrived[c] + Cardinality(Woken(c)) = N - 1
  BY DEF LastInv
<1>6. safe_to_reset[c] = 0 /\ last_ball_arrived[c] = 0 /\ Back(c) = S
  BY <1>0, <1>3, <1>4, <1>5
<1> QED BY <1>6 DEF Back

(* The last ball opens the colour again. *)
LEMMA LastReturnsInv ==
  ASSUME Inv, NEW b \in Balls, LastReturns(b)
  PROVE  Inv'
<1> DEFINE c == ColourOf[b]
<1> USE BallsAssumption DEF Labels
<1>0. c \in Colours /\ TypeOK /\ ColourInv(c) /\ BallInv(b) /\ N \in Nat /\ N > 1
  BY DEF Inv
<1>1. mutex[c] # 1 /\ ClosedInv(c)
  BY <1>0 DEF ColourInv, OpenInv, TypeOK, LastReturns
<1>2. PICK l \in Balls : LastInv(c, l)
  BY <1>1 DEF ClosedInv
<1>m. /\ \A a \in Members(c) : a \in Balls /\ ColourOf[a] = c
      /\ Owner(c) \in Members(c) /\ Owner(c) \notin Added(c)
      /\ \A a : a \in Members(c) <=> a \in Added(c) \/ a = Owner(c)
      /\ IsFiniteSet(Members(c)) /\ Cardinality(Members(c)) = N
  BY <1>0, <1>1, PackOfColour DEF ClosedInv
<1>3. /\ PackInv(c) /\ count_other_balls[c] = N - 1 /\ ball_one_id[c] # NoBall /\ l \in Members(c) /\ l # Owner(c)
      /\ b \in Members(c) /\ b = l
  BY <1>0, <1>1, <1>2, <1>m DEF ClosedInv, LastInv, LastReturns
<1>4. /\ pc[b] = "collecting" /\ posts[b] = N - 1 /\ mutex[c] = 0
      /\ ball_one_id'[c] = NoBall /\ mutex'[c] = 1 /\ pc'[b] = "done"
      /\ \A a \in Balls \ {b} : pc'[a] = pc[a]
      /\ UNCHANGED <<safe_to_reset, last_ball_arrived>>
      /\ safe_to_reset[c] \in Nat /\ last_ball_arrived[c] \in Nat
  BY <1>0, <1>1 DEF LastReturns, TypeOK, Goto
<1>5. /\ safe_to_reset[c] = 0 /\ last_ball_arrived[c] = 0
      /\ \A a \in Members(c) : a # b => pc[a] = "done"
  BY <1>0, <1>1, <1>2, <1>3, <1>4, AllBack
<1>6. ColourInv(c)'
  <2>1. \A a \in Balls : ColourOf[a] = c => pc'[a] \in {"start", "done"}
    BY <1>1, <1>3, <1>m, <1>4, <1>5 DEF ClosedInv
  <2>2. OpenInv(c)'
    BY <1>4, <1>5, <2>1 DEF OpenInv
  <2> QED BY <1>4, <2>2 DEF ColourInv
<1>7. TypeOK'
  <2>1. pc' \in [Balls -> Labels]
    BY <1>0 DEF LastReturns, TypeOK, Goto
  <2>2. mutex' \in [Colours -> {0, 1}]
    BY <1>0, <1>4 DEF LastReturns, TypeOK
  <2>3. ball_one_id' \in [Colours -> Int] /\ other_ball_ids' \in [Colours -> Balls \cup {NULL}]
    <3>1. /\ ball_one_id \in [Colours -> Int] /\ ball_one_id' = [ball_one_id EXCEPT ![c] = NoBall]
          /\ other_ball_ids \in [Colours -> Balls \cup {NULL}]
          /\ other_ball_ids' = [other_ball_ids EXCEPT ![c] = NULL]
      BY <1>0 DEF LastReturns, TypeOK
    <3>2. NoBall \in Int
      BY DEF NoBall
    <3> QED BY <3>1, <3>2
  <2> QED BY <1>0, <1>4, <2>1, <2>2, <2>3 DEF LastReturns, TypeOK, history
<1>b. BallInv(b)'
  <2>1. leader' = leader /\ other_ids' = other_ids /\ spoilt' = spoilt
    BY DEF LastReturns, history
  <2>2. IsFull(b)' /\ IsTold(b)'
    BY <1>0, <1>4, <2>1, ResultsStay DEF HasResults, Group
  <2> QED BY <1>0, <1>4, <2>1, <2>2 DEF BallInv
<1>8. ASSUME NEW a \in Balls PROVE BallInv(a)'
  BY <1>b, OtherBalls DEF PackBall
<1>9. ASSUME NEW d \in Colours, d # c PROVE ColourInv(d)'
  BY <1>0, <1>9, OneColourOnly, OtherColour DEF Inv, PackBall
<1> QED BY <1>7, <1>6, <1>8, <1>9 DEF Inv

(* What is known of a ball that a step leaves alone. *)
LEMMA BallStays ==
  ASSUME NEW a \in Balls, BallInv(a), UNCHANGED <<pc, posts, other_ids, leader, spoilt>>
  PROVE  BallInv(a)'
<1>1. Group(a)' = Group(a)
  BY DEF Group
<1>2. HasResults(a) => IsFull(a)' /\ IsTold(a)'
  BY <1>1, ResultsStay
<1> QED BY <1>2 DEF BallInv, HasResults

(* The driver frees an array at any time after its ball is done. *)
LEMMA CollectInv ==
  ASSUME Inv, NEW b \in Balls, Collect(b)
  PROVE  Inv'
<1>1. UNCHANGED <<colourVars, pc, posts, other_ids, history>> /\ freed' = freed \cup {b}
  BY DEF Collect
<1>2. ASSUME NEW d \in Colours PROVE ColourInv(d)'
  BY <1>1, OtherColour DEF Inv, Keeps, colourVars, history
<1>3. ASSUME NEW a \in Balls PROVE BallInv(a)'
  BY <1>1, BallStays DEF Inv, history
<1>4. TypeOK'
  BY <1>1 DEF Inv, TypeOK, colourVars, history
<1> QED BY <1>2, <1>3, <1>4 DEF Inv

(* The invariant holds in every state. *)
LEMMA AlwaysInv == ASSUME NoMinusOne PROVE Spec => []Inv
<1>1. Inv /\ [Next]_vars => Inv'
  <2> SUFFICES ASSUME Inv, [Next]_vars PROVE Inv'
    OBVIOUS
  <2>1. CASE UNCHANGED vars
    <3>1. ASSUME NEW d \in Colours PROVE ColourInv(d)'
      BY <2>1, OtherColour DEF Inv, Keeps, vars, colourVars, history
    <3>2. ASSUME NEW a \in Balls PROVE BallInv(a)'
      BY <2>1, BallStays DEF Inv, vars, history
    <3>3. TypeOK'
      BY <2>1 DEF Inv, TypeOK, vars, colourVars, history
    <3> QED BY <3>1, <3>2, <3>3 DEF Inv
  <2>2. ASSUME NEW b \in Balls, PackBall(b) \/ Collect(b) PROVE Inv'
    BY <2>2, FirstArrivesInv, FirstReturnsInv, MiddleArrivesInv, MiddleWakesInv, MiddleReturnsInv,
       LastArrivesInv, LastPostsInv, LastCopiesInv, LastWaitsInv, LastReturnsInv, CollectInv
       DEF PackBall
  <2> QED BY <2>1, <2>2 DEF Next
<1> QED BY InitInv, <1>1, PTL DEF Spec

(***************************************************************************)
(* The variables stay in their types: no semaphore goes below 0 or, for    *)
(* the mutex, above 1, and no array gets more ids than it has places,      *)
(* whatever ids the balls have and whenever arrays are freed.              *)
(***************************************************************************)
THEOREM TypeCorrect == ASSUME NoMinusOne PROVE Spec => []TypeOK
<1>1. Inv => TypeOK
  BY DEF Inv
<1> QED BY AlwaysInv, <1>1, PTL

-----------------------------------------------------------------------------
(* The refinement. *)

(* A step in which no ball arrives changes no group. *)
LEMMA GroupsStay ==
  ASSUME Inv, NEW b \in Balls,
         \/ FirstReturns(b) \/ MiddleWakes(b) \/ MiddleReturns(b) \/ LastPosts(b)
         \/ LastCopies(b) \/ LastWaits(b) \/ LastReturns(b) \/ Collect(b)
  PROVE  packs' = packs /\ \A a \in Balls : Group(a)' = Group(a)
<1>1. leader' = leader
  BY DEF FirstReturns, MiddleWakes, MiddleReturns, LastPosts, LastCopies, LastWaits, LastReturns,
         Collect, history
<1> QED BY <1>1 DEF packs, IsFull, Group

(* The results of a ball, as the invariant has them. *)
LEMMA ResultsKnown ==
  ASSUME Inv, NEW a \in Balls
  PROVE  returned[a] = IF pc[a] = "done" THEN Others(a) ELSE {}
BY DEF returned, Inv, BallInv, HasResults

(* The same after a step. *)
LEMMA ResultsKnownNext ==
  ASSUME Inv', NEW a \in Balls
  PROVE  returned'[a] = IF pc'[a] = "done" THEN Others(a)' ELSE {}
BY DEF returned, Inv, BallInv, HasResults

(* A step in which no ball returns changes no results. *)
LEMMA ReturnedStays ==
  ASSUME Inv, Inv',
         \A a \in Balls : /\ pc'[a] = "done" <=> pc[a] = "done"
                          /\ pc[a] = "done" => Group(a)' = Group(a)
  PROVE  returned' = returned
<1>1. ASSUME NEW a \in Balls PROVE returned'[a] = returned[a]
  BY ResultsKnown, ResultsKnownNext DEF Others
<1>2. returned = [a \in Balls |-> returned[a]] /\ returned' = [a \in Balls |-> returned'[a]]
  BY DEF returned
<1> QED BY <1>1, <1>2

(* The first ball of a pack is not a pack. *)
LEMMA FirstArrivalPacks ==
  ASSUME Inv, Inv', NEW b \in Balls, FirstArrives(b)
  PROVE  packs' = packs /\ returned' = returned
<1>0. TypeOK /\ BallInv(b) /\ NULL \notin Balls /\ N \in Nat /\ N > 1
  BY BallsAssumption DEF Inv
<1>1. /\ leader[b] = NULL /\ leader' = [leader EXCEPT ![b] = b]
      /\ pc[b] = "start" /\ pc' = [pc EXCEPT ![b] = "first"]
  BY <1>0 DEF FirstArrives, BallInv, Goto
<1>2. ASSUME NEW a \in Balls \ {b}
      PROVE leader[a] # b /\ leader'[a] = leader[a] /\ (leader[a] # NULL => Group(a)' = Group(a))
  <2>1. leader[a] # b
    BY <1>0, <1>1 DEF Inv, BallInv
  <2> QED BY <1>0, <1>1, <2>1, ArrivalGroups
<1>3. ~IsFull(b) /\ ~IsFull(b)'
  <2>1. leader'[b] = b
    BY <1>0, <1>1 DEF TypeOK
  <2>2. Group(b)' = {b}
    BY <1>2, <2>1 DEF Group
  <2>3. Cardinality({b}) = 1
    BY FS_Singleton
  <2> QED BY <1>0, <1>1, <2>2, <2>3 DEF IsFull
<1>4. ASSUME NEW a \in Balls
      PROVE (IF IsFull(a)' THEN Group(a)' ELSE {}) = (IF IsFull(a) THEN Group(a) ELSE {})
  BY <1>2, <1>3 DEF IsFull
<1>5. packs' = packs
  BY <1>4 DEF packs
<1>6. ASSUME NEW a \in Balls
      PROVE /\ pc'[a] = "done" <=> pc[a] = "done"
            /\ pc[a] = "done" => Group(a)' = Group(a)
  BY <1>0, <1>1, <1>2 DEF TypeOK, Inv, BallInv
<1> QED BY <1>5, <1>6, ReturnedStays

(* What an arrival after the first changes: the group of the pack. *)
LEMMA OtherArrivalPacks ==
  ASSUME Inv, Inv', NEW b \in Balls, MiddleArrives(b) \/ LastArrives(b)
  PROVE  LET c == ColourOf[b]
             S == Members(c) \cup {b}
             count == count_other_balls[c]
         IN /\ returned' = returned
            /\ S \subseteq {a \in Balls : ColourOf[a] = c} /\ Cardinality(S) = count + 2
            /\ \A a \in S : packs[a] = {}
            /\ packs' = [a \in Balls |-> IF a \in S THEN IF count + 2 = N THEN S ELSE {} ELSE packs[a]]
<1> DEFINE c == ColourOf[b]
           S == Members(c) \cup {b}
           count == count_other_balls[c]
           o == Owner(c)
<1>0. c \in Colours /\ TypeOK /\ BallInv(b) /\ NULL \notin Balls /\ N \in Nat /\ N > 1
  BY BallsAssumption DEF Inv
<1>1. /\ PackInv(c) /\ pc[b] = "start" /\ leader[b] = NULL /\ count <= N - 2 /\ count \in Nat
      /\ leader' = [leader EXCEPT ![b] = o] /\ o \in Balls
      /\ \A a \in Balls : leader[a] = o <=> a \in Members(c)
      /\ \A a \in Members(c) : ~HasResults(a)
  BY <1>0, Arrival DEF PackInv, TypeOK
<1>2. /\ IsFiniteSet(Members(c)) /\ Cardinality(Members(c)) = count + 1
      /\ \A a \in Members(c) : a \in Balls /\ ColourOf[a] = c /\ leader[a] = o
      /\ b \notin Members(c)
  BY <1>0, <1>1, PackOfColour
<1>3. S \subseteq {a \in Balls : ColourOf[a] = c} /\ Cardinality(S) = count + 2
  <2>1. Cardinality(S) = (count + 1) + 1
    BY <1>2, FS_AddElement
  <2> QED BY <1>1, <1>2, <2>1
<1>4. \A a \in Balls : leader'[a] = IF a = b THEN o ELSE leader[a]
  BY <1>0, <1>1 DEF TypeOK
<1>5. ASSUME NEW a \in S PROVE Group(a)' = S /\ leader'[a] = o
  BY <1>1, <1>2, <1>4 DEF Group
<1>6. ASSUME NEW a \in Members(c) PROVE Group(a) = Members(c)
  BY <1>1, <1>2 DEF Group
<1>7. ASSUME NEW a \in S PROVE ~IsFull(a)
  <2>1. CASE a = b
    BY <1>1, <2>1 DEF IsFull
  <2>2. CASE a \in Members(c)
    BY <1>0, <1>1, <1>2, <1>6, <2>2 DEF IsFull
  <2> QED BY <2>1, <2>2
<1>8. ASSUME NEW a \in Balls \ S
      PROVE leader'[a] = leader[a] /\ (leader[a] # NULL => Group(a)' = Group(a))
  <2>1. a # b /\ leader[a] # o
    BY <1>1
  <2>2. leader[b] = NULL /\ leader' = [leader EXCEPT ![b] = o] /\ o \in Balls /\ TypeOK
    BY <1>0, <1>1
  <2> HIDE DEF o
  <2> QED BY <2>1, <2>2, ArrivalGroups
<1>9. \A a \in S : packs[a] = {}
  BY <1>3, <1>7 DEF packs
<1>10. ASSUME NEW a \in Balls
       PROVE (IF IsFull(a)' THEN Group(a)' ELSE {}) =
               IF a \in S THEN IF count + 2 = N THEN S ELSE {} ELSE packs[a]
  <2>1. CASE a \in S
    <3>1. IsFull(a)' <=> count + 2 = N
      BY <1>0, <1>1, <1>3, <1>5, <2>1 DEF IsFull
    <3> QED BY <1>5, <2>1, <3>1
  <2>2. CASE a \notin S
    BY <1>8, <2>2 DEF IsFull, packs
  <2> QED BY <2>1, <2>2
<1>11. packs' = [a \in Balls |-> IF a \in S THEN IF count + 2 = N THEN S ELSE {} ELSE packs[a]]
  BY <1>10 DEF packs
<1>12. returned' = returned
  <2>1. pc'[b] # "done" /\ \A a \in Balls \ {b} : pc'[a] = pc[a]
    BY <1>0 DEF MiddleArrives, LastArrives, Goto, TypeOK
  <2>2. ASSUME NEW a \in Balls, pc[a] = "done" PROVE Group(a)' = Group(a)
    <3>1. a \notin S /\ leader[a] # NULL
      BY <1>1, <2>2 DEF HasResults, Inv, BallInv
    <3> QED BY <1>8, <3>1
  <2> QED BY <1>1, <2>1, <2>2, ReturnedStays
<1> QED BY <1>3, <1>9, <1>11, <1>12

(* Steps that show nothing to the callers. *)
LEMMA InnerSteps ==
  ASSUME Inv, Inv', NEW b \in Balls,
         \/ FirstArrives(b) \/ MiddleArrives(b) \/ MiddleWakes(b)
         \/ LastPosts(b) \/ LastCopies(b) \/ LastWaits(b) \/ Collect(b)
  PROVE  packs' = packs /\ returned' = returned
<1> DEFINE c == ColourOf[b]
<1>1. CASE FirstArrives(b)
  BY <1>1, FirstArrivalPacks
<1>2. CASE MiddleArrives(b)
  <2> DEFINE S == Members(c) \cup {b}
             count == count_other_balls[c]
  <2>1. /\ returned' = returned /\ \A a \in S : packs[a] = {}
        /\ packs' = [a \in Balls |-> IF a \in S THEN IF count + 2 = N THEN S ELSE {} ELSE packs[a]]
    BY <1>2, OtherArrivalPacks
  <2>2. count + 2 # N
    BY <1>2, BallsAssumption DEF MiddleArrives, Inv, TypeOK
  <2>3. packs = [a \in Balls |-> packs[a]]
    BY DEF packs
  <2> HIDE DEF S, count
  <2> QED BY <2>1, <2>2, <2>3
<1>3. CASE MiddleWakes(b) \/ LastPosts(b) \/ LastCopies(b) \/ LastWaits(b) \/ Collect(b)
  <2>1. packs' = packs /\ \A a \in Balls : Group(a)' = Group(a)
    BY <1>3, GroupsStay
  <2>2. \A a \in Balls : pc'[a] = "done" <=> pc[a] = "done"
    BY <1>3 DEF Inv, TypeOK, MiddleWakes, LastPosts, LastCopies, LastWaits, Collect, Goto
  <2> QED BY <2>1, <2>2, ReturnedStays
<1> QED BY <1>1, <1>2, <1>3

(* The last ball makes a pack. *)
LEMMA ArrivalPacks ==
  ASSUME Inv, Inv', NEW b \in Balls, LastArrives(b)
  PROVE  \E S \in FullPacks : Packing!Pack(S)
<1> DEFINE c == ColourOf[b]
           count == count_other_balls[c]
<1>s. PICK S : S = Members(c) \cup {b}
  OBVIOUS
<1>1. /\ returned' = returned /\ \A a \in S : packs[a] = {}
      /\ S \subseteq {a \in Balls : ColourOf[a] = c} /\ Cardinality(S) = count + 2
      /\ packs' = [a \in Balls |-> IF a \in S THEN IF count + 2 = N THEN S ELSE {} ELSE packs[a]]
  BY <1>s, OtherArrivalPacks
<1>2. count + 2 = N /\ c \in Colours
  <2>1. c \in Colours /\ N \in Nat /\ count \in Nat /\ count >= N - 2
    BY BallsAssumption DEF LastArrives, Inv, TypeOK
  <2>2. count <= N - 2
    BY Arrival
  <2> QED BY <2>1, <2>2
<1>3. S \in FullPacks
  BY <1>1, <1>2 DEF FullPacks, kSubset
<1> QED BY <1>1, <1>2, <1>3 DEF Packing!Pack

(* A ball that returns was packed, and is told the others of its pack. *)
LEMMA ReturnTells ==
  ASSUME Inv, Inv', NEW b \in Balls,
         FirstReturns(b) \/ MiddleReturns(b) \/ LastReturns(b)
  PROVE  Packing!Return(b)
<1>1. packs' = packs /\ \A a \in Balls : Group(a)' = Group(a) /\ Others(a)' = Others(a)
  BY GroupsStay DEF Others
<1>2. pc[b] # "done" /\ pc'[b] = "done" /\ \A a \in Balls \ {b} : pc'[a] = pc[a]
  BY DEF Inv, TypeOK, FirstReturns, MiddleReturns, LastReturns, Goto
<1>3. packs[b] = Group(b) /\ b \in Group(b)
  <2>1. IsFull(b)'
    BY <1>2 DEF Inv, BallInv, HasResults
  <2>2. packs'[b] = Group(b)'
    BY <2>1 DEF packs
  <2> QED BY <1>1, <2>2 DEF Group
<1>4. returned[b] = {} /\ returned'[b] = packs[b] \ {b}
  BY <1>1, <1>2, <1>3, ResultsKnown, ResultsKnownNext DEF Others
<1>5. ASSUME NEW a \in Balls \ {b} PROVE returned'[a] = returned[a]
  BY <1>1, <1>2, ResultsKnown, ResultsKnownNext
<1>6. returned = [a \in Balls |-> returned[a]] /\ returned' = [a \in Balls |-> returned'[a]]
  BY DEF returned
<1>7. returned' = [returned EXCEPT ![b] = packs[b] \ {b}]
  BY <1>4, <1>5, <1>6
<1> QED BY <1>1, <1>3, <1>4, <1>7 DEF Packing!Return

(***************************************************************************)
(* pack_ball implements Packing, for any number of balls, colours and      *)
(* balls per pack: each ball is put into one pack of N balls of its colour *)
(* and told all the others, unless it copied an array that was freed or    *)
(* shares its id with another ball of its pack; no id is that of an empty  *)
(* pack.                                                                   *)
(***************************************************************************)
THEOREM PackingImplemented == ASSUME NoMinusOne PROVE Spec => ImplementsPacking
<1>1. Init => Packing!Init
  BY DEF Init, Packing!Init, packs, returned, IsFull
<1>2. Inv /\ Inv' /\ [Next]_vars => [Packing!Next]_(Packing!packingVars)
  <2> SUFFICES ASSUME Inv, Inv', [Next]_vars PROVE [Packing!Next]_(Packing!packingVars)
    OBVIOUS
  <2>1. CASE UNCHANGED vars
    BY <2>1 DEF vars, history, Packing!packingVars, packs, returned, IsFull, IsTold, ToldOthers,
                Heard, Others, Group
  <2>2. ASSUME NEW b \in Balls, PackBall(b) \/ Collect(b)
        PROVE [Packing!Next]_(Packing!packingVars)
    <3>1. CASE LastArrives(b)
      BY <3>1, ArrivalPacks DEF Packing!Next
    <3>2. CASE FirstReturns(b) \/ MiddleReturns(b) \/ LastReturns(b)
      BY <3>2, ReturnTells DEF Packing!Next
    <3>3. CASE \/ FirstArrives(b) \/ MiddleArrives(b) \/ MiddleWakes(b)
               \/ LastPosts(b) \/ LastCopies(b) \/ LastWaits(b) \/ Collect(b)
      BY <3>3, InnerSteps DEF Packing!packingVars
    <3> QED BY <2>2, <3>1, <3>2, <3>3 DEF PackBall
  <2> QED BY <2>1, <2>2 DEF Next
<1> QED BY AlwaysInv, <1>1, <1>2, PTL DEF Spec, ImplementsPacking, Packing!Spec
=============================================================================
