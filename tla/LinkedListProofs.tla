-------------------------- MODULE LinkedListProofs --------------------------
(***************************************************************************)
(* The lists of Lab 1 for all finite sets of cells, all elements and every *)
(* MaxData: a program follows its links out of its memory only if its      *)
(* first node was given an old link, every cell that was not freed is      *)
(* accounted for, and the links implement the sequence of SeqList.         *)
(*                                                                         *)
(* At, the walk from the head, is a function given by recursion; AllUpTo,  *)
(* an induction over the naturals by least counterexample, gives what is   *)
(* needed of it: it is the only walk there is (AtIsWalk, WalksAgree), and  *)
(* a chain of distinct allocated cells from the head is its prefix         *)
(* (ChainIsAt).  An instruction is then proved in three parts: it keeps    *)
(* Inv (StepInv), what it did to the walk and to the numbers in its cells  *)
(* (Done), and that SeqList does the same to its sequence                  *)
(* (StepKeepsPromise).                                                     *)
(***************************************************************************)
EXTENDS LinkedList, FiniteSetTheorems, SequenceTheorems, TLAPS

Places == Cells \cup {NULL, LOST}
Bound == Cardinality(Cells)

(* Every set of naturals has a least one, unless it is empty. *)
LEMMA LeastNat ==
  ASSUME NEW T, T \subseteq Nat, T # {}
  PROVE  \E x \in T : \A y \in T : x <= y
<1>1. \A R : IsWellFoundedOn(R, Nat) => \E x \in T : \A y \in T : ~ (<<y, x>> \in R)
  BY WFMin
<1>2. IsWellFoundedOn({xy \in Nat \X Nat : xy[1] < xy[2]}, Nat)
  BY NatLessThanWellFounded DEF OpToRel
<1>3. PICK x \in T : \A y \in T : ~ (<<y, x>> \in {xy \in Nat \X Nat : xy[1] < xy[2]})
  BY <1>1, <1>2
<1>4. ASSUME NEW y \in T, y < x PROVE FALSE
  <2>1. <<y, x>> \in Nat \X Nat
    OBVIOUS
  <2>2. <<y, x>>[1] = y /\ <<y, x>>[2] = x
    OBVIOUS
  <2>3. <<y, x>> \in {xy \in Nat \X Nat : xy[1] < xy[2]}
    BY <1>4, <2>1, <2>2
  <2> QED BY <1>3, <2>3
<1>5. \A y \in T : x <= y
  BY <1>4
<1> QED BY <1>5

(***************************************************************************)
(* What is true of the first of a set of numbers' successors up to n is    *)
(* true of all of them: the set S holds 0 and, with k < n, k + 1.          *)
(***************************************************************************)
LEMMA AllUpTo ==
  ASSUME NEW n \in Nat, NEW S, 0 \in S, \A k \in 0 .. n - 1 : k \in S => k + 1 \in S
  PROVE  0 .. n \subseteq S
<1> DEFINE T == {k \in 0 .. n : k \notin S}
<1> SUFFICES ASSUME T # {} PROVE FALSE
  OBVIOUS
<1>0. T \subseteq Nat
  OBVIOUS
<1>1. PICK k \in T : \A j \in T : k <= j
  BY <1>0, LeastNat
<1>2. k \in 1 .. n /\ k - 1 \in 0 .. n - 1
  BY <1>1
<1>3. k - 1 \in S
  BY <1>1, <1>2
<1> QED BY <1>1, <1>2, <1>3

(* Types without the bound on size, which the chain of nodes gives. *)
BasicType ==
  /\ program \in {"ex2", "ex3"}
  /\ head \in Cells \cup {NULL}
  /\ cell \in [Cells -> [data : 0 .. MaxData, next : Cells \cup {NULL}]]
  /\ allocated \subseteq Cells /\ forgotten \subseteq allocated
  /\ lost \in BOOLEAN /\ stray \in BOOLEAN
  /\ size \in Nat

TypeOK == BasicType /\ size \in Steps

(* w follows the links for n steps. *)
IsWalk(w, n) == w[0] = head /\ \A k \in 0 .. n - 1 : w[k + 1] = Follow(w[k])

(* A walk has as many steps as there are cells. *)
LEMMA BoundType == Bound \in Nat /\ Steps = 0 .. Bound
  BY ListAssumption, FS_CardinalityType DEF Bound, Steps

(* A link leads to a cell, to NULL or out of the memory. *)
LEMMA FollowType ==
  ASSUME BasicType, NEW n \in Places
  PROVE  Follow(n) \in Places
<1>1. CASE n \in allocated
  <2>1. n \in Cells
    BY <1>1 DEF BasicType
  <2>2. cell[n].next \in Cells \cup {NULL}
    BY <2>1 DEF BasicType
  <2> QED BY <1>1, <2>2 DEF Follow, Places
<1>2. CASE n \notin allocated
  BY <1>2 DEF Follow, Places
<1> QED BY <1>1, <1>2

(* There is a walk of every length ... *)
LEMMA WalkExists ==
  ASSUME BasicType, NEW n \in Nat
  PROVE  \E w \in [0 .. n -> Places] : IsWalk(w, n)
<1> DEFINE S == {k \in Nat : \E w \in [0 .. k -> Places] : IsWalk(w, k)}
<1>1. 0 \in S
  <2>1. [k \in 0 .. 0 |-> head] \in [0 .. 0 -> Places]
    BY DEF BasicType, Places
  <2>2. IsWalk([k \in 0 .. 0 |-> head], 0)
    BY DEF IsWalk
  <2> QED BY <2>1, <2>2
<1>2. ASSUME NEW k \in 0 .. n - 1, k \in S PROVE k + 1 \in S
  <2>1. PICK w \in [0 .. k -> Places] : IsWalk(w, k)
    BY <1>2
  <2>2. PICK f : f = Follow(w[k])
    OBVIOUS
  <2>3. k \in 0 .. k /\ w[k] \in Places /\ f \in Places
    BY <2>1, <2>2, FollowType
  <2> DEFINE v == [j \in 0 .. k + 1 |-> IF j = k + 1 THEN f ELSE w[j]]
  <2>4. v \in [0 .. k + 1 -> Places]
    BY <2>1, <2>3
  <2>5. v[0] = head
    BY <2>1 DEF IsWalk
  <2>6. ASSUME NEW j \in 0 .. (k + 1) - 1 PROVE v[j + 1] = Follow(v[j])
    <3>1. CASE j = k
      BY <2>2, <3>1
    <3>2. CASE j # k
      <4>1. j \in 0 .. k - 1 /\ v[j + 1] = w[j + 1] /\ v[j] = w[j]
        BY <3>2
      <4> QED BY <2>1, <4>1 DEF IsWalk
    <3> QED BY <3>1, <3>2
  <2> HIDE DEF v
  <2>7. IsWalk(v, k + 1)
    BY <2>5, <2>6 DEF IsWalk
  <2> QED BY <2>4, <2>7
<1>3. 0 .. n \subseteq S
  BY <1>1, <1>2, AllUpTo
<1> QED BY <1>3

(* ... and only one. *)
LEMMA WalksAgree ==
  ASSUME NEW m \in Nat, NEW n \in Nat, m <= n, NEW v, NEW w, IsWalk(v, m), IsWalk(w, n)
  PROVE  \A k \in 0 .. m : v[k] = w[k]
<1> DEFINE S == {k \in 0 .. m : v[k] = w[k]}
<1>1. 0 \in S
  BY DEF IsWalk
<1>2. ASSUME NEW k \in 0 .. m - 1, k \in S PROVE k + 1 \in S
  <2>1. v[k + 1] = Follow(v[k]) /\ w[k + 1] = Follow(w[k])
    BY DEF IsWalk
  <2> QED BY <1>2, <2>1
<1>3. 0 .. m \subseteq S
  BY <1>1, <1>2, AllUpTo
<1> QED BY <1>3

(* At is the walk of as many steps as there are cells. *)
AtWalks == At \in [Steps -> Places] /\ IsWalk(At, Bound)

LEMMA AtIsWalk == BasicType => AtWalks
<1> SUFFICES ASSUME BasicType PROVE AtWalks
  OBVIOUS
<1>1. PICK w \in [0 .. Bound -> Places] : IsWalk(w, Bound)
  BY BoundType, WalkExists
<1>2. w = [k \in Steps |-> IF k = 0 THEN head ELSE Follow(w[k - 1])]
  <2>1. ASSUME NEW k \in Steps PROVE w[k] = IF k = 0 THEN head ELSE Follow(w[k - 1])
    <3>1. CASE k = 0
      BY <1>1, <3>1 DEF IsWalk
    <3>2. CASE k # 0
      <4>1. k - 1 \in 0 .. Bound - 1 /\ (k - 1) + 1 = k
        BY <3>2, BoundType
      <4> QED BY <1>1, <3>2, <4>1 DEF IsWalk
    <3> QED BY <3>1, <3>2
  <2> QED BY <1>1, <2>1, BoundType
<1>3. PICK v : v = At
  OBVIOUS
<1>4. v = [k \in Steps |-> IF k = 0 THEN head ELSE Follow(v[k - 1])]
  BY <1>2, <1>3 DEF At
<1>5. IsWalk(v, Bound)
  BY <1>4, BoundType DEF IsWalk
<1>6. \A k \in 0 .. Bound : v[k] = w[k]
  BY <1>1, <1>5, BoundType, WalksAgree
<1>7. v = w
  BY <1>1, <1>4, <1>6, BoundType
<1> QED BY <1>1, <1>3, <1>5, <1>7, BoundType DEF AtWalks

(* A chain leads from the head through allocated cells, none of them twice. *)
IsChain(w, n) ==
  /\ w[0] = head
  /\ \A k \in 0 .. n - 1 : w[k] \in allocated /\ w[k + 1] = cell[w[k]].next

Distinct(w, n) == \A j, k \in 0 .. n - 1 : w[j] = w[k] => j = k

ChainFacts ==
  \A w : IsChain(w, size) /\ Distinct(w, size) =>
            size \in Steps /\ \A k \in 0 .. size : At[k] = w[k]

(* As many distinct cells as the list has nodes fit into the memory. *)
LEMMA ChainIsAt == BasicType => ChainFacts
<1> SUFFICES ASSUME BasicType, NEW w, IsChain(w, size), Distinct(w, size)
             PROVE  size \in Steps /\ \A k \in 0 .. size : At[k] = w[k]
  BY DEF ChainFacts
<1>1. size \in Nat /\ Bound \in Nat /\ Steps = 0 .. Bound
  BY BoundType DEF BasicType
<1>2. size \in Steps
  <2>1. IsFiniteSet(0 .. size - 1) /\ Cardinality(0 .. size - 1) = size
    <3>1. PICK b : b = size - 1
      OBVIOUS
    <3>2. b \in Int /\ (IF 0 > b THEN 0 ELSE b - 0 + 1) = size
      BY <1>1, <3>1
    <3>3. IsFiniteSet(0 .. b) /\ Cardinality(0 .. b) = IF 0 > b THEN 0 ELSE b - 0 + 1
      BY <3>2, FS_Interval
    <3> QED BY <3>1, <3>2, <3>3
  <2> DEFINE v == [k \in 0 .. size - 1 |-> w[k]]
  <2>2. v \in [0 .. size - 1 -> Cells]
    BY DEF IsChain, BasicType
  <2>3. v \in Injection(0 .. size - 1, Cells)
    BY <2>2 DEF Injection, IsInjective, Distinct
  <2>4. Cardinality(0 .. size - 1) <= Cardinality(Cells)
    BY <2>3, ListAssumption, FS_Injection
  <2> QED BY <1>1, <2>1, <2>4 DEF Bound
<1>3. IsWalk(w, size)
  BY DEF IsChain, IsWalk, Follow
<1>4. IsWalk(At, Bound)
  BY AtIsWalk DEF AtWalks
<1>5. \A k \in 0 .. size : w[k] = At[k]
  BY <1>1, <1>2, <1>3, <1>4, WalksAgree
<1> QED BY <1>2, <1>5

(* The same after a step. *)
LEMMA ChainAfter ==
  ASSUME BasicType', NEW w, w[0] = head',
         \A k \in 0 .. size' - 1 : w[k] \in allocated' /\ w[k + 1] = cell'[w[k]].next,
         Distinct(w, size')
  PROVE  size' \in Steps /\ \A k \in 0 .. size' : At'[k] = w[k]
<1>1. (BasicType => ChainFacts)'
  BY ChainIsAt, PTL
<1>2. ChainFacts'
  BY <1>1
<1> QED BY <1>2 DEF ChainFacts, IsChain, Distinct

-----------------------------------------------------------------------------
(***************************************************************************)
(* The inductive invariant.  The first size nodes are there, one after the *)
(* other and each once; what is allocated and not forgotten can be reached *)
(* from the head; and unless the list was given an old link, it ends after *)
(* size nodes, none of them forgotten.  With an old link the list may go   *)
(* on after size nodes, in a circle or into memory that was freed, until a *)
(* list without nodes lets insert_node_at start again.                     *)
(***************************************************************************)
Prefix ==
  /\ \A k \in 0 .. size - 1 : At[k] \in allocated
  /\ Distinct(At, size)
  /\ ~stray => At[size] = NULL

ClosedUnderLinks(S) == head \in S /\ \A n \in S \cap allocated : cell[n].next \in S

Reached ==
  \A S \in SUBSET (Cells \cup {NULL}) :
    ClosedUnderLinks(S) => allocated \ forgotten \subseteq S

NotForgotten == ~stray => \A k \in 0 .. size - 1 : At[k] \notin forgotten

Inv == TypeOK /\ Prefix /\ Reached /\ NotForgotten /\ StaysInMemory

-----------------------------------------------------------------------------
(* Where the links lead from a list as the invariant has it. *)
LEMMA PrefixFacts ==
  ASSUME TypeOK, Prefix
  PROVE  /\ size \in Nat /\ Bound \in Nat /\ size <= Bound /\ Steps = 0 .. Bound
         /\ At[0] = head
         /\ \A k \in 0 .. size - 1 : At[k] \in allocated /\ At[k] \in Cells
                                   /\ At[k + 1] = cell[At[k]].next
         /\ \A k \in 0 .. size : At[k] \in Cells \cup {NULL} /\ At[k] # LOST
         /\ head = NULL => size = 0
<1>1. size \in Nat /\ Bound \in Nat /\ size <= Bound /\ Steps = 0 .. Bound
  BY BoundType DEF TypeOK, BasicType
<1>2. IsWalk(At, Bound)
  BY AtIsWalk DEF AtWalks, TypeOK
<1>3. At[0] = head
  BY <1>2 DEF IsWalk
<1>4. ASSUME NEW k \in 0 .. size - 1
      PROVE  At[k] \in allocated /\ At[k] \in Cells /\ At[k + 1] = cell[At[k]].next
  <2>1. At[k] \in allocated /\ At[k] \in Cells
    BY DEF Prefix, TypeOK, BasicType
  <2>2. At[k + 1] = Follow(At[k])
    BY <1>1, <1>2 DEF IsWalk
  <2> QED BY <2>1, <2>2 DEF Follow
<1>5. ASSUME NEW k \in 0 .. size PROVE At[k] \in Cells \cup {NULL} /\ At[k] # LOST
  <2>1. At[k] \in Cells \cup {NULL}
    <3>1. CASE k = 0
      BY <1>3, <3>1 DEF TypeOK, BasicType
    <3>2. CASE k # 0
      <4>1. PICK j \in 0 .. size - 1 : j + 1 = k
        <5>1. k - 1 \in 0 .. size - 1 /\ (k - 1) + 1 = k
          BY <1>1, <3>2
        <5> QED BY <5>1
      <4>2. At[k] = cell[At[j]].next /\ At[j] \in Cells
        BY <1>4, <4>1
      <4> QED BY <4>2 DEF TypeOK, BasicType
    <3> QED BY <3>1, <3>2
  <2> QED BY <2>1, ListAssumption
<1>6. head = NULL => size = 0
  <2> SUFFICES ASSUME head = NULL, size # 0 PROVE FALSE
    OBVIOUS
  <2>1. 0 \in 0 .. size - 1
    BY <1>1
  <2> QED BY <1>3, <1>4, <2>1, ListAssumption
<1> QED BY <1>1, <1>3, <1>4, <1>5, <1>6

(* A walk that has left the allocated cells is lost from then on. *)
LEMMA OffTrack ==
  ASSUME TypeOK, NEW k \in Steps, At[k] \notin allocated
  PROVE  \A j \in Steps : j > k => At[j] = LOST
<1>1. Bound \in Nat /\ Steps = 0 .. Bound
  BY BoundType
<1>2. IsWalk(At, Bound)
  BY AtIsWalk DEF AtWalks, TypeOK
<1>3. LOST \notin allocated
  BY ListAssumption DEF TypeOK, BasicType
<1> DEFINE S == {i \in Nat : k + 1 + i \in Steps => At[k + 1 + i] = LOST}
<1>4. 0 \in S
  <2>1. k \in Nat /\ k + 1 + 0 = k + 1
    BY <1>1
  <2>2. k + 1 \in Steps => At[k + 1] = Follow(At[k])
    BY <1>1, <1>2 DEF IsWalk
  <2> QED BY <2>1, <2>2 DEF Follow
<1>5. ASSUME NEW i \in 0 .. Bound - 1, i \in S PROVE i + 1 \in S
  <2>1. PICK j : j = k + 1 + i
    OBVIOUS
  <2>2. j \in Nat /\ k + 1 + (i + 1) = j + 1
    BY <1>1, <2>1
  <2>3. j + 1 \in Steps => j \in 0 .. Bound - 1
    BY <1>1, <2>2
  <2>4. j + 1 \in Steps => At[j + 1] = Follow(At[j]) /\ At[j] = LOST
    BY <1>1, <1>2, <1>5, <2>1, <2>3 DEF IsWalk
  <2> QED BY <1>3, <2>2, <2>4 DEF Follow
<1>6. 0 .. Bound \subseteq S
  BY <1>1, <1>4, <1>5, AllUpTo
<1>7. ASSUME NEW j \in Steps, j > k PROVE At[j] = LOST
  <2>1. j - k - 1 \in 0 .. Bound /\ k + 1 + (j - k - 1) = j
    BY <1>1, <1>7
  <2> QED BY <1>6, <2>1
<1> QED BY <1>7

(* A list that ends does so at one place, and has each of its nodes once. *)
LEMMA EndFacts ==
  ASSUME TypeOK, NEW m \in Steps, At[m] = NULL
  PROVE  /\ Ends
         /\ \A k \in Steps : At[k] = NULL => k = m
         /\ \A k \in 0 .. m - 1 : At[k] \in allocated /\ At[k] \in Cells
                                /\ At[k + 1] = cell[At[k]].next
         /\ Distinct(At, m)
         /\ Nodes = [k \in 1 .. m |-> At[k - 1]]
<1>1. Bound \in Nat /\ Steps = 0 .. Bound /\ m \in Nat /\ m <= Bound
  BY BoundType
<1>2. IsWalk(At, Bound)
  BY AtIsWalk DEF AtWalks, TypeOK
<1>3. NULL \notin allocated /\ NULL # LOST /\ allocated \subseteq Cells
  BY ListAssumption DEF TypeOK, BasicType
<1>4. ASSUME NEW k \in 0 .. m - 1
      PROVE  At[k] \in allocated /\ At[k] \in Cells /\ At[k + 1] = cell[At[k]].next
  <2>1. At[k] \in allocated
    <3>1. k \in Steps /\ m > k
      BY <1>1
    <3> QED BY <1>3, <3>1, OffTrack
  <2>2. At[k + 1] = Follow(At[k])
    BY <1>1, <1>2 DEF IsWalk
  <2> QED BY <1>3, <2>1, <2>2 DEF Follow
<1>5. ASSUME NEW k \in Steps, At[k] = NULL PROVE k = m
  <2>1. ~ (k < m)
    <3> SUFFICES ASSUME k < m PROVE FALSE
      OBVIOUS
    <3>1. k \in 0 .. m - 1
      BY <1>1
    <3> QED BY <1>3, <1>4, <1>5, <3>1
  <2>2. ~ (k > m)
    BY <1>3, <1>5, OffTrack
  <2> QED BY <1>1, <2>1, <2>2
<1>6. ASSUME NEW i \in 0 .. m - 1, NEW j \in 0 .. m - 1, At[i] = At[j], i < j PROVE FALSE
  <2>0. PICK n : n = m - j
    OBVIOUS
  <2>n. n \in Nat
    BY <1>1, <1>6, <2>0
  <2> DEFINE S == {k \in 0 .. n : At[i + k] = At[j + k]}
  <2>1. 0 \in S
    BY <1>1, <1>6, <2>n
  <2>2. ASSUME NEW k \in 0 .. n - 1, k \in S PROVE k + 1 \in S
    <3>1. PICK a, b : a = i + k /\ b = j + k
      OBVIOUS
    <3>2. a \in 0 .. m - 1 /\ b \in 0 .. m - 1 /\ i + (k + 1) = a + 1 /\ j + (k + 1) = b + 1
          /\ k + 1 \in 0 .. n
      BY <1>1, <1>6, <2>0, <3>1
    <3>3. At[a] = At[b]
      BY <2>2, <3>1
    <3> QED BY <1>4, <3>2, <3>3
  <2>3. 0 .. n \subseteq S
    BY <2>1, <2>2, <2>n, AllUpTo
  <2>4. n \in 0 .. n /\ i + n \in 0 .. m - 1 /\ j + n = m
    BY <1>1, <1>6, <2>0
  <2>5. At[i + n] = At[j + n]
    BY <2>3, <2>4
  <2> QED BY <1>3, <1>4, <2>4, <2>5
<1>7. Distinct(At, m)
  <2> SUFFICES ASSUME NEW i \in 0 .. m - 1, NEW j \in 0 .. m - 1, At[i] = At[j], i # j PROVE FALSE
    BY DEF Distinct
  <2>1. i < j \/ j < i
    BY <1>1
  <2> QED BY <1>6, <2>1
<1>8. (CHOOSE k \in Steps : At[k] = NULL) = m
  BY <1>5
<1>9. Nodes = [k \in 1 .. m |-> At[k - 1]]
  BY <1>8 DEF Nodes
<1> QED BY <1>4, <1>5, <1>7, <1>9 DEF Ends

(* Every set that is closed under the links holds the first size nodes. *)
PrefixReached == \A S : ClosedUnderLinks(S) => \A k \in 0 .. size : At[k] \in S

(* By induction along the walk. *)
LEMMA PrefixIsReached == TypeOK /\ Prefix => PrefixReached
<1> SUFFICES ASSUME TypeOK, Prefix, NEW S, ClosedUnderLinks(S)
             PROVE  \A k \in 0 .. size : At[k] \in S
  BY DEF PrefixReached
<1> DEFINE T == {k \in 0 .. size : At[k] \in S}
<1>1. size \in Nat /\ 0 \in T
  BY PrefixFacts DEF ClosedUnderLinks
<1>2. ASSUME NEW k \in 0 .. size - 1, k \in T PROVE k + 1 \in T
  <2>1. At[k] \in S /\ At[k] \in allocated /\ At[k + 1] = cell[At[k]].next
    BY <1>2, PrefixFacts
  <2>2. k + 1 \in 0 .. size
    BY <1>1
  <2> QED BY <2>1, <2>2 DEF ClosedUnderLinks
<1>3. 0 .. size \subseteq T
  BY <1>1, <1>2, AllUpTo
<1> QED BY <1>3

-----------------------------------------------------------------------------
(* What an insertion of d in cell n at place i does to the walk. *)
Inserted(i, d, n) ==
  /\ ~lost /\ i \in 0 .. size /\ d \in Elements /\ n \in Cells \ allocated
  /\ allocated' = allocated \cup {n} /\ size' = size + 1 /\ reply' = <<"insert">>
  /\ UNCHANGED <<program, lost, forgotten>>
  /\ TypeOK'
  /\ cell'[n].data = d /\ \A m \in Cells \ {n} : cell'[m].data = cell[m].data
  /\ \A k \in 0 .. size : At'[k] = IF k < i THEN At[k] ELSE IF k = i THEN n ELSE At[k - 1]
  /\ stray' \/ ((~stray \/ head = NULL) /\ At'[size + 1] = NULL)

(* The nodes are in a row again. *)
LEMMA InsertedPrefix ==
  ASSUME Inv, NEW i, NEW d, NEW n, Inserted(i, d, n)
  PROVE  Prefix' /\ NotForgotten'
<1>1. /\ size \in Nat /\ size' = size + 1 /\ i \in 0 .. size
      /\ n \notin allocated /\ allocated' = allocated \cup {n}
      /\ forgotten' = forgotten /\ forgotten \subseteq allocated
  BY DEF Inserted, Inv, TypeOK, BasicType
<1>2. \A k \in 0 .. size - 1 : At[k] \in allocated
  BY DEF Inv, Prefix
<1>3. ASSUME NEW k \in 0 .. size
      PROVE  \/ k < i /\ k \in 0 .. size - 1 /\ At'[k] = At[k]
             \/ k = i /\ At'[k] = n
             \/ k > i /\ k - 1 \in 0 .. size - 1 /\ At'[k] = At[k - 1]
  <2>1. At'[k] = IF k < i THEN At[k] ELSE IF k = i THEN n ELSE At[k - 1]
    BY DEF Inserted
  <2> QED BY <1>1, <2>1
<1> DEFINE OldPlace(k, a) == At'[k] = At[a] /\ ((k < i /\ a = k) \/ (k > i /\ a = k - 1))
<1>11. ASSUME NEW k \in 0 .. size, k # i PROVE \E a \in 0 .. size - 1 : OldPlace(k, a)
  <2>1. CASE k < i
    <3>1. k \in 0 .. size - 1
      BY <1>1, <2>1
    <3>2. At'[k] = At[k]
      BY <1>1, <1>3, <2>1
    <3> QED BY <2>1, <3>1, <3>2
  <2>2. CASE ~ (k < i)
    <3>1. PICK a : a = k - 1
      OBVIOUS
    <3>2. a \in 0 .. size - 1 /\ OldPlace(k, a)
      BY <1>1, <1>3, <1>11, <2>2, <3>1
    <3> QED BY <3>2
  <2> QED BY <2>1, <2>2
<1>4. 0 .. size' - 1 = 0 .. size
  BY <1>1
<1>5. \A k \in 0 .. size' - 1 : At'[k] \in allocated'
  BY <1>1, <1>2, <1>3, <1>4
<1>6. Distinct(At, size)'
  <2>1. ASSUME NEW j \in 0 .. size, NEW k \in 0 .. size, At'[j] = At'[k] PROVE j = k
    <3>1. (j = i) <=> (k = i)
      BY <1>1, <1>2, <1>3, <2>1
    <3>2. CASE j # i /\ k # i
      <4>1. PICK a \in 0 .. size - 1 : OldPlace(j, a)
        BY <1>11, <3>2
      <4>2. PICK b \in 0 .. size - 1 : OldPlace(k, b)
        BY <1>11, <3>2
      <4>3. a = b
        BY <2>1, <4>1, <4>2 DEF Inv, Prefix, Distinct
      <4> QED BY <1>1, <4>1, <4>2, <4>3
    <3> QED BY <3>1, <3>2
  <2> QED BY <1>4, <2>1 DEF Distinct
<1>7. ~stray' => At'[size'] = NULL
  BY <1>1 DEF Inserted
<1>8. ASSUME ~stray', NEW k \in 0 .. size PROVE At'[k] \notin forgotten'
  <2>1. ~stray \/ size = 0
    BY <1>8, PrefixFacts DEF Inserted, Inv
  <2>2. CASE k = i
    BY <1>1, <1>3, <2>2
  <2>3. CASE k # i
    <3>1. PICK a \in 0 .. size - 1 : At'[k] = At[a]
      BY <1>3, <2>3
    <3>2. ~stray
      BY <1>1, <2>1, <3>1
    <3> QED BY <1>1, <3>1, <3>2 DEF Inv, NotForgotten
  <2> QED BY <2>2, <2>3
<1>9. Prefix'
  BY <1>5, <1>6, <1>7 DEF Prefix
<1>10. NotForgotten'
  BY <1>4, <1>8 DEF NotForgotten
<1> QED BY <1>9, <1>10

(* What was reached stays so, and the new node is. *)
LEMMA InsertedReached ==
  ASSUME Inv, NEW i, NEW d, NEW n, Inserted(i, d, n),
         \A S \in SUBSET (Cells \cup {NULL}) :
           n \in S /\ ClosedUnderLinks(S)' => allocated \ forgotten \subseteq S
  PROVE  Inv'
<1>1. TypeOK' /\ Prefix' /\ NotForgotten'
  BY InsertedPrefix DEF Inserted
<1>2. (TypeOK /\ Prefix => PrefixReached)'
  BY PrefixIsReached, PTL
<1>3. Reached'
  <2> SUFFICES ASSUME NEW S \in SUBSET (Cells \cup {NULL}), ClosedUnderLinks(S)'
               PROVE  allocated' \ forgotten' \subseteq S
    BY DEF Reached
  <2>1. \A k \in 0 .. size' : At'[k] \in S
    BY <1>1, <1>2 DEF PrefixReached
  <2>2. i \in 0 .. size' /\ At'[i] = n
    BY DEF Inserted, Inv, TypeOK, BasicType
  <2>3. n \in S
    BY <2>1, <2>2
  <2> QED BY <2>3 DEF Inserted
<1>4. StaysInMemory'
  <2>1. lost' = lost /\ ~lost
    BY DEF Inserted
  <2> QED BY <2>1 DEF StaysInMemory
<1> QED BY <1>1, <1>3, <1>4 DEF Inv

(* What insert_node_at does whichever way it links the node. *)
Allots(i, d, n) ==
  /\ ~lost /\ i \in 0 .. size /\ d \in Elements /\ n \in Cells \ allocated
  /\ allocated' = allocated \cup {n} /\ size' = size + 1 /\ reply' = <<"insert">>
  /\ UNCHANGED <<program, lost, forgotten>>

(* Its types. *)
LEMMA AllotsFacts ==
  ASSUME Inv, NEW i, NEW d, NEW n, Allots(i, d, n)
  PROVE  /\ size \in Nat /\ size' = size + 1 /\ size' \in Nat /\ i \in 0 .. size /\ i \in Nat
         /\ d \in 0 .. MaxData /\ n \in Cells /\ n \notin allocated /\ allocated' = allocated \cup {n}
         /\ allocated \subseteq Cells /\ forgotten \subseteq allocated /\ forgotten' = forgotten
         /\ allocated' \subseteq Cells /\ forgotten' \subseteq allocated'
         /\ program' \in {"ex2", "ex3"} /\ lost' \in BOOLEAN
BY ListAssumption DEF Allots, Inv, TypeOK, BasicType

(* A program may be lost only with an old link in its list. *)
LEMMA LoseInv ==
  ASSUME Inv, Lose, stray
  PROVE  Inv'
<1>1. lost' = TRUE /\ UNCHANGED <<program, head, cell, allocated, reply, size, stray, forgotten>>
  BY DEF Lose
<1>2. At' = At
  BY <1>1 DEF At, Follow
<1>3. TypeOK'
  BY <1>1 DEF Inv, TypeOK, BasicType
<1>4. Prefix' /\ Reached' /\ NotForgotten' /\ StaysInMemory'
  BY <1>1, <1>2 DEF Inv, Prefix, Distinct, Reached, ClosedUnderLinks, NotForgotten, StaysInMemory
<1> QED BY <1>3, <1>4 DEF Inv

(* Into an empty list: the one node has the link the cell had. *)
LEMMA InsertEmptyInv ==
  ASSUME Inv, NEW i, NEW d, NEW n, Allots(i, d, n), head = NULL, InsertEmpty(n, d)
  PROVE  Inserted(i, d, n) /\ Inv'
<1>1. PICK link \in {NULL, cell[n].next} :
        cell' = [cell EXCEPT ![n] = [data |-> d, next |-> link]] /\ head' = n
        /\ stray' = (link # NULL)
  BY DEF InsertEmpty
<1>2. size = 0 /\ i = 0 /\ TypeOK
  BY AllotsFacts, PrefixFacts DEF Inv
<1>3. link \in Cells \cup {NULL}
  BY AllotsFacts DEF Inv, TypeOK, BasicType
<1>4. cell' \in [Cells -> [data : 0 .. MaxData, next : Cells \cup {NULL}]]
      /\ cell'[n] = [data |-> d, next |-> link] /\ \A m \in Cells \ {n} : cell'[m] = cell[m]
  BY <1>1, <1>3, AllotsFacts DEF Inv, TypeOK, BasicType
<1>5. BasicType'
  BY <1>1, <1>4, AllotsFacts DEF BasicType
<1>6. PICK w : w = [k \in 0 .. 1 |-> IF k = 0 THEN n ELSE link]
  OBVIOUS
<1>7. w[0] = n /\ w[1] = link /\ size' = 1 /\ 0 .. 1 - 1 = {0}
  BY <1>2, <1>6, AllotsFacts
<1>8. \A k \in 0 .. size' - 1 : w[k] \in allocated' /\ w[k + 1] = cell'[w[k]].next
  BY <1>4, <1>7, AllotsFacts
<1>9. Distinct(w, size')
  BY <1>7 DEF Distinct
<1>10. size' \in Steps /\ \A k \in 0 .. size' : At'[k] = w[k]
  BY <1>1, <1>5, <1>7, <1>8, <1>9, ChainAfter
<1>11. TypeOK'
  BY <1>5, <1>10 DEF TypeOK
<1>12. At'[0] = n /\ At'[0 + 1] = link
  BY <1>7, <1>10
<1>13. Inserted(i, d, n)
  <2>1. \A k \in 0 .. size : At'[k] = IF k < i THEN At[k] ELSE IF k = i THEN n ELSE At[k - 1]
    BY <1>2, <1>12
  <2>2. stray' \/ ((~stray \/ head = NULL) /\ At'[size + 1] = NULL)
    BY <1>1, <1>2, <1>12
  <2>3. cell'[n].data = d /\ \A m \in Cells \ {n} : cell'[m].data = cell[m].data
    BY <1>4
  <2> QED BY <1>11, <2>1, <2>2, <2>3 DEF Inserted, Allots
<1>14. allocated \ forgotten = {}
  <2>1. ClosedUnderLinks({NULL})
    BY <1>2, ListAssumption DEF ClosedUnderLinks, TypeOK, BasicType
  <2>2. allocated \ forgotten \subseteq {NULL}
    BY <2>1 DEF Inv, Reached
  <2> QED BY <2>2, ListAssumption, AllotsFacts
<1>15. Inv'
  BY <1>13, <1>14, InsertedReached
<1> QED BY <1>13, <1>15

(* Before the first node. *)
LEMMA InsertFirstInv ==
  ASSUME Inv, NEW d, NEW n, Allots(0, d, n), head # NULL, InsertFirst(n, d)
  PROVE  Inserted(0, d, n) /\ Inv'
<1>1. cell' = [cell EXCEPT ![n] = [data |-> d, next |-> head]] /\ head' = n /\ stray' = stray
  BY DEF InsertFirst
<1>2. TypeOK /\ Prefix /\ size \in Nat /\ size' = size + 1
  BY AllotsFacts DEF Inv
<1>3. head \in Cells \cup {NULL}
  BY DEF Inv, TypeOK, BasicType
<1>4. cell' \in [Cells -> [data : 0 .. MaxData, next : Cells \cup {NULL}]]
      /\ cell'[n] = [data |-> d, next |-> head] /\ \A m \in Cells \ {n} : cell'[m] = cell[m]
  BY <1>1, <1>3, AllotsFacts DEF Inv, TypeOK, BasicType
<1>5. BasicType'
  BY <1>1, <1>2, <1>4, AllotsFacts DEF BasicType, TypeOK
<1>6. PICK w : w = [k \in 0 .. size + 1 |-> IF k = 0 THEN n ELSE At[k - 1]]
  OBVIOUS
<1>7. w[0] = n /\ \A k \in 0 .. size : w[k + 1] = At[k]
  <2>1. ASSUME NEW k \in 0 .. size PROVE w[k + 1] = At[k]
    <3>1. k + 1 \in 0 .. size + 1 /\ k + 1 # 0 /\ (k + 1) - 1 = k
      BY <1>2
    <3> QED BY <1>6, <3>1
  <2> QED BY <1>2, <1>6, <2>1
<1>8. ASSUME NEW k \in 0 .. size
      PROVE  k = 0 \/ (k - 1 \in 0 .. size - 1 /\ w[k] = At[k - 1])
  <2>1. k # 0 => k - 1 \in 0 .. size - 1 /\ k - 1 \in 0 .. size /\ (k - 1) + 1 = k
    BY <1>2
  <2> QED BY <1>7, <2>1
<1>9. ASSUME NEW k \in 0 .. size PROVE w[k] \in allocated' /\ w[k + 1] = cell'[w[k]].next
  <2>1. w[k + 1] = At[k]
    BY <1>7
  <2>2. CASE k = 0
    BY <1>2, <1>4, <1>7, <2>1, <2>2, AllotsFacts, PrefixFacts
  <2>3. CASE k # 0
    <3>1. PICK j \in 0 .. size - 1 : j + 1 = k /\ w[k] = At[j]
      BY <1>2, <1>8, <2>3
    <3>2. At[j] \in allocated /\ At[j] \in Cells /\ At[j + 1] = cell[At[j]].next
      BY <1>2, PrefixFacts
    <3> QED BY <1>4, <2>1, <3>1, <3>2, AllotsFacts
  <2> QED BY <2>2, <2>3
<1>10. 0 .. size' - 1 = 0 .. size
  BY <1>2
<1>11. Distinct(w, size')
  <2>1. ASSUME NEW j \in 0 .. size, NEW k \in 0 .. size, w[j] = w[k] PROVE j = k
    <3>1. \A a \in 0 .. size - 1 : At[a] # n
      BY <1>2, AllotsFacts, PrefixFacts
    <3>2. \A a, b \in 0 .. size - 1 : At[a] = At[b] => a = b
      BY <1>2 DEF Prefix, Distinct
    <3> QED BY <1>2, <1>7, <1>8, <2>1, <3>1, <3>2
  <2> QED BY <1>10, <2>1 DEF Distinct
<1>12. size' \in Steps /\ \A k \in 0 .. size' : At'[k] = w[k]
  BY <1>1, <1>5, <1>7, <1>9, <1>10, <1>11, ChainAfter
<1>13. TypeOK'
  BY <1>5, <1>12 DEF TypeOK
<1>14. Inserted(0, d, n)
  <2>1. ASSUME NEW k \in 0 .. size
        PROVE  At'[k] = IF k < 0 THEN At[k] ELSE IF k = 0 THEN n ELSE At[k - 1]
    <3>1. k \in 0 .. size' /\ ~ (k < 0)
      BY <1>2
    <3> QED BY <1>7, <1>8, <1>12, <3>1
  <2>2. At'[size + 1] = At[size]
    <3>1. size + 1 \in 0 .. size' /\ size \in 0 .. size
      BY <1>2
    <3> QED BY <1>7, <1>12, <3>1
  <2>3. stray' \/ ((~stray \/ head = NULL) /\ At'[size + 1] = NULL)
    BY <1>1, <1>2, <2>2 DEF Prefix
  <2>4. cell'[n].data = d /\ \A m \in Cells \ {n} : cell'[m].data = cell[m].data
    BY <1>4
  <2> QED BY <1>13, <2>1, <2>3, <2>4 DEF Inserted, Allots
<1>15. ASSUME NEW S \in SUBSET (Cells \cup {NULL}), n \in S, ClosedUnderLinks(S)'
       PROVE  allocated \ forgotten \subseteq S
  <2>1. head \in S
    BY <1>4, <1>15, AllotsFacts DEF ClosedUnderLinks
  <2>2. ASSUME NEW m \in S \cap allocated PROVE cell[m].next \in S
    BY <1>4, <1>15, AllotsFacts DEF ClosedUnderLinks
  <2>3. ClosedUnderLinks(S)
    BY <2>1, <2>2 DEF ClosedUnderLinks
  <2> QED BY <2>3 DEF Inv, Reached
<1>16. Inv'
  BY <1>14, <1>15, InsertedReached
<1> QED BY <1>14, <1>16

(* After the node at i - 1. *)
LEMMA InsertAfterInv ==
  ASSUME Inv, NEW i, NEW d, NEW n, Allots(i, d, n), i # 0, InsertAfter(At[i - 1], n, d)
  PROVE  Inserted(i, d, n) /\ Inv'
<1>1. PICK m : m = At[i - 1]
  OBVIOUS
<1>2. TypeOK /\ Prefix /\ size \in Nat /\ size' = size + 1 /\ i \in 1 .. size
      /\ i - 1 \in 0 .. size - 1 /\ (i - 1) + 1 = i
  BY AllotsFacts DEF Inv
<1>3. m \in allocated /\ m \in Cells /\ m # n /\ At[i] = cell[m].next
      /\ At[i] \in Cells \cup {NULL}
  <2>1. m \in allocated /\ m \in Cells /\ At[(i - 1) + 1] = cell[m].next
    BY <1>1, <1>2, PrefixFacts
  <2> QED BY <1>2, <2>1, AllotsFacts, PrefixFacts
<1>4. cell' = [cell EXCEPT ![n] = [data |-> d, next |-> cell[m].next], ![m].next = n]
      /\ head' = head /\ stray' = stray
  BY <1>1 DEF InsertAfter
<1>5. cell \in [Cells -> [data : 0 .. MaxData, next : Cells \cup {NULL}]]
  BY <1>2 DEF TypeOK, BasicType
<1>6. /\ cell'[n] = [data |-> d, next |-> At[i]]
      /\ cell'[m].data = cell[m].data /\ cell'[m].next = n
      /\ \A x \in Cells \ {n, m} : cell'[x] = cell[x]
      /\ cell' \in [Cells -> [data : 0 .. MaxData, next : Cells \cup {NULL}]]
  <2>1. n \in Cells /\ d \in 0 .. MaxData
    BY AllotsFacts
  <2>2. cell[m] \in [data : 0 .. MaxData, next : Cells \cup {NULL}]
    BY <1>3, <1>5
  <2>3. PICK a : a = [data |-> d, next |-> At[i]]
    OBVIOUS
  <2>4. PICK b : b = [cell[m] EXCEPT !.next = n]
    OBVIOUS
  <2>5. b.data = cell[m].data /\ b.next = n /\ b \in [data : 0 .. MaxData, next : Cells \cup {NULL}]
        /\ a \in [data : 0 .. MaxData, next : Cells \cup {NULL}]
    BY <1>3, <2>1, <2>2, <2>3, <2>4
  <2>6. PICK c : c = [cell EXCEPT ![n] = a]
    OBVIOUS
  <2>7. c[m] = cell[m] /\ c[n] = a /\ (\A x \in Cells \ {n} : c[x] = cell[x])
        /\ DOMAIN c = Cells /\ c = [x \in Cells |-> c[x]]
    BY <1>3, <1>5, <2>1, <2>6
  <2>8. cell' = [c EXCEPT ![m].next = n]
    BY <1>3, <1>4, <2>3, <2>6
  <2>9. cell' = [c EXCEPT ![m] = b]
    BY <2>4, <2>7, <2>8
  <2> QED BY <1>3, <1>5, <2>1, <2>3, <2>5, <2>7, <2>9
<1>7. BasicType'
  BY <1>2, <1>4, <1>6, AllotsFacts DEF BasicType, TypeOK
<1>8. PICK w : w = [k \in 0 .. size + 1 |-> IF k < i THEN At[k] ELSE IF k = i THEN n ELSE At[k - 1]]
  OBVIOUS
<1>9. \A k \in 0 .. size + 1 : w[k] = IF k < i THEN At[k] ELSE IF k = i THEN n ELSE At[k - 1]
  BY <1>8
<1>10. w[0] = head'
  BY <1>2, <1>4, <1>9, PrefixFacts
<1>11. \A a \in 0 .. size - 1 : At[a] \in allocated /\ At[a] # n /\ At[a] \in Cells
                            /\ At[a + 1] = cell[At[a]].next
  BY <1>2, AllotsFacts, PrefixFacts
<1>12. \A a, b \in 0 .. size - 1 : At[a] = At[b] => a = b
  BY <1>2 DEF Prefix, Distinct
<1>13. ASSUME NEW k \in 0 .. size
       PROVE  \/ k < i /\ k \in 0 .. size - 1 /\ w[k] = At[k]
              \/ k = i /\ w[k] = n
              \/ k > i /\ k - 1 \in 0 .. size - 1 /\ w[k] = At[k - 1]
  <2>1. k \in 0 .. size + 1
    BY <1>2
  <2> QED BY <1>2, <1>9, <2>1
<1>14. ASSUME NEW k \in 0 .. size PROVE w[k] \in allocated' /\ w[k + 1] = cell'[w[k]].next
  <2>1. w[k] \in allocated'
    BY <1>11, <1>13, AllotsFacts
  <2>2. k + 1 \in 0 .. size + 1 /\ k \in Int /\ i \in Int
    BY <1>2
  <2>3. CASE k < i - 1
    <3>1. w[k] = At[k] /\ w[k + 1] = At[k + 1] /\ k \in 0 .. size - 1
      BY <1>2, <1>9, <1>13, <2>2, <2>3
    <3>2. At[k] # m
      BY <1>1, <1>2, <1>12, <2>3, <3>1
    <3> QED BY <1>6, <1>11, <2>1, <3>1, <3>2
  <2>4. CASE k = i - 1
    <3>1. w[k] = m /\ w[k + 1] = n
      BY <1>1, <1>2, <1>9, <1>13, <2>2, <2>4
    <3> QED BY <1>6, <2>1, <3>1
  <2>5. CASE k = i
    <3>1. w[k] = n /\ w[k + 1] = At[i]
      <4>1. (k + 1) - 1 = i /\ ~ (k + 1 < i) /\ k + 1 # i
        BY <2>2, <2>5
      <4> QED BY <1>9, <1>13, <2>2, <2>5, <4>1
    <3> QED BY <1>6, <2>1, <3>1
  <2>6. CASE k > i
    <3>1. PICK j \in 0 .. size - 1 : j + 1 = k /\ w[k] = At[j]
      <4>1. k - 1 \in 0 .. size - 1 /\ (k - 1) + 1 = k /\ w[k] = At[k - 1]
        BY <1>2, <1>13, <2>2, <2>6
      <4> QED BY <4>1
    <3>2. w[k + 1] = At[k]
      <4>1. (k + 1) - 1 = k /\ ~ (k + 1 < i) /\ k + 1 # i
        BY <2>2, <2>6
      <4> QED BY <1>9, <2>2, <4>1
    <3>3. At[j] # m
      <4>1. j # i - 1
        BY <2>2, <2>6, <3>1
      <4> QED BY <1>1, <1>2, <1>12, <3>1, <4>1
    <3> QED BY <1>6, <1>11, <2>1, <3>1, <3>2, <3>3
  <2>7. k < i - 1 \/ k = i - 1 \/ k = i \/ k > i
    BY <2>2
  <2> QED BY <2>3, <2>4, <2>5, <2>6, <2>7
<1>15. 0 .. size' - 1 = 0 .. size
  BY <1>2
<1>16. Distinct(w, size')
  <2>1. ASSUME NEW j \in 0 .. size, NEW k \in 0 .. size, w[j] = w[k] PROVE j = k
    BY <1>2, <1>11, <1>12, <1>13, <2>1
  <2> QED BY <1>15, <2>1 DEF Distinct
<1>17. size' \in Steps /\ \A k \in 0 .. size' : At'[k] = w[k]
  BY <1>7, <1>10, <1>14, <1>15, <1>16, ChainAfter
<1>18. TypeOK'
  BY <1>7, <1>17 DEF TypeOK
<1>19. Inserted(i, d, n)
  <2>1. ASSUME NEW k \in 0 .. size
        PROVE  At'[k] = IF k < i THEN At[k] ELSE IF k = i THEN n ELSE At[k - 1]
    <3>1. k \in 0 .. size' /\ k \in 0 .. size + 1
      BY <1>2
    <3> QED BY <1>9, <1>17, <3>1
  <2>2. At'[size + 1] = At[size]
    <3>1. size + 1 \in 0 .. size' /\ size + 1 \in 0 .. size + 1 /\ (size + 1) - 1 = size
          /\ ~ (size + 1 < i) /\ size + 1 # i
      BY <1>2
    <3> QED BY <1>9, <1>17, <3>1
  <2>3. stray' \/ ((~stray \/ head = NULL) /\ At'[size + 1] = NULL)
    BY <1>2, <1>4, <2>2 DEF Prefix
  <2>4. cell'[n].data = d /\ \A x \in Cells \ {n} : cell'[x].data = cell[x].data
    BY <1>6
  <2> QED BY <1>18, <2>1, <2>3, <2>4 DEF Inserted, Allots
<1>20. ASSUME NEW S \in SUBSET (Cells \cup {NULL}), n \in S, ClosedUnderLinks(S)'
       PROVE  allocated \ forgotten \subseteq S
  <2>1. head \in S
    BY <1>4, <1>20 DEF ClosedUnderLinks
  <2>2. n \in allocated' /\ allocated \subseteq allocated' /\ n \notin allocated /\ allocated \subseteq Cells
    BY AllotsFacts
  <2>3. ASSUME NEW x \in S \cap allocated PROVE cell[x].next \in S
    <3>1. CASE x = m
      BY <1>3, <1>6, <1>20, <2>2, <3>1 DEF ClosedUnderLinks
    <3>2. CASE x # m
      BY <1>6, <1>20, <2>2, <2>3, <3>2 DEF ClosedUnderLinks
    <3> QED BY <3>1, <3>2
  <2>4. ClosedUnderLinks(S)
    BY <2>1, <2>3 DEF ClosedUnderLinks
  <2> QED BY <2>4 DEF Inv, Reached
<1>21. Inv'
  BY <1>19, <1>20, InsertedReached
<1> QED BY <1>19, <1>21

(* insert_node_at, which loses its way in a list with an old link alone. *)
LEMMA InsertStep ==
  ASSUME Inv, InsertNodeAt
  PROVE  Inv' /\ (stray' \/ \E i, d, n : Inserted(i, d, n))
<1>1. PICK i \in 0 .. size, d \in Elements :
        IF head # NULL /\ LOST \in {At[1], At[i]}
        THEN Lose
        ELSE /\ \E n \in Cells \ allocated :
                  /\ CASE head = NULL -> InsertEmpty(n, d)
                       [] head # NULL /\ i = 0 -> InsertFirst(n, d)
                       [] OTHER -> InsertAfter(At[i - 1], n, d)
                  /\ allocated' = allocated \cup {n}
             /\ size' = size + 1 /\ reply' = <<"insert">>
             /\ UNCHANGED <<program, lost, forgotten>>
  BY DEF InsertNodeAt
<1>2. CASE head # NULL /\ LOST \in {At[1], At[i]}
  <2>1. Lose /\ lost' = TRUE
        /\ UNCHANGED <<program, head, cell, allocated, reply, size, stray, forgotten>>
    BY <1>1, <1>2 DEF Lose
  <2>2. At[i] # LOST
    BY PrefixFacts DEF Inv
  <2>3. At[1] = LOST
    BY <1>2, <2>2
  <2>4. stray
    <3> SUFFICES ASSUME ~stray PROVE FALSE
      OBVIOUS
    <3>1. ~ (1 \in 0 .. size)
      BY <2>3, PrefixFacts DEF Inv
    <3>2. size = 0
      BY <3>1, PrefixFacts DEF Inv
    <3> QED BY <1>2, <3>2, PrefixFacts DEF Inv, Prefix
  <2> QED BY <2>1, <2>4, LoseInv
<1>3. CASE ~ (head # NULL /\ LOST \in {At[1], At[i]})
  <2>1. PICK n \in Cells \ allocated :
             /\ CASE head = NULL -> InsertEmpty(n, d)
                  [] head # NULL /\ i = 0 -> InsertFirst(n, d)
                  [] OTHER -> InsertAfter(At[i - 1], n, d)
             /\ allocated' = allocated \cup {n}
    BY <1>1, <1>3
  <2>2. Allots(i, d, n)
    BY <1>1, <1>3, <2>1 DEF Allots, InsertNodeAt
  <2>3. CASE head = NULL
    BY <2>1, <2>2, <2>3, InsertEmptyInv
  <2>4. CASE head # NULL /\ i = 0
    BY <2>1, <2>2, <2>4, InsertFirstInv
  <2>5. CASE head # NULL /\ i # 0
    BY <2>1, <2>2, <2>5, InsertAfterInv
  <2> QED BY <2>3, <2>4, <2>5
<1> QED BY <1>2, <1>3

-----------------------------------------------------------------------------
(* What the deletion of the node at place i does to the walk and the memory. *)
Removed(i) ==
  /\ ~lost /\ i \in 0 .. size - 1
  /\ size' = size - 1 /\ reply' = <<"delete">>
  /\ UNCHANGED <<program, lost, stray>>
  /\ \A m \in Cells : cell'[m].data = cell[m].data
  /\ allocated' \subseteq allocated /\ allocated \ {At[i]} \subseteq allocated'
  /\ forgotten' \subseteq allocated' /\ forgotten \cap allocated' \subseteq forgotten'
  /\ forgotten' \subseteq forgotten \cup {At[i]}
  /\ At[i] \in allocated' => At[i] \in forgotten'

Unlinks(i) ==
  IF i = 0
  THEN head' = At[1] /\ UNCHANGED cell
  ELSE cell' = [cell EXCEPT ![At[i - 1]].next = At[i + 1]] /\ UNCHANGED head

(* delete_node_at never meets LOST: the list has the node at i. *)
LEMMA DeleteRemoves ==
  ASSUME Inv, DeleteNodeAt
  PROVE  \E i : Removed(i) /\ Unlinks(i)
<1>1. PICK i \in 0 .. size - 1 :
        IF At[i + 1] = LOST
        THEN Lose
        ELSE /\ IF i = 0
                THEN head' = At[1] /\ UNCHANGED cell
                ELSE cell' = [cell EXCEPT ![At[i - 1]].next = At[i + 1]] /\ UNCHANGED head
             /\ allocated' = allocated \ Freed(At[i], i)
             /\ forgotten' = allocated' \cap
                  (IF i > 0 /\ program = "ex2" THEN forgotten ELSE forgotten \cup {At[i]})
             /\ size' = size - 1 /\ reply' = <<"delete">>
             /\ UNCHANGED <<program, lost, stray>>
  BY DEF DeleteNodeAt
<1>2. size \in Nat /\ i + 1 \in 0 .. size
  BY PrefixFacts DEF Inv
<1>3. At[i + 1] # LOST
  BY <1>2, PrefixFacts DEF Inv
<1>4. /\ Unlinks(i)
      /\ allocated' = allocated \ Freed(At[i], i)
      /\ forgotten' = allocated' \cap
           (IF i > 0 /\ program = "ex2" THEN forgotten ELSE forgotten \cup {At[i]})
      /\ size' = size - 1 /\ reply' = <<"delete">> /\ ~lost
      /\ UNCHANGED <<program, lost, stray>>
  BY <1>1, <1>3 DEF DeleteNodeAt, Unlinks
<1>5. PICK x : x = At[i]
  OBVIOUS
<1>6. /\ allocated' \subseteq allocated /\ allocated \ {x} \subseteq allocated'
      /\ forgotten' \subseteq allocated' /\ forgotten \cap allocated' \subseteq forgotten'
      /\ forgotten' \subseteq forgotten \cup {x}
      /\ x \in allocated' => x \in forgotten'
  <2>1. CASE i > 0 /\ program = "ex2"
    BY <1>4, <1>5, <2>1 DEF Freed
  <2>2. CASE ~ (i > 0 /\ program = "ex2")
    BY <1>4, <1>5, <2>2 DEF Freed
  <2> QED BY <2>1, <2>2
<1>7. \A m \in Cells : cell'[m].data = cell[m].data
  <2>1. CASE i = 0
    BY <1>4, <2>1 DEF Unlinks
  <2>2. CASE i # 0
    <3>1. i - 1 \in 0 .. size - 1
      BY <1>2, <2>2
    <3>2. At[i - 1] \in Cells
      BY <3>1, PrefixFacts DEF Inv
    <3> QED BY <1>4, <2>2, <3>2 DEF Unlinks, Inv, TypeOK, BasicType
  <2> QED BY <2>1, <2>2
<1>8. Removed(i)
  BY <1>4, <1>5, <1>6, <1>7 DEF Removed
<1> QED BY <1>4, <1>8

(* The nodes before i stay, the ones after it move up by one. *)
LEMMA RemovedInv ==
  ASSUME Inv, NEW i, Removed(i), Unlinks(i)
  PROVE  Inv' /\ \A k \in 0 .. size' : At'[k] = IF k < i THEN At[k] ELSE At[k + 1]
<1>1. PICK x : x = At[i]
  OBVIOUS
<1>2. /\ TypeOK /\ Prefix /\ ~lost /\ size \in Nat /\ i \in 0 .. size - 1 /\ size' = size - 1
      /\ size' \in Nat /\ size >= 1 /\ stray' = stray /\ lost' = lost /\ program' = program
      /\ 0 .. size' - 1 = 0 .. size - 2
  BY PrefixFacts DEF Inv, Removed
<1>3. \A a \in 0 .. size - 1 : At[a] \in allocated /\ At[a] \in Cells /\ At[a + 1] = cell[At[a]].next
  BY <1>2, PrefixFacts
<1>4. \A a, b \in 0 .. size - 1 : At[a] = At[b] => a = b
  BY <1>2 DEF Prefix, Distinct
<1>5. \A a \in 0 .. size : At[a] \in Cells \cup {NULL}
  BY <1>2, PrefixFacts
<1>6. x \in allocated /\ x \in Cells /\ At[i + 1] = cell[x].next /\ At[i + 1] \in Cells \cup {NULL}
  <2>1. i + 1 \in 0 .. size
    BY <1>2
  <2> QED BY <1>1, <1>2, <1>3, <1>5, <2>1
<1>7. /\ allocated' \subseteq allocated /\ allocated \ {x} \subseteq allocated'
      /\ forgotten' \subseteq allocated' /\ forgotten \cap allocated' \subseteq forgotten'
      /\ forgotten' \subseteq forgotten \cup {x}
      /\ x \in allocated' => x \in forgotten'
  BY <1>1 DEF Removed
<1>8. cell \in [Cells -> [data : 0 .. MaxData, next : Cells \cup {NULL}]]
  BY <1>2 DEF TypeOK, BasicType
<1>9. /\ cell' \in [Cells -> [data : 0 .. MaxData, next : Cells \cup {NULL}]]
      /\ i # 0 => /\ cell'[At[i - 1]].next = At[i + 1] /\ head' = head
                  /\ \A n \in Cells : n # At[i - 1] => cell'[n].next = cell[n].next
      /\ i = 0 => cell' = cell /\ head' = At[1]
  <2>1. CASE i = 0
    BY <1>8, <2>1 DEF Unlinks
  <2>2. CASE i # 0
    <3>1. PICK m : m = At[i - 1]
      OBVIOUS
    <3>2. m \in Cells
      <4>1. i - 1 \in 0 .. size - 1
        BY <1>2, <2>2
      <4> QED BY <1>3, <3>1, <4>1
    <3>3. cell' = [cell EXCEPT ![m].next = At[i + 1]] /\ head' = head
      BY <2>2, <3>1 DEF Unlinks
    <3>4. cell' \in [Cells -> [data : 0 .. MaxData, next : Cells \cup {NULL}]]
      BY <1>6, <1>8, <3>2, <3>3
    <3>5. cell'[m].next = At[i + 1] /\ \A n \in Cells : n # m => cell'[n].next = cell[n].next
      BY <1>8, <3>2, <3>3
    <3> QED BY <2>2, <3>1, <3>3, <3>4, <3>5
  <2> QED BY <2>1, <2>2
<1>10. BasicType'
  <2>1. head' \in Cells \cup {NULL}
    <3>1. 0 \in 0 .. size /\ 1 \in 0 .. size /\ At[0] = head
      BY <1>2, PrefixFacts
    <3> QED BY <1>5, <1>9, <3>1
  <2> QED BY <1>2, <1>7, <1>9, <2>1 DEF TypeOK, BasicType
<1>11. PICK w : w = [k \in 0 .. size - 1 |-> IF k < i THEN At[k] ELSE At[k + 1]]
  OBVIOUS
<1>12. \A k \in 0 .. size - 1 : w[k] = IF k < i THEN At[k] ELSE At[k + 1]
  BY <1>11
<1>13. w[0] = head'
  <2>1. 0 \in 0 .. size - 1 /\ At[0] = head
    BY <1>2, PrefixFacts
  <2> QED BY <1>2, <1>9, <1>12, <2>1
<1>14. ASSUME NEW k \in 0 .. size - 2
       PROVE  /\ k \in 0 .. size - 1 /\ k + 1 \in 0 .. size - 1
              /\ \E a \in 0 .. size - 1 : /\ w[k] = At[a] /\ a # i /\ k \in Int /\ i \in Int
                                       /\ ((k < i /\ a = k) \/ (k >= i /\ a = k + 1))
  <2>1. k \in 0 .. size - 1 /\ k + 1 \in 0 .. size - 1 /\ k \in Int /\ i \in Int
    BY <1>2
  <2>2. CASE k < i
    <3>1. w[k] = At[k] /\ k # i
      BY <1>12, <2>1, <2>2
    <3> QED BY <2>1, <2>2, <3>1
  <2>3. CASE ~ (k < i)
    <3>1. w[k] = At[k + 1] /\ k + 1 # i /\ k >= i
      BY <1>12, <2>1, <2>3
    <3> QED BY <2>1, <3>1
  <2> QED BY <2>2, <2>3
<1>15. ASSUME NEW k \in 0 .. size - 2 PROVE w[k] \in allocated' /\ w[k + 1] = cell'[w[k]].next
  <2>1. PICK a \in 0 .. size - 1 : /\ w[k] = At[a] /\ a # i /\ k \in Int /\ i \in Int
                                /\ ((k < i /\ a = k) \/ (k >= i /\ a = k + 1))
    BY <1>14
  <2>2. w[k] \in allocated' /\ At[a] # x
    <3>1. At[a] # x
      BY <1>1, <1>2, <1>4, <2>1
    <3> QED BY <1>3, <1>7, <2>1, <3>1
  <2>3. k + 1 \in 0 .. size - 1 /\ w[k + 1] = IF k + 1 < i THEN At[k + 1] ELSE At[k + 1 + 1]
    BY <1>12, <1>14
  <2>4. CASE k + 1 < i
    <3>1. a = k /\ i # 0 /\ a # i - 1 /\ i - 1 \in 0 .. size - 1 /\ w[k + 1] = At[a + 1]
      BY <1>2, <2>1, <2>3, <2>4
    <3>2. At[a] # At[i - 1]
      BY <1>4, <3>1
    <3> QED BY <1>3, <1>9, <2>1, <2>2, <3>1, <3>2
  <2>5. CASE k + 1 = i
    <3>1. a = i - 1 /\ i # 0 /\ w[k + 1] = At[i + 1]
      BY <1>2, <2>1, <2>3, <2>5
    <3> QED BY <1>9, <2>1, <2>2, <3>1
  <2>6. CASE k >= i
    <3>1. a = k + 1 /\ w[k + 1] = At[a + 1] /\ (i # 0 => i - 1 \in 0 .. size - 1 /\ a # i - 1)
      BY <1>2, <2>1, <2>3, <2>6
    <3>2. i # 0 => At[a] # At[i - 1]
      BY <1>4, <3>1
    <3> QED BY <1>3, <1>9, <2>1, <2>2, <3>1, <3>2
  <2> QED BY <2>1, <2>4, <2>5, <2>6
<1>16. Distinct(w, size')
  <2>1. ASSUME NEW j \in 0 .. size - 2, NEW k \in 0 .. size - 2, w[j] = w[k] PROVE j = k
    <3>1. PICK a \in 0 .. size - 1 : /\ w[k] = At[a] /\ a # i /\ k \in Int /\ i \in Int
                                  /\ ((k < i /\ a = k) \/ (k >= i /\ a = k + 1))
      BY <1>14
    <3>2. PICK b \in 0 .. size - 1 : /\ w[j] = At[b] /\ b # i /\ j \in Int /\ i \in Int
                                  /\ ((j < i /\ b = j) \/ (j >= i /\ b = j + 1))
      BY <1>14
    <3>3. a = b
      BY <1>4, <2>1, <3>1, <3>2
    <3> QED BY <3>1, <3>2, <3>3
  <2> QED BY <1>2, <2>1 DEF Distinct
<1>17. size' \in Steps /\ \A k \in 0 .. size' : At'[k] = w[k]
  BY <1>2, <1>10, <1>13, <1>15, <1>16, ChainAfter
<1>18. TypeOK'
  BY <1>10, <1>17 DEF TypeOK
<1>19. \A k \in 0 .. size' : At'[k] = IF k < i THEN At[k] ELSE At[k + 1]
  <2>1. 0 .. size' = 0 .. size - 1
    BY <1>2
  <2> QED BY <1>12, <1>17, <2>1
<1>20. Prefix'
  <2>1. ASSUME NEW k \in 0 .. size' - 1 PROVE At'[k] = w[k]
    <3>1. k \in 0 .. size'
      BY <1>2
    <3> QED BY <1>17, <3>1
  <2>2. \A k \in 0 .. size' - 1 : At'[k] \in allocated'
    BY <1>2, <1>15, <2>1
  <2>3. Distinct(At, size)'
    BY <1>16, <2>1 DEF Distinct
  <2>4. At'[size'] = At[size]
    <3>1. size' \in 0 .. size' /\ ~ (size' < i) /\ size' + 1 = size
      BY <1>2
    <3> QED BY <1>19, <3>1
  <2> QED BY <1>2, <2>2, <2>3, <2>4 DEF Prefix
<1>21. NotForgotten'
  <2> SUFFICES ASSUME ~stray, NEW k \in 0 .. size' - 1 PROVE At'[k] \notin forgotten'
    BY <1>2 DEF NotForgotten
  <2>1. k \in 0 .. size - 2 /\ k \in 0 .. size'
    BY <1>2
  <2>2. PICK a \in 0 .. size - 1 : w[k] = At[a] /\ a # i
    BY <1>14, <2>1
  <2>3. At[a] # x /\ At[a] \notin forgotten
    BY <1>1, <1>2, <1>4, <2>2 DEF Inv, NotForgotten
  <2> QED BY <1>7, <1>17, <2>1, <2>2, <2>3
<1>22. Reached'
  <2> SUFFICES ASSUME NEW S \in SUBSET (Cells \cup {NULL}), ClosedUnderLinks(S)'
               PROVE  allocated' \ forgotten' \subseteq S
    BY DEF Reached
  <2>1. PICK T : T = S \cup {x}
    OBVIOUS
  <2>2. T \in SUBSET (Cells \cup {NULL})
    BY <1>6, <2>1
  <2>3. head' \in S /\ \A n \in S \cap allocated' : cell'[n].next \in S
    BY DEF ClosedUnderLinks
  <2>4. head \in T /\ At[i + 1] \in S
    <3>1. CASE i = 0
      BY <1>1, <1>2, <1>9, <2>1, <2>3, <3>1, PrefixFacts
    <3>2. CASE i # 0
      <4>1. (TypeOK /\ Prefix => PrefixReached)'
        BY PrefixIsReached, PTL
      <4>2. \A k \in 0 .. size' : At'[k] \in S
        BY <1>18, <1>20, <4>1 DEF PrefixReached
      <4>3. i - 1 \in 0 .. size' /\ i - 1 \in 0 .. size - 1 /\ i - 1 \in 0 .. size - 2
            /\ i - 1 < i
        BY <1>2, <3>2
      <4>4. At'[i - 1] = At[i - 1]
        BY <1>19, <4>3
      <4>5. At[i - 1] \in S /\ At[i - 1] \in allocated'
        BY <1>12, <1>15, <4>2, <4>3, <4>4
      <4> QED BY <1>9, <2>1, <2>3, <3>2, <4>5
    <3> QED BY <3>1, <3>2
  <2>5. ASSUME NEW n \in T \cap allocated PROVE cell[n].next \in T
    <3>1. CASE n = x
      BY <1>6, <2>1, <2>4, <3>1
    <3>2. CASE n # x
      <4>1. n \in S /\ n \in allocated' /\ cell'[n].next \in S /\ n \in Cells
        BY <1>2, <1>7, <2>1, <2>3, <2>5, <3>2 DEF TypeOK, BasicType
      <4>2. CASE i # 0 /\ n = At[i - 1]
        <5>1. i - 1 \in 0 .. size - 1 /\ (i - 1) + 1 = i
          BY <1>2, <4>2
        <5>2. cell[n].next = x
          BY <1>1, <1>3, <4>2, <5>1
        <5> QED BY <2>1, <5>2
      <4>3. CASE ~ (i # 0 /\ n = At[i - 1])
        BY <1>9, <2>1, <4>1, <4>3
      <4> QED BY <4>2, <4>3
    <3> QED BY <3>1, <3>2
  <2>6. allocated \ forgotten \subseteq T
    BY <2>2, <2>4, <2>5 DEF Inv, Reached, ClosedUnderLinks
  <2> QED BY <1>7, <2>1, <2>6
<1>23. StaysInMemory'
  BY <1>2 DEF StaysInMemory
<1> QED BY <1>18, <1>19, <1>20, <1>21, <1>22, <1>23 DEF Inv

-----------------------------------------------------------------------------
(* The instructions that change nothing but what was printed. *)
Answered == ~lost /\ UNCHANGED <<program, head, cell, allocated, lost, size, stray, forgotten>>

(* They keep the invariant and the walk. *)
LEMMA AnsweredInv ==
  ASSUME Inv, Answered
  PROVE  Inv' /\ At' = At
<1>1. UNCHANGED <<program, head, cell, allocated, lost, size, stray, forgotten>>
  BY DEF Answered
<1>2. At' = At
  BY <1>1 DEF At, Follow
<1>3. TypeOK'
  BY <1>1 DEF Inv, TypeOK, BasicType
<1>4. Prefix' /\ Reached' /\ NotForgotten' /\ StaysInMemory'
  BY <1>1, <1>2 DEF Inv, Prefix, Distinct, Reached, ClosedUnderLinks, NotForgotten, StaysInMemory
<1> QED BY <1>2, <1>3, <1>4 DEF Inv

(* What a list that ends after size nodes holds. *)
LEMMA TidyEnds ==
  ASSUME TypeOK, Prefix, At[size] = NULL
  PROVE  /\ Ends /\ Nodes = [k \in 1 .. size |-> At[k - 1]]
         /\ Items = [k \in 1 .. size |-> cell[At[k - 1]].data]
         /\ ToSet(Nodes) = {At[k] : k \in 0 .. size - 1}
<1>1. size \in Steps /\ size \in Nat /\ At[size] = NULL
  BY PrefixFacts DEF Prefix
<1>2. Ends /\ Nodes = [k \in 1 .. size |-> At[k - 1]]
  BY <1>1, EndFacts
<1>3. Items = [k \in 1 .. size |-> cell[At[k - 1]].data]
  BY <1>2 DEF Items, Contents
<1>4. \A k \in 0 .. size - 1 : k + 1 \in 1 .. size /\ (k + 1) - 1 = k
  BY <1>1
<1>5. \A k \in 1 .. size : k - 1 \in 0 .. size - 1
  BY <1>1
<1>6. ToSet(Nodes) = {At[k] : k \in 0 .. size - 1}
  <2>1. \A x \in ToSet(Nodes) : \E k \in 0 .. size - 1 : x = At[k]
    BY <1>2, <1>5 DEF ToSet
  <2>2. \A k \in 0 .. size - 1 : At[k] \in ToSet(Nodes)
    BY <1>2, <1>4 DEF ToSet
  <2> QED BY <2>1, <2>2
<1> QED BY <1>2, <1>3, <1>6

(* What a walk to the end of the list finds. *)
LEMMA WalkFacts ==
  ASSUME Inv, Ends
  PROVE  \E m \in Nat :
           /\ At[m] = NULL /\ m <= Bound /\ size <= m
           /\ ~stray => m = size
           /\ \A k \in 0 .. m - 1 : At[k] \in allocated /\ At[k] \in Cells
                                 /\ At[k + 1] = cell[At[k]].next
           /\ Distinct(At, m)
           /\ Nodes = [k \in 1 .. m |-> At[k - 1]]
           /\ ToSet(Nodes) = {At[k] : k \in 0 .. m - 1}
           /\ ToSet(Nodes) \subseteq allocated
           /\ allocated \ forgotten \subseteq ToSet(Nodes)
<1>1. PICK m \in Steps : At[m] = NULL
  BY DEF Ends
<1>2. TypeOK /\ Prefix /\ Bound \in Nat /\ Steps = 0 .. Bound /\ size \in Nat /\ size <= Bound
  BY PrefixFacts DEF Inv
<1>3. m \in Nat /\ m <= Bound /\ 0 .. m - 1 \subseteq Steps
  BY <1>1, <1>2
<1>4. /\ \A k \in Steps : At[k] = NULL => k = m
      /\ \A k \in 0 .. m - 1 : At[k] \in allocated /\ At[k] \in Cells
                             /\ At[k + 1] = cell[At[k]].next
      /\ Distinct(At, m) /\ Nodes = [k \in 1 .. m |-> At[k - 1]]
  BY <1>1, <1>2, EndFacts
<1>5. size <= m
  <2> SUFFICES ASSUME m < size PROVE FALSE
    BY <1>2, <1>3
  <2>1. m \in 0 .. size - 1
    BY <1>2, <1>3
  <2>2. At[m] \in Cells
    BY <1>2, <2>1, PrefixFacts
  <2> QED BY <1>1, <2>2, ListAssumption
<1>6. ~stray => m = size
  BY <1>2, <1>4 DEF Prefix
<1>7. ToSet(Nodes) = {At[k] : k \in 0 .. m - 1}
  <2>1. \A k \in 0 .. m - 1 : k + 1 \in 1 .. m /\ (k + 1) - 1 = k
    BY <1>3
  <2>2. \A k \in 1 .. m : k - 1 \in 0 .. m - 1
    BY <1>3
  <2>3. \A x \in ToSet(Nodes) : \E k \in 0 .. m - 1 : x = At[k]
    BY <1>4, <2>2 DEF ToSet
  <2>4. \A k \in 0 .. m - 1 : At[k] \in ToSet(Nodes)
    BY <1>4, <2>1 DEF ToSet
  <2> QED BY <2>3, <2>4
<1>8. PICK T : T = ToSet(Nodes) \cup {NULL}
  OBVIOUS
<1>9. ToSet(Nodes) \subseteq allocated /\ allocated \subseteq Cells
  BY <1>2, <1>4, <1>7 DEF TypeOK, BasicType
<1>10. ClosedUnderLinks(T)
  <2>1. \A k \in 0 .. m : At[k] \in T
    <3>1. \A k \in 0 .. m : k \in 0 .. m - 1 \/ k = m
      BY <1>3
    <3> QED BY <1>1, <1>7, <1>8, <3>1
  <2>2. head \in T
    <3>1. 0 \in 0 .. m /\ At[0] = head
      BY <1>2, <1>3, PrefixFacts
    <3> QED BY <2>1, <3>1
  <2>3. ASSUME NEW n \in T \cap allocated PROVE cell[n].next \in T
    <3>1. n \in ToSet(Nodes)
      BY <1>8, <1>9, <2>3, ListAssumption
    <3>2. PICK k \in 0 .. m - 1 : n = At[k]
      BY <1>7, <3>1
    <3>3. k + 1 \in 0 .. m
      BY <1>3
    <3> QED BY <1>4, <2>1, <3>2, <3>3
  <2> QED BY <2>2, <2>3 DEF ClosedUnderLinks
<1>11. allocated \ forgotten \subseteq ToSet(Nodes)
  <2>1. T \in SUBSET (Cells \cup {NULL})
    BY <1>8, <1>9
  <2>2. allocated \ forgotten \subseteq T
    BY <1>10, <2>1 DEF Inv, Reached
  <2> QED BY <1>8, <1>9, <2>2, ListAssumption
<1> QED BY <1>1, <1>3, <1>4, <1>5, <1>6, <1>7, <1>9, <1>11

(* A walk without an end needs an old link. *)
LEMMA WalkLoses ==
  ASSUME Inv, ~Ends, Lose
  PROVE  Inv' /\ stray'
<1>1. stray
  BY TidyEnds DEF Inv, Prefix
<1> QED BY <1>1, LoseInv DEF Lose

(* print_list, list_len and sum_list *)
LEMMA OutputStep ==
  ASSUME Inv, NEW instr, NEW numbers, Output(instr, numbers)
  PROVE  Inv' /\ (stray' \/ (At' = At /\ Answered /\ reply' = <<instr>> \o numbers))
<1>1. CASE Ends
  <2>1. Answered /\ reply' = <<instr>> \o numbers
    BY <1>1 DEF Output, Walk, Answered
  <2> QED BY <2>1, AnsweredInv
<1>2. CASE ~Ends
  <2>1. Lose
    BY <1>2 DEF Output, Walk
  <2> QED BY <1>2, <2>1, WalkLoses
<1> QED BY <1>1, <1>2

(* reset_list *)
LEMMA ResetStep ==
  ASSUME Inv, ResetList
  PROVE  Inv' /\ (stray' \/ (size' = 0 /\ reply' = <<"reset">> /\ stray' = stray))
<1>1. CASE ~Ends
  <2>1. Lose
    BY <1>1 DEF ResetList, Walk
  <2> QED BY <1>1, <2>1, WalkLoses
<1>2. CASE Ends
  <2>1. /\ allocated' = allocated \ ToSet(Nodes) /\ forgotten' = forgotten \ ToSet(Nodes)
        /\ head' = NULL /\ size' = 0 /\ reply' = <<"reset">>
        /\ UNCHANGED <<cell, program, lost, stray>> /\ ~lost
    BY <1>2 DEF ResetList, Walk, HeadAfterReset
  <2>2. BasicType'
    BY <2>1 DEF Inv, TypeOK, BasicType
  <2>3. PICK w : w = [k \in {0} |-> NULL]
    OBVIOUS
  <2>4. w[0] = head' /\ 0 .. size' - 1 = {}
    BY <2>1, <2>3
  <2>5. Distinct(w, size')
    BY <2>4 DEF Distinct
  <2>6. size' \in Steps /\ \A k \in 0 .. size' : At'[k] = w[k]
    BY <2>2, <2>4, <2>5, ChainAfter
  <2>7. TypeOK'
    BY <2>2, <2>6 DEF TypeOK
  <2>8. At'[size'] = NULL
    BY <2>1, <2>3, <2>6
  <2>9. Prefix' /\ NotForgotten'
    BY <2>4, <2>8 DEF Prefix, NotForgotten, Distinct
  <2>10. allocated \ forgotten \subseteq ToSet(Nodes)
    BY <1>2, WalkFacts
  <2>11. Reached'
    BY <2>1, <2>10 DEF Reached
  <2>12. StaysInMemory'
    BY <2>1 DEF StaysInMemory
  <2> QED BY <2>1, <2>7, <2>9, <2>11, <2>12 DEF Inv
<1> QED BY <1>1, <1>2

(* A function keeps every number of the list within bounds. *)
LEMMA MappedInBounds ==
  ASSUME NEW f \in FuncList, NEW x \in 0 .. MaxData, f[x] <= MaxData
  PROVE  f[x] \in 0 .. MaxData
<1>1. MaxData \in Nat /\ x \in Nat
  BY ListAssumption
<1>2. x * x \in Nat /\ x * 5 \in Nat
  BY <1>1
<1>3. (x * x) * x \in Nat
  BY <1>1, <1>2
<1>4. f[x] \in Nat
  BY <1>1, <1>2, <1>3 DEF FuncList
<1> QED BY <1>1, <1>4

(* What mapping f does. *)
Mapped(f) ==
  /\ size' = size /\ reply' = <<"map">> /\ stray' = stray
  /\ \A k \in 0 .. size : At'[k] = At[k]
  /\ \A k \in 0 .. size - 1 : cell'[At[k]].data = f[cell[At[k]].data]

(* map *)
LEMMA MapStep ==
  ASSUME Inv, Map
  PROVE  Inv' /\ (stray' \/ \E f \in FuncList : Mapped(f))
<1>1. PICK f \in FuncList :
        /\ Ends => \A k \in DOMAIN Contents : f[Contents[k]] <= MaxData
        /\ Rewrite("map", head, LAMBDA n : f[cell[n].data], LAMBDA n : cell[n].next)
  BY DEF Map
<1>2. CASE ~Ends
  <2>1. Lose
    BY <1>1, <1>2 DEF Rewrite, Walk
  <2> QED BY <1>2, <2>1, WalkLoses
<1>3. CASE Ends
  <2>1. /\ cell' = [n \in Cells |->
                      IF n \in ToSet(Nodes)
                      THEN [data |-> f[cell[n].data], next |-> cell[n].next] ELSE cell[n]]
        /\ head' = head /\ reply' = <<"map">> /\ ~lost
        /\ UNCHANGED <<allocated, size, forgotten, program, lost, stray>>
    BY <1>1, <1>3 DEF Rewrite, Walk
  <2>2. PICK m \in Nat :
          /\ size <= m
          /\ \A k \in 0 .. m - 1 : At[k] \in allocated /\ At[k] \in Cells
          /\ Nodes = [k \in 1 .. m |-> At[k - 1]]
          /\ ToSet(Nodes) = {At[k] : k \in 0 .. m - 1}
    BY <1>3, WalkFacts
  <2>3. TypeOK /\ Prefix /\ size \in Nat
        /\ cell \in [Cells -> [data : 0 .. MaxData, next : Cells \cup {NULL}]]
    BY DEF Inv, TypeOK, BasicType
  <2>4. ASSUME NEW k \in 0 .. m - 1 PROVE f[cell[At[k]].data] \in 0 .. MaxData
    <3>1. k + 1 \in 1 .. m /\ (k + 1) - 1 = k
      BY <2>2
    <3>2. k + 1 \in DOMAIN Nodes /\ Nodes[k + 1] = At[k]
      BY <2>2, <3>1
    <3>3. k + 1 \in DOMAIN Contents /\ Contents[k + 1] = cell[At[k]].data
      BY <3>2 DEF Contents
    <3>4. f[cell[At[k]].data] <= MaxData
      BY <1>1, <1>3, <3>3
    <3>5. cell[At[k]].data \in 0 .. MaxData
      BY <2>2, <2>3
    <3> QED BY <3>4, <3>5, MappedInBounds
  <2>5. ASSUME NEW n \in Cells
        PROVE  /\ cell'[n].next = cell[n].next
               /\ cell'[n] \in [data : 0 .. MaxData, next : Cells \cup {NULL}]
               /\ n \in ToSet(Nodes) => cell'[n].data = f[cell[n].data]
    <3>1. CASE n \in ToSet(Nodes)
      <4>1. f[cell[n].data] \in 0 .. MaxData
        BY <2>2, <2>4, <3>1
      <4>2. cell'[n] = [data |-> f[cell[n].data], next |-> cell[n].next]
        BY <2>1, <3>1
      <4> QED BY <2>3, <4>1, <4>2
    <3>2. CASE n \notin ToSet(Nodes)
      BY <2>1, <2>3, <3>2
    <3> QED BY <3>1, <3>2
  <2>6. BasicType'
    <3>1. cell' \in [Cells -> [data : 0 .. MaxData, next : Cells \cup {NULL}]]
      BY <2>1, <2>5
    <3> QED BY <2>1, <2>3, <3>1 DEF TypeOK, BasicType
  <2>7. size' \in Steps /\ \A k \in 0 .. size' : At'[k] = At[k]
    <3>1. PICK w : w = At
      OBVIOUS
    <3>2. w[0] = head'
      BY <2>1, <2>3, <3>1, PrefixFacts
    <3>3. \A k \in 0 .. size' - 1 : w[k] \in allocated' /\ w[k + 1] = cell'[w[k]].next
      BY <2>1, <2>3, <2>5, <3>1, PrefixFacts
    <3>4. Distinct(w, size')
      BY <2>1, <2>3, <3>1 DEF Prefix
    <3> QED BY <2>6, <3>1, <3>2, <3>3, <3>4, ChainAfter
  <2>8. TypeOK'
    BY <2>6, <2>7 DEF TypeOK
  <2>9. Prefix'
    <3>1. \A k \in 0 .. size - 1 : k \in 0 .. size
      BY <2>3
    <3>2. size \in 0 .. size
      BY <2>3
    <3> QED BY <2>1, <2>3, <2>7, <3>1, <3>2 DEF Prefix, Distinct
  <2>10. NotForgotten'
    <3>1. \A k \in 0 .. size - 1 : k \in 0 .. size
      BY <2>3
    <3> QED BY <2>1, <2>7, <3>1 DEF Inv, NotForgotten
  <2>11. Reached'
    <3>1. \A S : ClosedUnderLinks(S)' => ClosedUnderLinks(S)
      BY <2>1, <2>3, <2>5 DEF ClosedUnderLinks, TypeOK, BasicType
    <3> QED BY <2>1, <3>1 DEF Inv, Reached
  <2>12. StaysInMemory'
    BY <2>1 DEF StaysInMemory
  <2>13. Mapped(f)
    <3>1. ASSUME NEW k \in 0 .. size - 1 PROVE cell'[At[k]].data = f[cell[At[k]].data]
      <4>1. k \in 0 .. m - 1
        BY <2>2, <2>3
      <4> QED BY <2>2, <2>5, <4>1
    <3> QED BY <2>1, <2>7, <3>1 DEF Mapped
  <2> QED BY <2>8, <2>9, <2>10, <2>11, <2>12, <2>13 DEF Inv
<1> QED BY <1>2, <1>3

(* What reverse_list does. *)
Reversed ==
  /\ size' = size /\ reply' = <<"reverse">> /\ stray' = stray
  /\ \A k \in 0 .. size - 1 : At'[k] = At[size - 1 - k]
  /\ \A k \in 0 .. size - 1 : cell'[At[k]].data = cell[At[k]].data

(* reverse_list *)
LEMMA ReverseStep ==
  ASSUME Inv, ReverseList
  PROVE  Inv' /\ (stray' \/ Reversed)
<1>1. CASE ~Ends
  <2>1. Lose
    BY <1>1 DEF ReverseList, Rewrite, Walk
  <2> QED BY <1>1, <2>1, WalkLoses
<1>2. CASE Ends
  <2>1. /\ cell' = [n \in Cells |->
                      IF n \in ToSet(Nodes)
                      THEN [data |-> cell[n].data, next |-> Before(n)] ELSE cell[n]]
        /\ head' = (IF head = NULL THEN NULL ELSE Nodes[Len(Nodes)])
        /\ reply' = <<"reverse">> /\ ~lost
        /\ UNCHANGED <<allocated, size, forgotten, program, lost, stray>>
    BY <1>2 DEF ReverseList, Rewrite, Walk
  <2>2. PICK m \in Nat :
          /\ At[m] = NULL /\ size <= m
          /\ ~stray => m = size
          /\ \A k \in 0 .. m - 1 : At[k] \in allocated /\ At[k] \in Cells
                                /\ At[k + 1] = cell[At[k]].next
          /\ Distinct(At, m)
          /\ Nodes = [k \in 1 .. m |-> At[k - 1]]
          /\ ToSet(Nodes) = {At[k] : k \in 0 .. m - 1}
          /\ allocated \ forgotten \subseteq ToSet(Nodes)
    BY <1>2, WalkFacts
  <2>3. /\ TypeOK /\ Prefix /\ size \in Nat /\ At[0] = head /\ allocated \subseteq Cells
        /\ cell \in [Cells -> [data : 0 .. MaxData, next : Cells \cup {NULL}]]
    BY <1>2, PrefixFacts DEF Inv, TypeOK, BasicType
  <2>4. \A j, k \in 0 .. m - 1 : At[j] = At[k] => j = k
    BY <2>2 DEF Distinct
  <2>5. head' = (IF m = 0 THEN NULL ELSE At[m - 1])
    <3>1. CASE m = 0
      BY <2>1, <2>2, <2>3, <3>1
    <3>2. CASE m # 0
      <4>1. 0 \in 0 .. m - 1 /\ m \in 1 .. m
        BY <2>2, <3>2
      <4>2. head # NULL
        BY <2>2, <2>3, <4>1, ListAssumption
      <4>3. Len(Nodes) = m
        BY <2>2
      <4> QED BY <2>1, <2>2, <3>2, <4>1, <4>2, <4>3
    <3> QED BY <3>1, <3>2
  <2>6. ASSUME NEW k \in 0 .. m - 1
        PROVE  /\ cell'[At[k]].data = cell[At[k]].data
               /\ cell'[At[k]].next = (IF k = 0 THEN NULL ELSE At[k - 1])
               /\ cell'[At[k]] \in [data : 0 .. MaxData, next : Cells \cup {NULL}]
    <3>1. At[k] \in ToSet(Nodes) /\ At[k] \in Cells
      BY <2>2
    <3>2. cell'[At[k]] = [data |-> cell[At[k]].data, next |-> Before(At[k])]
      BY <2>1, <3>1
    <3>3. Before(At[k]) = (IF k = 0 THEN NULL ELSE At[k - 1])
      <4>1. CASE k = 0
        BY <2>3, <4>1 DEF Before
      <4>2. CASE k # 0
        <5>1. At[k] # head
          <6>1. 0 \in 0 .. m - 1
            BY <2>2, <4>2
          <6> QED BY <2>3, <2>4, <4>2, <6>1
        <5>2. Position(At[k]) = k + 1
          <6>1. DOMAIN Nodes = 1 .. m /\ \A j \in 1 .. m : Nodes[j] = At[j - 1] /\ j - 1 \in 0 .. m - 1
            BY <2>2
          <6>2. k + 1 \in 1 .. m /\ (k + 1) - 1 = k
            BY <2>2
          <6>3. \A j \in DOMAIN Nodes : Nodes[j] = At[k] <=> j = k + 1
            BY <2>4, <6>1, <6>2
          <6> QED BY <6>1, <6>2, <6>3 DEF Position
        <5>3. Nodes[(k + 1) - 1] = At[k - 1]
          <6>1. k \in 1 .. m /\ (k + 1) - 1 = k
            BY <2>2, <4>2
          <6> QED BY <2>2, <6>1
        <5> QED BY <4>2, <5>1, <5>2, <5>3 DEF Before
      <4> QED BY <4>1, <4>2
    <3>4. Before(At[k]) \in Cells \cup {NULL}
      <4>1. k # 0 => k - 1 \in 0 .. m - 1
        BY <2>2
      <4> QED BY <2>2, <3>3, <4>1
    <3> QED BY <2>3, <3>1, <3>2, <3>3, <3>4
  <2>7. BasicType'
    <3>1. ASSUME NEW n \in Cells
          PROVE  cell'[n] \in [data : 0 .. MaxData, next : Cells \cup {NULL}]
      <4>1. CASE n \in ToSet(Nodes)
        BY <2>2, <2>6, <4>1
      <4>2. CASE n \notin ToSet(Nodes)
        BY <2>1, <2>3, <4>2
      <4> QED BY <4>1, <4>2
    <3>2. cell' \in [Cells -> [data : 0 .. MaxData, next : Cells \cup {NULL}]]
      BY <2>1, <3>1
    <3>3. head' \in Cells \cup {NULL}
      <4>1. m # 0 => m - 1 \in 0 .. m - 1
        BY <2>2
      <4> QED BY <2>2, <2>5, <4>1
    <3> QED BY <2>1, <2>3, <3>2, <3>3 DEF TypeOK, BasicType
  <2>8. PICK w : w = [k \in 0 .. m |-> IF k = m THEN NULL ELSE At[m - 1 - k]]
    OBVIOUS
  <2>9. \A k \in 0 .. m : w[k] = (IF k = m THEN NULL ELSE At[m - 1 - k])
    BY <2>8
  <2>10. w[0] = head'
    <3>1. 0 \in 0 .. m /\ m - 1 - 0 = m - 1
      BY <2>2
    <3> QED BY <2>5, <2>9, <3>1
  <2>11. ASSUME NEW k \in 0 .. m - 1
         PROVE  w[k] = At[m - 1 - k] /\ m - 1 - k \in 0 .. m - 1 /\ w[k] \in allocated
                /\ w[k + 1] = cell'[w[k]].next
    <3>1. PICK j : j = m - 1 - k
      OBVIOUS
    <3>2. j \in 0 .. m - 1 /\ k \in 0 .. m /\ k # m /\ k + 1 \in 0 .. m
          /\ (k + 1 = m <=> j = 0) /\ m - 1 - (k + 1) = j - 1
      BY <2>2, <3>1
    <3>3. w[k] = At[j] /\ w[k + 1] = (IF k + 1 = m THEN NULL ELSE At[j - 1])
      BY <2>9, <3>1, <3>2
    <3> QED BY <2>2, <2>6, <3>1, <3>2, <3>3
  <2>12. \A k \in 0 .. size - 1 : k \in 0 .. m - 1
    BY <2>2, <2>3
  <2>13. Distinct(w, size')
    <3>1. ASSUME NEW j \in 0 .. m - 1, NEW k \in 0 .. m - 1, w[j] = w[k] PROVE j = k
      <4>1. m - 1 - j = m - 1 - k
        BY <2>4, <2>11, <3>1
      <4> QED BY <2>2, <4>1
    <3> QED BY <2>1, <2>12, <3>1 DEF Distinct
  <2>14. size' \in Steps /\ \A k \in 0 .. size' : At'[k] = w[k]
    <3>1. \A k \in 0 .. size' - 1 : w[k] \in allocated' /\ w[k + 1] = cell'[w[k]].next
      BY <2>1, <2>11, <2>12
    <3> QED BY <2>7, <2>10, <2>13, <3>1, ChainAfter
  <2>15. TypeOK'
    BY <2>7, <2>14 DEF TypeOK
  <2>16. \A k \in 0 .. size' - 1 : At'[k] = w[k] /\ w[k] \in allocated'
    <3>1. \A k \in 0 .. size - 1 : k \in 0 .. size
      BY <2>3
    <3> QED BY <2>1, <2>11, <2>12, <2>14, <3>1
  <2>17. Prefix'
    <3>1. ~stray' => At'[size'] = NULL
      <4>1. SUFFICES ASSUME ~stray' PROVE At'[size'] = NULL
        OBVIOUS
      <4>2. size' = m /\ size' \in 0 .. size' /\ m \in 0 .. m
        BY <2>1, <2>2, <2>3, <4>1
      <4> QED BY <2>9, <2>14, <4>2
    <3> QED BY <2>13, <2>16, <3>1 DEF Prefix, Distinct
  <2>18. NotForgotten'
    <3>1. SUFFICES ASSUME ~stray', NEW k \in 0 .. size' - 1 PROVE At'[k] \notin forgotten'
      BY DEF NotForgotten
    <3>2. m = size /\ k \in 0 .. m - 1
      BY <2>1, <2>2, <3>1
    <3>3. At'[k] = At[m - 1 - k] /\ m - 1 - k \in 0 .. size - 1
      BY <2>11, <2>16, <3>1, <3>2
    <3> QED BY <2>1, <3>1, <3>3 DEF Inv, NotForgotten
  <2>19. Reached'
    <3>1. SUFFICES ASSUME NEW S \in SUBSET (Cells \cup {NULL}), ClosedUnderLinks(S)'
                   PROVE  allocated' \ forgotten' \subseteq S
      BY DEF Reached
    <3>2. head' \in S /\ \A n \in S \cap allocated : cell'[n].next \in S
      BY <2>1, <3>1 DEF ClosedUnderLinks
    <3> DEFINE T == {k \in 0 .. m : w[k] \in S}
    <3>3. 0 \in T
      BY <2>2, <2>10, <3>2
    <3>4. ASSUME NEW k \in 0 .. m - 1, k \in T PROVE k + 1 \in T
      <4>1. w[k] \in S \cap allocated /\ w[k + 1] = cell'[w[k]].next /\ k + 1 \in 0 .. m
        BY <2>2, <2>11, <3>4
      <4> QED BY <3>2, <4>1
    <3>5. 0 .. m \subseteq T
      BY <2>2, <3>3, <3>4, AllUpTo
    <3>6. ASSUME NEW j \in 0 .. m - 1 PROVE At[j] \in S
      <4>1. PICK k : k = m - 1 - j
        OBVIOUS
      <4>2. k \in 0 .. m /\ k # m /\ m - 1 - k = j
        BY <2>2, <4>1
      <4>3. w[k] \in S
        BY <3>5, <4>2
      <4> QED BY <2>9, <4>2, <4>3
    <3> QED BY <2>1, <2>2, <3>6
  <2>20. StaysInMemory'
    BY <2>1 DEF StaysInMemory
  <2>21. ~stray' => Reversed
    <3>1. SUFFICES ASSUME ~stray' PROVE Reversed
      OBVIOUS
    <3>2. m = size
      BY <2>1, <2>2, <3>1
    <3>3. \A k \in 0 .. size - 1 : At'[k] = At[size - 1 - k]
      BY <2>1, <2>11, <2>16, <3>2
    <3> QED BY <2>1, <2>6, <3>1, <3>2, <3>3 DEF Reversed
  <2> QED BY <2>15, <2>17, <2>18, <2>19, <2>20, <2>21 DEF Inv
<1> QED BY <1>1, <1>2

-----------------------------------------------------------------------------
(* A reply of three parts. *)
LEMMA ThreeParts ==
  ASSUME NEW a, NEW e, NEW i
  PROVE  <<a>> \o <<e, i>> = <<a, e, i>>
<1>1. PICK T : T = {a, e, i}
  OBVIOUS
<1>2. <<a>> \in Seq(T) /\ <<e, i>> \in Seq(T) /\ <<a, e, i>> \in Seq(T)
  BY <1>1
<1>3. PICK s : s = <<a>> \o <<e, i>>
  OBVIOUS
<1>4. s \in Seq(T) /\ Len(s) = 3 /\ s[1] = a /\ s[2] = e /\ s[3] = i
  <2>1. Len(<<a>>) = 1 /\ Len(<<e, i>>) = 2 /\ <<e, i>>[1] = e /\ <<e, i>>[2] = i /\ <<a>>[1] = a
    OBVIOUS
  <2> QED BY <1>2, <1>3, <2>1, ConcatProperties
<1>5. s = <<a, e, i>>
  <2>1. PICK t : t = <<a, e, i>>
    OBVIOUS
  <2>2. t \in Seq(T) /\ Len(t) = 3 /\ t[1] = a /\ t[2] = e /\ t[3] = i
    BY <1>2, <2>1
  <2>3. \A k \in 1 .. 3 : s[k] = t[k]
    BY <1>4, <2>2
  <2>4. s = t
    BY <1>4, <2>2, <2>3, SeqEqual
  <2> QED BY <2>1, <2>4
<1> QED BY <1>3, <1>5

(* search_list *)
SearchAnswered ==
  \E e \in Elements :
    /\ Answered
    /\ \/ Found(e) = {} /\ Ends /\ reply' = <<"search", e, -1>>
       \/ Found(e) # {} /\ reply' = <<"search", e, Min(Found(e))>>

LEMMA SearchStep ==
  ASSUME Inv, SearchList
  PROVE  Inv' /\ (stray' \/ (At' = At /\ SearchAnswered))
<1>1. PICK e \in Elements :
        IF Found(e) = {}
        THEN Output("search", <<e, -1>>)
        ELSE /\ ~lost
             /\ reply' = <<"search", e, Min(Found(e))>>
             /\ UNCHANGED <<program, head, cell, allocated, lost, size, stray, forgotten>>
  BY DEF SearchList
<1>2. CASE Found(e) # {}
  <2>1. Answered /\ reply' = <<"search", e, Min(Found(e))>>
    BY <1>1, <1>2 DEF Answered
  <2> QED BY <1>2, <2>1, AnsweredInv DEF SearchAnswered
<1>3. CASE Found(e) = {} /\ Ends
  <2>1. Answered /\ reply' = <<"search">> \o <<e, -1>>
    BY <1>1, <1>3 DEF Output, Walk, Answered
  <2>2. reply' = <<"search", e, -1>>
    BY <2>1, ThreeParts
  <2> QED BY <1>3, <2>1, <2>2, AnsweredInv DEF SearchAnswered
<1>4. CASE Found(e) = {} /\ ~Ends
  <2>1. Lose
    BY <1>1, <1>4 DEF Output, Walk
  <2> QED BY <1>4, <2>1, WalkLoses
<1> QED BY <1>2, <1>3, <1>4

(* What each instruction does, in terms of the walk from the head. *)
Printed(instr, numbers) == At' = At /\ Answered /\ reply' = <<instr>> \o numbers

Done ==
  \/ \E i, d, n : Inserted(i, d, n)
  \/ \E i : Removed(i) /\ \A k \in 0 .. size' : At'[k] = IF k < i THEN At[k] ELSE At[k + 1]
  \/ Reversed
  \/ size' = 0 /\ reply' = <<"reset">> /\ stray' = stray
  \/ \E f \in FuncList : Mapped(f)
  \/ Printed("show", Contents)
  \/ At' = At /\ SearchAnswered
  \/ Printed("len", <<Len(Nodes)>>)
  \/ Printed("sum", <<FoldLeft(LAMBDA a, b : a + b, 0, Contents)>>)

(* Each instruction keeps the invariant and does what it should. *)
LEMMA StepInv ==
  ASSUME Inv, Next
  PROVE  Inv' /\ (stray' \/ Done)
<1>1. CASE InsertNodeAt
  BY <1>1, InsertStep DEF Done
<1>2. CASE DeleteNodeAt
  <2>1. PICK i : Removed(i) /\ Unlinks(i)
    BY <1>2, DeleteRemoves
  <2> QED BY <2>1, RemovedInv DEF Done
<1>3. CASE ReverseList
  BY <1>3, ReverseStep DEF Done
<1>4. CASE ResetList
  BY <1>4, ResetStep DEF Done
<1>5. CASE Map
  BY <1>5, MapStep DEF Done
<1>6. CASE PrintList
  <2>1. Output("show", Contents)
    BY <1>6 DEF PrintList
  <2> QED BY <2>1, OutputStep DEF Done, Printed
<1>7. CASE SearchList
  BY <1>7, SearchStep DEF Done
<1>8. CASE ListLen
  <2>1. Output("len", <<Len(Nodes)>>)
    BY <1>8 DEF ListLen
  <2> QED BY <2>1, OutputStep DEF Done, Printed
<1>9. CASE SumList
  <2>1. Output("sum", <<FoldLeft(LAMBDA a, b : a + b, 0, Contents)>>)
    BY <1>9 DEF SumList
  <2> QED BY <2>1, OutputStep DEF Done, Printed
<1> QED BY <1>1, <1>2, <1>3, <1>4, <1>5, <1>6, <1>7, <1>8, <1>9 DEF Next

(* Nothing happens. *)
LEMMA StutterInv == Inv /\ UNCHANGED vars => Inv' /\ At' = At
<1> SUFFICES ASSUME Inv, UNCHANGED vars PROVE Inv' /\ At' = At
  OBVIOUS
<1>1. UNCHANGED <<program, head, cell, allocated, lost, size, stray, forgotten>>
  BY DEF vars
<1>2. At' = At
  BY <1>1 DEF At, Follow
<1>3. TypeOK'
  BY <1>1 DEF Inv, TypeOK, BasicType
<1>4. Prefix' /\ Reached' /\ NotForgotten' /\ StaysInMemory'
  BY <1>1, <1>2 DEF Inv, Prefix, Distinct, Reached, ClosedUnderLinks, NotForgotten, StaysInMemory
<1> QED BY <1>2, <1>3, <1>4 DEF Inv

(* No list yet. *)
LEMMA InitInv == Init => Inv
<1> SUFFICES ASSUME Init PROVE Inv
  OBVIOUS
<1>1. TypeOK
  <2>1. 0 \in Steps
    BY BoundType
  <2>2. [data |-> 0, next |-> NULL] \in [data : 0 .. MaxData, next : Cells \cup {NULL}]
    BY ListAssumption
  <2> QED BY <2>1, <2>2 DEF Init, TypeOK, BasicType
<1>2. 0 .. size - 1 = {} /\ size = 0
  BY DEF Init
<1>3. At[size] = NULL
  <2>1. At[0] = head
    BY <1>1, AtIsWalk DEF AtWalks, IsWalk, TypeOK
  <2> QED BY <1>2, <2>1 DEF Init
<1>4. Prefix /\ NotForgotten
  BY <1>2, <1>3 DEF Prefix, Distinct, NotForgotten
<1>5. Reached /\ StaysInMemory
  BY DEF Init, Reached, StaysInMemory
<1> QED BY <1>1, <1>4, <1>5 DEF Inv

(* The invariant holds in every state. *)
LEMMA InvHolds == Spec => []Inv
<1>1. Inv /\ [Next]_vars => Inv'
  BY StepInv, StutterInv
<1> QED BY <1>1, InitInv, PTL DEF Spec

(* What is allocated and not forgotten is reached, so it is a node. *)
LEMMA NothingLeaks == Inv => MemoryAccountedFor
<1> SUFFICES ASSUME Inv, ~stray PROVE allocated \ ToSet(Nodes) = forgotten
  BY DEF MemoryAccountedFor
<1>1. Ends /\ ToSet(Nodes) = {At[k] : k \in 0 .. size - 1}
  BY TidyEnds DEF Inv, Prefix
<1>2. allocated \ forgotten \subseteq ToSet(Nodes)
  BY <1>1, WalkFacts
<1>3. forgotten \subseteq allocated /\ \A k \in 0 .. size - 1 : At[k] \notin forgotten
  BY DEF Inv, TypeOK, BasicType, NotForgotten
<1> QED BY <1>1, <1>2, <1>3

(***************************************************************************)
(* No instruction reads a cell that was freed, NULL or a list without an   *)
(* end, unless the first node of the list was given an old link by         *)
(* insert_node_at, for every number of cells and all sequences of          *)
(* instructions of both programs.                                          *)
(***************************************************************************)
THEOREM NeverLost == Spec => []StaysInMemory
<1>1. Inv => StaysInMemory
  BY DEF Inv
<1> QED BY <1>1, InvHolds, PTL

(***************************************************************************)
(* Without such a link nothing leaks but the nodes delete_node_at takes    *)
(* out and does not free: the cells in use are those of the list and these. *)
(***************************************************************************)
THEOREM MemoryIsAccountedFor == Spec => []MemoryAccountedFor
BY NothingLeaks, InvHolds, PTL

-----------------------------------------------------------------------------
(* The numbers of a list that ends after size nodes. *)
Row ==
  At[size] = NULL =>
    /\ Ends /\ Items = Contents /\ size \in Nat /\ Len(Nodes) = size
    /\ Items \in Seq(0 .. MaxData) /\ Len(Items) = size /\ DOMAIN Items = 1 .. size
    /\ \A k \in 0 .. size - 1 : Items[k + 1] = cell[At[k]].data /\ At[k] \in Cells

(* They are a sequence of size numbers. *)
LEMMA InARow == TypeOK /\ Prefix => Row
<1> SUFFICES ASSUME TypeOK, Prefix, At[size] = NULL
             PROVE  /\ Ends /\ Items = Contents /\ size \in Nat /\ Len(Nodes) = size
                    /\ Items \in Seq(0 .. MaxData) /\ Len(Items) = size /\ DOMAIN Items = 1 .. size
                    /\ \A k \in 0 .. size - 1 : Items[k + 1] = cell[At[k]].data /\ At[k] \in Cells
  BY DEF Row
<1>1. Ends /\ Items = Contents /\ Nodes = [k \in 1 .. size |-> At[k - 1]]
  BY TidyEnds DEF Items
<1>2. Items = [k \in 1 .. size |-> cell[At[k - 1]].data]
  BY TidyEnds
<1>3. size \in Nat /\ \A k \in 0 .. size - 1 : At[k] \in Cells
  BY PrefixFacts
<1>4. \A k \in 1 .. size : k - 1 \in 0 .. size - 1
  BY <1>3
<1>5. \A k \in 0 .. size - 1 : k + 1 \in 1 .. size /\ (k + 1) - 1 = k
  BY <1>3
<1>6. cell \in [Cells -> [data : 0 .. MaxData, next : Cells \cup {NULL}]]
  BY DEF TypeOK, BasicType
<1>7. Items \in [1 .. size -> 0 .. MaxData]
  BY <1>2, <1>3, <1>4, <1>6
<1>8. Items \in Seq(0 .. MaxData)
  BY <1>3, <1>7, SeqDef
<1>9. Len(Items) = size /\ DOMAIN Items = 1 .. size
  BY <1>2, <1>3, <1>8, LenProperties
<1>10. Len(Nodes) = size
  BY <1>1, <1>3
<1>11. \A k \in 0 .. size - 1 : Items[k + 1] = cell[At[k]].data
  BY <1>2, <1>5
<1> QED BY <1>1, <1>3, <1>8, <1>9, <1>10, <1>11

(* The same after a step. *)
LEMMA InARowNext == TypeOK' /\ Prefix' => Row'
<1>1. (TypeOK /\ Prefix => Row)'
  BY InARow, PTL
<1> QED BY <1>1

(* InsertAt of SequencesExt, place by place. *)
LEMMA InsertAtFacts ==
  ASSUME NEW T, NEW s \in Seq(T), NEW i \in 0 .. Len(s), NEW d \in T
  PROVE  /\ InsertAt(s, i + 1, d) \in Seq(T) /\ Len(InsertAt(s, i + 1, d)) = Len(s) + 1
         /\ \A k \in 1 .. Len(s) + 1 :
              InsertAt(s, i + 1, d)[k] = IF k <= i THEN s[k] ELSE IF k = i + 1 THEN d ELSE s[k - 1]
<1>1. Len(s) \in Nat /\ \A k \in 1 .. Len(s) : s[k] \in T
  BY LenProperties
<1>2. PICK a : a = SubSeq(s, 1, i)
  OBVIOUS
<1>3. PICK b : b = SubSeq(s, i + 1, Len(s))
  OBVIOUS
<1>4. a \in Seq(T) /\ Len(a) = i /\ \A k \in 1 .. i : a[k] = s[k]
  <2>1. \A k \in 1 .. i : s[k] \in T
    BY <1>1
  <2>2. /\ SubSeq(s, 1, i) \in Seq(T)
        /\ Len(SubSeq(s, 1, i)) = IF 1 <= i THEN i - 1 + 1 ELSE 0
        /\ \A k \in 1 .. i - 1 + 1 : SubSeq(s, 1, i)[k] = s[1 + k - 1]
    BY <1>1, <2>1, SubSeqProperties
  <2>3. i - 1 + 1 = i /\ (IF 1 <= i THEN i - 1 + 1 ELSE 0) = i /\ \A k \in 1 .. i : 1 + k - 1 = k
    BY <1>1
  <2> QED BY <1>2, <2>2, <2>3
<1>5. b \in Seq(T) /\ Len(b) = Len(s) - i /\ \A k \in 1 .. Len(s) - i : b[k] = s[i + k]
  <2>1. PICK n : n = Len(s)
    OBVIOUS
  <2>2. i + 1 \in Int /\ n \in Int /\ \A k \in i + 1 .. n : s[k] \in T
    BY <1>1, <2>1
  <2>3. /\ SubSeq(s, i + 1, n) \in Seq(T)
        /\ Len(SubSeq(s, i + 1, n)) = IF i + 1 <= n THEN n - (i + 1) + 1 ELSE 0
        /\ \A k \in 1 .. n - (i + 1) + 1 : SubSeq(s, i + 1, n)[k] = s[i + 1 + k - 1]
    BY <2>2, SubSeqProperties
  <2>4. n - (i + 1) + 1 = n - i /\ (IF i + 1 <= n THEN n - (i + 1) + 1 ELSE 0) = n - i
        /\ \A k \in 1 .. n - i : i + 1 + k - 1 = i + k
    BY <1>1, <2>1
  <2> QED BY <1>3, <2>1, <2>3, <2>4
<1>6. PICK c : c = a \o <<d>>
  OBVIOUS
<1>7. c \in Seq(T) /\ Len(c) = i + 1
      /\ \A k \in 1 .. i + 1 : c[k] = IF k <= i THEN s[k] ELSE d
  <2>1. <<d>> \in Seq(T) /\ Len(<<d>>) = 1 /\ <<d>>[1] = d
    OBVIOUS
  <2>2. c \in Seq(T) /\ Len(c) = Len(a) + 1
        /\ \A k \in 1 .. Len(a) + 1 : c[k] = IF k <= Len(a) THEN a[k] ELSE <<d>>[k - Len(a)]
    BY <1>4, <1>6, <2>1, ConcatProperties
  <2>3. ASSUME NEW k \in 1 .. i + 1 PROVE c[k] = IF k <= i THEN s[k] ELSE d
    <3>1. k <= i => k \in 1 .. i
      BY <1>1
    <3>2. ~ (k <= i) => k - i = 1
      BY <1>1
    <3> QED BY <1>4, <2>1, <2>2, <3>1, <3>2
  <2> QED BY <1>4, <2>2, <2>3
<1>8. InsertAt(s, i + 1, d) = c \o b
  <2>1. (i + 1) - 1 = i
    BY <1>1
  <2> QED BY <1>2, <1>3, <1>6, <2>1 DEF InsertAt
<1>9. PICK e : e = c \o b
  OBVIOUS
<1>10. e \in Seq(T) /\ Len(e) = Len(c) + Len(b)
       /\ \A k \in 1 .. Len(c) + Len(b) : e[k] = IF k <= Len(c) THEN c[k] ELSE b[k - Len(c)]
  BY <1>5, <1>7, <1>9, ConcatProperties
<1>11. Len(c) + Len(b) = Len(s) + 1
  BY <1>1, <1>5, <1>7
<1>12. ASSUME NEW k \in 1 .. Len(s) + 1
       PROVE  e[k] = IF k <= i THEN s[k] ELSE IF k = i + 1 THEN d ELSE s[k - 1]
  <2>1. CASE k <= i + 1
    <3>1. k \in 1 .. i + 1 /\ (~ (k <= i) => k = i + 1)
      BY <1>1, <2>1
    <3>2. e[k] = c[k]
      BY <1>7, <1>10, <1>11, <2>1
    <3> QED BY <1>7, <3>1, <3>2
  <2>2. CASE ~ (k <= i + 1)
    <3>1. PICK j : j = k - (i + 1)
      OBVIOUS
    <3>2. j \in 1 .. Len(s) - i /\ i + j = k - 1 /\ ~ (k <= i) /\ k # i + 1
      BY <1>1, <2>2, <3>1
    <3>3. e[k] = b[j]
      BY <1>7, <1>10, <1>11, <2>2, <3>1
    <3> QED BY <1>5, <3>2, <3>3
  <2> QED BY <2>1, <2>2
<1> QED BY <1>8, <1>9, <1>10, <1>11, <1>12

(* RemoveAt of SequencesExt, place by place. *)
LEMMA RemoveAtFacts ==
  ASSUME NEW T, NEW s \in Seq(T), NEW i \in 0 .. Len(s) - 1
  PROVE  /\ RemoveAt(s, i + 1) \in Seq(T) /\ Len(RemoveAt(s, i + 1)) = Len(s) - 1
         /\ \A k \in 1 .. Len(s) - 1 : RemoveAt(s, i + 1)[k] = IF k <= i THEN s[k] ELSE s[k + 1]
<1>1. Len(s) \in Nat /\ \A k \in 1 .. Len(s) : s[k] \in T
  BY LenProperties
<1>2. PICK a : a = SubSeq(s, 1, i)
  OBVIOUS
<1>3. PICK b : b = SubSeq(s, i + 1 + 1, Len(s))
  OBVIOUS
<1>4. a \in Seq(T) /\ Len(a) = i /\ \A k \in 1 .. i : a[k] = s[k]
  <2>1. \A k \in 1 .. i : s[k] \in T
    BY <1>1
  <2>2. /\ SubSeq(s, 1, i) \in Seq(T)
        /\ Len(SubSeq(s, 1, i)) = IF 1 <= i THEN i - 1 + 1 ELSE 0
        /\ \A k \in 1 .. i - 1 + 1 : SubSeq(s, 1, i)[k] = s[1 + k - 1]
    BY <1>1, <2>1, SubSeqProperties
  <2>3. i - 1 + 1 = i /\ (IF 1 <= i THEN i - 1 + 1 ELSE 0) = i /\ \A k \in 1 .. i : 1 + k - 1 = k
    BY <1>1
  <2> QED BY <1>2, <2>2, <2>3
<1>5. b \in Seq(T) /\ Len(b) = Len(s) - 1 - i /\ \A k \in 1 .. Len(s) - 1 - i : b[k] = s[i + k + 1]
  <2>1. PICK n : n = Len(s)
    OBVIOUS
  <2>2. i + 1 + 1 \in Int /\ n \in Int /\ \A k \in i + 1 + 1 .. n : s[k] \in T
    BY <1>1, <2>1
  <2>3. /\ SubSeq(s, i + 1 + 1, n) \in Seq(T)
        /\ Len(SubSeq(s, i + 1 + 1, n)) = IF i + 1 + 1 <= n THEN n - (i + 1 + 1) + 1 ELSE 0
        /\ \A k \in 1 .. n - (i + 1 + 1) + 1 : SubSeq(s, i + 1 + 1, n)[k] = s[i + 1 + 1 + k - 1]
    BY <2>2, SubSeqProperties
  <2>4. n - (i + 1 + 1) + 1 = n - 1 - i
        /\ (IF i + 1 + 1 <= n THEN n - (i + 1 + 1) + 1 ELSE 0) = n - 1 - i
        /\ \A k \in 1 .. n - 1 - i : i + 1 + 1 + k - 1 = i + k + 1
    BY <1>1, <2>1
  <2> QED BY <1>3, <2>1, <2>3, <2>4
<1>6. RemoveAt(s, i + 1) = a \o b
  <2>1. (i + 1) - 1 = i
    BY <1>1
  <2> QED BY <1>2, <1>3, <2>1 DEF RemoveAt
<1>7. PICK e : e = a \o b
  OBVIOUS
<1>8. e \in Seq(T) /\ Len(e) = Len(a) + Len(b)
       /\ \A k \in 1 .. Len(a) + Len(b) : e[k] = IF k <= Len(a) THEN a[k] ELSE b[k - Len(a)]
  BY <1>4, <1>5, <1>7, ConcatProperties
<1>9. Len(a) + Len(b) = Len(s) - 1
  BY <1>1, <1>4, <1>5
<1>10. ASSUME NEW k \in 1 .. Len(s) - 1 PROVE e[k] = IF k <= i THEN s[k] ELSE s[k + 1]
  <2>1. CASE k <= i
    <3>1. k \in 1 .. i
      BY <1>1, <2>1
    <3> QED BY <1>4, <1>8, <1>9, <2>1, <3>1
  <2>2. CASE ~ (k <= i)
    <3>1. PICK j : j = k - i
      OBVIOUS
    <3>2. j \in 1 .. Len(s) - 1 - i /\ i + j + 1 = k + 1
      BY <1>1, <2>2, <3>1
    <3>3. e[k] = b[j]
      BY <1>4, <1>8, <1>9, <2>2, <3>1
    <3> QED BY <1>5, <2>2, <3>2, <3>3
  <2> QED BY <2>1, <2>2
<1> QED BY <1>6, <1>7, <1>8, <1>9, <1>10

-----------------------------------------------------------------------------
(* Each instruction does to the numbers what the sequence promises.  First
   insert_node_at. *)
LEMMA InsertedNumbers ==
  ASSUME Inv, Inv', ~stray', NEW i, NEW d, NEW n, Inserted(i, d, n)
  PROVE  i \in 0 .. Len(Items) /\ Items' = InsertAt(Items, i + 1, d)
<1>1. At[size] = NULL /\ At'[size'] = NULL /\ size \in Nat /\ size' = size + 1 /\ i \in 0 .. size
      /\ d \in 0 .. MaxData /\ n \in Cells \ allocated
  <2>1. ~stray \/ head = NULL
    BY DEF Inserted
  <2>2. head = NULL => size = 0 /\ At[0] = head
    BY PrefixFacts DEF Inv
  <2>3. At[size] = NULL
    BY <2>1, <2>2 DEF Inv, Prefix
  <2> QED BY <2>3, ListAssumption DEF Inserted, Inv, Prefix, TypeOK, BasicType
<1>2. /\ Items \in Seq(0 .. MaxData) /\ Len(Items) = size
      /\ \A k \in 0 .. size - 1 : Items[k + 1] = cell[At[k]].data /\ At[k] \in Cells \ {n}
  <2>1. \A k \in 0 .. size - 1 : At[k] # n
    BY <1>1, PrefixFacts DEF Inv
  <2> QED BY <1>1, <2>1, InARow DEF Inv, Row
<1>3. /\ Items' \in Seq(0 .. MaxData) /\ Len(Items') = size'
      /\ \A k \in 0 .. size' - 1 : Items'[k + 1] = cell'[At'[k]].data
  BY <1>1, InARowNext DEF Inv, Row
<1>4. /\ \A k \in 0 .. size : At'[k] = IF k < i THEN At[k] ELSE IF k = i THEN n ELSE At[k - 1]
      /\ cell'[n].data = d /\ \A m \in Cells \ {n} : cell'[m].data = cell[m].data
  BY DEF Inserted
<1>5. PICK s : s = InsertAt(Items, i + 1, d)
  OBVIOUS
<1>6. /\ s \in Seq(0 .. MaxData) /\ Len(s) = size + 1
      /\ \A k \in 1 .. size + 1 :
           s[k] = IF k <= i THEN Items[k] ELSE IF k = i + 1 THEN d ELSE Items[k - 1]
  <2>1. PICK row : row = Items
    OBVIOUS
  <2>2. row \in Seq(0 .. MaxData) /\ i \in 0 .. Len(row) /\ d \in 0 .. MaxData /\ Len(row) = size
    BY <1>1, <1>2, <2>1
  <2>3. s = InsertAt(row, i + 1, d)
    BY <1>5, <2>1
  <2>4. PICK T : T = 0 .. MaxData
    OBVIOUS
  <2>5. row \in Seq(T) /\ i \in 0 .. Len(row) /\ d \in T
    BY <2>2, <2>4
  <2>6. /\ InsertAt(row, i + 1, d) \in Seq(T) /\ Len(InsertAt(row, i + 1, d)) = Len(row) + 1
        /\ \A k \in 1 .. Len(row) + 1 :
             InsertAt(row, i + 1, d)[k]
               = IF k <= i THEN row[k] ELSE IF k = i + 1 THEN d ELSE row[k - 1]
    BY <2>5, InsertAtFacts
  <2> QED BY <2>1, <2>2, <2>3, <2>4, <2>6
<1>7. ASSUME NEW k \in 1 .. size + 1 PROVE Items'[k] = s[k]
  <2>1. PICK j \in 0 .. size : j + 1 = k
    <3>1. k - 1 \in 0 .. size /\ (k - 1) + 1 = k
      BY <1>1
    <3> QED BY <3>1
  <2>2. Items'[k] = cell'[At'[j]].data
    BY <1>1, <1>3, <2>1
  <2>3. CASE j < i
    <3>1. j \in 0 .. size - 1 /\ k <= i
      BY <1>1, <2>1, <2>3
    <3>2. Items'[k] = Items[k]
      BY <1>2, <1>4, <2>1, <2>2, <2>3, <3>1
    <3> QED BY <1>6, <3>1, <3>2
  <2>4. CASE j = i
    <3>1. ~ (k <= i) /\ k = i + 1
      BY <1>1, <2>1, <2>4
    <3> QED BY <1>1, <1>4, <1>6, <2>2, <2>4, <3>1
  <2>5. CASE j > i
    <3>1. PICK l : l = j - 1
      OBVIOUS
    <3>2. l \in 0 .. size - 1 /\ l + 1 = k - 1 /\ ~ (k <= i) /\ k # i + 1
      BY <1>1, <2>1, <2>5, <3>1
    <3>3. At'[j] = At[l]
      BY <1>1, <1>4, <2>5, <3>1
    <3>4. Items'[k] = Items[l + 1]
      BY <1>2, <1>4, <2>2, <3>2, <3>3
    <3> QED BY <1>6, <3>2, <3>4
  <2> QED BY <1>1, <2>3, <2>4, <2>5
<1>8. Items' = s
  BY <1>1, <1>3, <1>6, <1>7, SeqEqual
<1> QED BY <1>1, <1>2, <1>5, <1>8

(* delete_node_at *)
LEMMA RemovedNumbers ==
  ASSUME Inv, Inv', ~stray', NEW i, Removed(i),
         \A k \in 0 .. size' : At'[k] = IF k < i THEN At[k] ELSE At[k + 1]
  PROVE  i \in 0 .. Len(Items) - 1 /\ Items' = RemoveAt(Items, i + 1)
<1>1. At[size] = NULL /\ At'[size'] = NULL /\ size \in Nat /\ size' = size - 1 /\ i \in 0 .. size - 1
  BY DEF Removed, Inv, Prefix, TypeOK, BasicType
<1>2. /\ Items \in Seq(0 .. MaxData) /\ Len(Items) = size
      /\ \A k \in 0 .. size - 1 : Items[k + 1] = cell[At[k]].data /\ At[k] \in Cells
  BY <1>1, InARow DEF Inv, Row
<1>3. /\ Items' \in Seq(0 .. MaxData) /\ Len(Items') = size'
      /\ \A k \in 0 .. size' - 1 : Items'[k + 1] = cell'[At'[k]].data
  BY <1>1, InARowNext DEF Inv, Row
<1>4. \A m \in Cells : cell'[m].data = cell[m].data
  BY DEF Removed
<1>5. PICK s : s = RemoveAt(Items, i + 1)
  OBVIOUS
<1>6. /\ s \in Seq(0 .. MaxData) /\ Len(s) = size - 1
      /\ \A k \in 1 .. size - 1 : s[k] = IF k <= i THEN Items[k] ELSE Items[k + 1]
  BY <1>1, <1>2, <1>5, RemoveAtFacts
<1>7. ASSUME NEW k \in 1 .. size - 1 PROVE Items'[k] = s[k]
  <2>1. PICK j : j = k - 1
    OBVIOUS
  <2>2. j \in 0 .. size - 2 /\ j + 1 = k /\ j \in 0 .. size' /\ j \in 0 .. size' - 1
        /\ j \in 0 .. size - 1 /\ j + 1 \in 0 .. size - 1 /\ (j < i <=> k <= i)
    BY <1>1, <2>1
  <2>3. Items'[k] = cell'[At'[j]].data /\ At'[j] = IF j < i THEN At[j] ELSE At[j + 1]
    BY <1>3, <2>2
  <2>4. Items[j + 1] = cell[At[j]].data /\ At[j] \in Cells
        /\ Items[(j + 1) + 1] = cell[At[j + 1]].data /\ At[j + 1] \in Cells
    BY <1>2, <2>2
  <2> QED BY <1>4, <1>6, <2>2, <2>3, <2>4
<1>8. Items' = s
  BY <1>1, <1>3, <1>6, <1>7, SeqEqual
<1> QED BY <1>1, <1>2, <1>5, <1>8

(* reverse_list *)
LEMMA ReversedNumbers ==
  ASSUME Inv, Inv', ~stray', Reversed
  PROVE  Items' = Reverse(Items)
<1>1. At[size] = NULL /\ At'[size'] = NULL /\ size \in Nat /\ size' = size
  BY DEF Reversed, Inv, Prefix, TypeOK, BasicType
<1>2. /\ Items \in Seq(0 .. MaxData) /\ Len(Items) = size
      /\ \A k \in 0 .. size - 1 : Items[k + 1] = cell[At[k]].data
  BY <1>1, InARow DEF Inv, Row
<1>3. /\ Items' \in Seq(0 .. MaxData) /\ Len(Items') = size /\ DOMAIN Items' = 1 .. size
      /\ \A k \in 0 .. size - 1 : Items'[k + 1] = cell'[At'[k]].data
  BY <1>1, InARowNext DEF Inv, Row
<1>4. ASSUME NEW k \in 1 .. size PROVE Items'[k] = Items[(size - k) + 1]
  <2>1. PICK j, l : j = k - 1 /\ l = size - 1 - j
    OBVIOUS
  <2>2. j \in 0 .. size - 1 /\ j + 1 = k /\ l \in 0 .. size - 1 /\ l + 1 = (size - k) + 1
    BY <1>1, <2>1
  <2>3. At'[j] = At[l] /\ cell'[At[l]].data = cell[At[l]].data
    BY <2>1, <2>2 DEF Reversed
  <2> QED BY <1>2, <1>3, <2>2, <2>3
<1>5. Items' = [k \in 1 .. size |-> Items'[k]]
  BY <1>3, LenProperties
<1>6. Items' = [k \in 1 .. size |-> Items[(size - k) + 1]]
  BY <1>4, <1>5
<1> QED BY <1>2, <1>6 DEF Reverse

(* map *)
LEMMA MappedNumbers ==
  ASSUME Inv, Inv', ~stray', NEW f, Mapped(f)
  PROVE  Items' = [i \in DOMAIN Items |-> f[Items[i]]]
<1>1. At[size] = NULL /\ At'[size'] = NULL /\ size \in Nat /\ size' = size
  BY DEF Mapped, Inv, Prefix, TypeOK, BasicType
<1>2. /\ DOMAIN Items = 1 .. size
      /\ \A k \in 0 .. size - 1 : Items[k + 1] = cell[At[k]].data
  BY <1>1, InARow DEF Inv, Row
<1>3. /\ Items' \in Seq(0 .. MaxData) /\ DOMAIN Items' = 1 .. size /\ Len(Items') = size
      /\ \A k \in 0 .. size - 1 : Items'[k + 1] = cell'[At'[k]].data
  BY <1>1, InARowNext DEF Inv, Row
<1>4. ASSUME NEW k \in 1 .. size PROVE Items'[k] = f[Items[k]]
  <2>1. PICK j : j = k - 1
    OBVIOUS
  <2>2. j \in 0 .. size - 1 /\ j \in 0 .. size /\ j + 1 = k
    BY <1>1, <2>1
  <2>3. At'[j] = At[j] /\ cell'[At[j]].data = f[cell[At[j]].data]
    BY <2>2 DEF Mapped
  <2> QED BY <1>2, <1>3, <2>2, <2>3
<1>5. Items' = [k \in 1 .. size |-> Items'[k]]
  BY <1>3, LenProperties
<1> QED BY <1>2, <1>4, <1>5

(* reset_list *)
LEMMA ResetNumbers ==
  ASSUME Inv, Inv', ~stray', size' = 0
  PROVE  Items' = <<>>
<1>1. Items' \in Seq(0 .. MaxData) /\ Len(Items') = 0
  BY InARowNext DEF Inv, Row, Prefix
<1> QED BY <1>1, EmptySeq

(* The instructions that print *)
LEMMA SameNumbers ==
  ASSUME At' = At, UNCHANGED cell
  PROVE  Items' = Items
BY DEF Items, Contents, Nodes, Ends

(* search_list finds the first of the places that hold the number. *)
LEMMA FoundNumber ==
  ASSUME Inv, ~stray, NEW e
  PROVE  /\ Contains(Items, e) <=> Found(e) # {}
         /\ Found(e) # {} =>
              /\ Min(Found(e)) \in 0 .. Len(Items) - 1
              /\ Items[Min(Found(e)) + 1] = e
              /\ \A j \in 1 .. Min(Found(e)) : Items[j] # e
<1>1. TypeOK /\ Prefix /\ At[size] = NULL /\ size \in Nat /\ size <= Bound /\ Bound \in Nat
      /\ Steps = 0 .. Bound
  BY PrefixFacts DEF Inv, Prefix
<1>2. /\ Len(Items) = size
      /\ \A k \in 0 .. size - 1 : Items[k + 1] = cell[At[k]].data
  BY <1>1, InARow DEF Row
<1>3. \A k \in 0 .. size - 1 : At[k] \in allocated
  BY <1>1 DEF Prefix
<1>4. \A k \in Steps : At[k] \in allocated => k \in 0 .. size - 1
  <2> SUFFICES ASSUME NEW k \in Steps, At[k] \in allocated, k >= size PROVE FALSE
    BY <1>1
  <2>1. NULL \notin allocated /\ LOST \notin allocated /\ size \in Steps
    BY <1>1, ListAssumption DEF TypeOK, BasicType
  <2>2. k # size
    BY <1>1, <2>1
  <2>3. At[k] = LOST
    BY <1>1, <2>1, <2>2, OffTrack
  <2> QED BY <2>1, <2>3
<1>5. \A k \in Int : k \in Found(e) <=> k \in 0 .. size - 1 /\ Items[k + 1] = e
  BY <1>1, <1>2, <1>3, <1>4 DEF Found
<1>6. Found(e) \subseteq Nat
  BY <1>1 DEF Found
<1>7. Contains(Items, e) <=> Found(e) # {}
  <2>1. ASSUME NEW i \in 1 .. size, Items[i] = e PROVE Found(e) # {}
    <3>1. i - 1 \in 0 .. size - 1 /\ (i - 1) + 1 = i /\ i - 1 \in Int
      BY <1>1
    <3>2. i - 1 \in Found(e)
      BY <1>5, <2>1, <3>1
    <3> QED BY <3>2
  <2>2. ASSUME NEW k \in Found(e) PROVE \E i \in 1 .. size : Items[i] = e
    <3>1. k \in 0 .. size - 1 /\ Items[k + 1] = e
      BY <1>5, <1>6
    <3>2. k + 1 \in 1 .. size
      BY <1>1, <3>1
    <3> QED BY <3>1, <3>2
  <2> QED BY <1>2, <2>1, <2>2 DEF Contains
<1>8. ASSUME Found(e) # {}
      PROVE  /\ Min(Found(e)) \in 0 .. Len(Items) - 1
             /\ Items[Min(Found(e)) + 1] = e
             /\ \A j \in 1 .. Min(Found(e)) : Items[j] # e
  <2>1. \E x \in Found(e) : \A y \in Found(e) : x <= y
    BY <1>6, <1>8, LeastNat
  <2>2. PICK x : x = Min(Found(e))
    OBVIOUS
  <2>3. x \in Found(e) /\ \A y \in Found(e) : x <= y
    BY <2>1, <2>2 DEF Min
  <2>4. x \in 0 .. size - 1 /\ Items[x + 1] = e
    BY <1>5, <1>6, <2>3
  <2>5. ASSUME NEW j \in 1 .. x, Items[j] = e PROVE FALSE
    <3>1. j - 1 \in 0 .. size - 1 /\ (j - 1) + 1 = j /\ j - 1 \in Int /\ ~ (x <= j - 1)
      BY <1>1, <2>4
    <3>2. j - 1 \in Found(e)
      BY <1>5, <2>5, <3>1
    <3> QED BY <2>3, <3>1, <3>2
  <2> QED BY <1>2, <2>2, <2>4, <2>5
<1> QED BY <1>7, <1>8

-----------------------------------------------------------------------------
(* The operators of the sequence are those of this module. *)
LEMMA SameOperators ==
  ASSUME NEW s, NEW i, NEW e
  PROVE  /\ Promise!InsertAt(s, i, e) = InsertAt(s, i, e)
         /\ Promise!RemoveAt(s, i) = RemoveAt(s, i)
         /\ Promise!Reverse(s) = Reverse(s)
         /\ Promise!Contains(s, e) <=> Contains(s, e)
BY DEF Promise!InsertAt, InsertAt, Promise!RemoveAt, RemoveAt, Promise!Reverse, Reverse,
       Promise!Contains, Contains

(* Both add up the same way. *)
LEMMA SameTotal ==
  ASSUME NEW s
  PROVE  Promise!Total(s) = FoldLeft(LAMBDA a, b : a + b, 0, s)
BY DEF Promise!Total, Promise!FoldLeft, FoldLeft, Promise!MapThenFoldSet, MapThenFoldSet, Promise!Max, Max

(* So every instruction is a step of the sequence. *)
LEMMA StepKeepsPromise ==
  ASSUME Inv, Inv', ~stray', Done
  PROVE  Promise!Next
<1>1. ASSUME NEW i, NEW d, NEW n, Inserted(i, d, n) PROVE Promise!Next
  <2>1. i \in 0 .. Len(Items) /\ Items' = InsertAt(Items, i + 1, d)
    BY <1>1, InsertedNumbers
  <2>2. d \in Elements /\ reply' = <<"insert">>
    BY <1>1 DEF Inserted
  <2>3. Promise!Change("insert", Promise!InsertAt(Items, i + 1, d))
    BY <2>1, <2>2, SameOperators DEF Promise!Change
  <2> QED BY <2>1, <2>2, <2>3 DEF Promise!Insert, Promise!Next
<1>2. ASSUME NEW i, Removed(i), \A k \in 0 .. size' : At'[k] = IF k < i THEN At[k] ELSE At[k + 1]
      PROVE  Promise!Next
  <2>1. i \in 0 .. Len(Items) - 1 /\ Items' = RemoveAt(Items, i + 1)
    BY <1>2, RemovedNumbers
  <2>2. reply' = <<"delete">>
    BY <1>2 DEF Removed
  <2>3. Promise!Change("delete", Promise!RemoveAt(Items, i + 1))
    BY <2>1, <2>2, SameOperators DEF Promise!Change
  <2> QED BY <2>1, <2>3 DEF Promise!Delete, Promise!Next
<1>3. CASE Reversed
  <2>1. Items' = Reverse(Items) /\ reply' = <<"reverse">>
    BY <1>3, ReversedNumbers DEF Reversed
  <2>2. Promise!Change("reverse", Promise!Reverse(Items))
    BY <2>1, SameOperators DEF Promise!Change
  <2> QED BY <2>2 DEF Promise!Next
<1>4. CASE size' = 0 /\ reply' = <<"reset">> /\ stray' = stray
  <2>1. Items' = <<>>
    BY <1>4, ResetNumbers
  <2>2. Promise!Change("reset", <<>>)
    BY <1>4, <2>1 DEF Promise!Change
  <2> QED BY <2>2 DEF Promise!Next
<1>5. ASSUME NEW f \in FuncList, Mapped(f) PROVE Promise!Next
  <2>1. Items' = [i \in DOMAIN Items |-> f[Items[i]]] /\ reply' = <<"map">>
    BY <1>5, MappedNumbers DEF Mapped
  <2>2. Promise!Change("map", [i \in DOMAIN Items |-> f[Items[i]]])
    BY <2>1 DEF Promise!Change
  <2> QED BY <1>5, <2>2 DEF Promise!Apply, Promise!Next
<1>6. Answered /\ At' = At => Items' = Items /\ ~stray
  BY SameNumbers DEF Answered
<1>7. ~stray => Items = Contents /\ Len(Nodes) = size /\ Len(Items) = size
  BY InARow DEF Inv, Row, Prefix
<1>8. CASE Printed("show", Contents)
  <2>1. Promise!Answer("show", Items)
    BY <1>6, <1>7, <1>8 DEF Printed, Promise!Answer
  <2> QED BY <2>1 DEF Promise!Next
<1>9. CASE Printed("len", <<Len(Nodes)>>)
  <2>1. Promise!Answer("len", <<Len(Items)>>)
    BY <1>6, <1>7, <1>9 DEF Printed, Promise!Answer
  <2> QED BY <2>1 DEF Promise!Next
<1>10. CASE Printed("sum", <<FoldLeft(LAMBDA a, b : a + b, 0, Contents)>>)
  <2>1. Answered /\ At' = At
    BY <1>10 DEF Printed
  <2>2. Items' = Items /\ Items = Contents
    BY <1>6, <1>7, <2>1
  <2>3. Promise!Total(Items) = FoldLeft(LAMBDA a, b : a + b, 0, Items)
    BY SameTotal
  <2>4. Promise!Total(Items) = FoldLeft(LAMBDA a, b : a + b, 0, Contents)
    BY <2>2, <2>3
  <2>5. Promise!Answer("sum", <<Promise!Total(Items)>>)
    BY <1>10, <2>2, <2>4 DEF Printed, Promise!Answer
  <2> QED BY <2>5 DEF Promise!Next
<1>11. CASE At' = At /\ SearchAnswered
  <2>1. PICK e \in Elements :
          /\ Answered
          /\ \/ Found(e) = {} /\ Ends /\ reply' = <<"search", e, -1>>
             \/ Found(e) # {} /\ reply' = <<"search", e, Min(Found(e))>>
    BY <1>11 DEF SearchAnswered
  <2>2. Items' = Items /\ ~stray
    BY <1>6, <1>11, <2>1
  <2>3. /\ Promise!Contains(Items, e) <=> Found(e) # {}
        /\ Found(e) # {} =>
             /\ Min(Found(e)) \in 0 .. Len(Items) - 1
             /\ Items[Min(Found(e)) + 1] = e
             /\ \A j \in 1 .. Min(Found(e)) : Items[j] # e
    BY <2>2, FoundNumber, SameOperators
  <2>4. CASE Found(e) = {}
    <3>1. Promise!Answer("search", <<e, -1>>)
      BY <2>1, <2>2, <2>4, ThreeParts DEF Promise!Answer
    <3> QED BY <2>3, <2>4, <3>1 DEF Promise!Search, Promise!Next
  <2>5. CASE Found(e) # {}
    <3>1. PICK i : i = Min(Found(e))
      OBVIOUS
    <3>2. Promise!Answer("search", <<e, i>>)
      BY <2>1, <2>2, <2>5, <3>1, ThreeParts DEF Promise!Answer
    <3> QED BY <2>3, <2>5, <3>1, <3>2 DEF Promise!Search, Promise!Next
  <2> QED BY <2>4, <2>5
<1> QED BY <1>1, <1>2, <1>3, <1>4, <1>5, <1>8, <1>9, <1>10, <1>11 DEF Done

(***************************************************************************)
(* The links implement SeqList: every instruction does to the sequence of  *)
(* numbers in the list what the driver's instruction promises, and prints  *)
(* what it promises of it, except in a list with an old link.              *)
(***************************************************************************)
THEOREM ListImplemented == Spec => ImplementsList
<1>1. Init => Promise!Init
  <2> SUFFICES ASSUME Init PROVE Promise!Init
    OBVIOUS
  <2>1. Inv /\ size = 0 /\ ~stray /\ reply = <<>>
    BY InitInv DEF Init
  <2>2. Items \in Seq(0 .. MaxData) /\ Len(Items) = 0
    BY <2>1, InARow DEF Inv, Row, Prefix
  <2> QED BY <2>1, <2>2, EmptySeq DEF Promise!Init
<1>2. Inv /\ Inv' /\ [Next]_vars => [stray' \/ Promise!Next]_<<Items, reply>>
  <2> SUFFICES ASSUME Inv, Inv', [Next]_vars PROVE [stray' \/ Promise!Next]_<<Items, reply>>
    OBVIOUS
  <2>1. CASE Next
    BY <2>1, StepInv, StepKeepsPromise
  <2>2. CASE UNCHANGED vars
    <3>1. Items' = Items /\ reply' = reply
      BY <2>2, StutterInv, SameNumbers DEF vars
    <3> QED BY <3>1
  <2> QED BY <2>1, <2>2
<1> QED BY <1>1, <1>2, InvHolds, PTL DEF Spec, ImplementsList
=============================================================================
